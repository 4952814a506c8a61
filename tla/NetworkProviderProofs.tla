------------------------- MODULE NetworkProviderProofs -------------------------
(***************************************************************************)
(* Proofs about NetworkProvider: its type invariant, that the table of     *)
(* addresses agrees with the rows, that an interface keeps the tap it was  *)
(* given, and that nothing is left of the tap of a free address - for any  *)
(* number of interfaces, addresses, failures and restarts.                 *)
(***************************************************************************)
EXTENDS NetworkProvider, TLAPS

(* Every step of the module is one of these.                               *)
LEMMA StepCases ==
    ASSUME [Next]_vars
    PROVE  \/ \E i \in Interfaces :
                \/ AllocateInterface(i) \/ CreateMachine(i) \/ AbandonMachine(i)
                \/ SetupInterface(i) \/ ReleaseInterface(i) \/ ReleaseAgain(i)
                \/ AskedBack(i)
                \/ DeleteExistingTap(i) \/ SetupFails(i) \/ AddTap(i)
                \/ AppendRule(i)
                \/ LockAndFind(i) \/ RemoveRule(i) \/ DeleteLink(i)
                \/ StampReleased(i)
           \/ Restart
           \/ UNCHANGED vars
  BY DEF Next, Setup, Release

(* A byte's addition and subtraction undo each other.                      *)
LEMMA ByteDifference ==
    ASSUME NEW b \in 0..255, NEW x \in Nat, x < 256
    PROVE  (((b + x) % 256) - b) % 256 = x
  BY SMT

(* The quotient and the remainder of a division by 256.                    *)
LEMMA Division ==
    ASSUME NEW n \in Nat
    PROVE  /\ n \div 256 \in Nat /\ n % 256 \in Nat /\ n % 256 < 256
           /\ n = 256 * (n \div 256) + (n % 256)
  <1>1. n \div 256 \in Nat
    BY SMT
  <1>2. n % 256 \in Nat /\ n % 256 < 256
    BY SMT
  <1>3. n = 256 * (n \div 256) + (n % 256)
    BY SMT
  <1> QED BY <1>1, <1>2, <1>3

(* A number below 256 times m has a quotient below m.                      *)
LEMMA SmallQuotient ==
    ASSUME NEW n \in Nat, NEW m \in Nat, n < 256 * m
    PROVE  n \div 256 < m
  BY SMT

(* Two divisions by 256 are one by their product.                          *)
LEMMA DivideTwice ==
    ASSUME NEW n \in Nat
    PROVE  n \div (256 * 256) = (n \div 256) \div 256
  BY SMTT(30)

(* The octets of an offset are bytes, and make it up again.                *)
LEMMA Octets ==
    ASSUME NEW offset \in Nat, offset < 256 * 256 * 256
    PROVE  /\ \A k \in 1..4 : Octet(offset, k) \in Nat /\ Octet(offset, k) < 256
           /\ Octet(offset, 1) * (256 * 256 * 256) + Octet(offset, 2) * (256 * 256)
                + Octet(offset, 3) * 256 + Octet(offset, 4) = offset
  <1> DEFINE high == offset \div 256
             top == high \div 256
  <1>1. /\ Octet(offset, 1) = (offset \div (256 * 256 * 256)) % 256
        /\ Octet(offset, 2) = (offset \div (256 * 256)) % 256
        /\ Octet(offset, 3) = high % 256
        /\ Octet(offset, 4) = (offset \div 1) % 256
    BY Zenon DEF Octet, Weight
  <1>2. /\ offset = 256 * high + (offset % 256)
        /\ offset % 256 \in Nat /\ offset % 256 < 256 /\ high \in Nat
    BY Division
  <1>3. offset \div (256 * 256 * 256) = 0 /\ 0 % 256 = 0 /\ offset \div 1 = offset
    BY SMT
  <1>4. offset \div (256 * 256) = top
    BY DivideTwice
  <1>6. high < 256 * 256
    <2>1. offset < 256 * (256 * 256) /\ 256 * 256 \in Nat
      BY SMT
    <2> QED BY <2>1, SmallQuotient
  <1> HIDE DEF high
  <1>5. /\ high = 256 * top + (high % 256)
        /\ high % 256 \in Nat /\ high % 256 < 256 /\ top \in Nat
    BY <1>2, Division
  <1>7. top < 256
    BY <1>2, <1>6, SmallQuotient
  <1> HIDE DEF top
  <1>8. top % 256 = top
    BY <1>5, <1>7, SMT
  <1>9. /\ Octet(offset, 1) = 0 /\ Octet(offset, 2) = top
        /\ Octet(offset, 3) = high % 256 /\ Octet(offset, 4) = offset % 256
    BY <1>1, <1>3, <1>4, <1>8
  <1>10. \A k \in 1..4 : k = 1 \/ k = 2 \/ k = 3 \/ k = 4
    OBVIOUS
  <1>11. \A k \in 1..4 : Octet(offset, k) \in Nat /\ Octet(offset, k) < 256
    BY <1>2, <1>5, <1>7, <1>9, <1>10
  <1> DEFINE low3 == high % 256
             low4 == offset % 256
  <1>12. low3 \in Nat /\ low4 \in Nat /\ offset = 256 * high + low4 /\ high = 256 * top + low3
    BY <1>2, <1>5, Zenon
  <1> HIDE DEF low3, low4
  <1>13. 0 * (256 * 256 * 256) + top * (256 * 256) + low3 * 256 + low4 = offset
    BY <1>2, <1>5, <1>12, SMT
  <1> QED BY <1>9, <1>11, <1>13 DEF low3, low4

LEMMA OctetBytes ==
    ASSUME NEW offset \in Nat, offset < 256 * 256 * 256, NEW k \in 1..4
    PROVE  Octet(offset, k) \in Nat /\ Octet(offset, k) < 256
  <1>1. \A j \in 1..4 : Octet(offset, j) \in Nat /\ Octet(offset, j) < 256
    BY Octets
  <1> QED BY <1>1

(* The octets of an offset, added to those of the network and subtracted   *)
(* again, give the offset: no octet needs a carry or a borrow, wherever    *)
(* the network begins.                                                     *)
LEMMA RoundTrip ==
    ASSUME NEW offset \in Nat, offset < 256 * 256 * 256
    PROVE  calculateOffsetFromIP(calculateIPFromOffset(offset)) = offset
  <1> DEFINE ip == calculateIPFromOffset(offset)
  <1>1. ASSUME NEW k \in 1..4
        PROVE  Difference(ip, k) = Octet(offset, k)
    <2>1. networkAddr[k] \in 0..255 /\ Octet(offset, k) \in Nat /\ Octet(offset, k) < 256
      <3>1. networkAddr[k] \in 0..255
        BY ProviderAssumption
      <3>2. Octet(offset, k) \in Nat /\ Octet(offset, k) < 256
        BY OctetBytes
      <3> QED BY <3>1, <3>2
    <2>2. ip[k] = (networkAddr[k] + Octet(offset, k)) % 256
      BY DEF calculateIPFromOffset
    <2> HIDE DEF ip
    <2> QED BY <2>1, <2>2, ByteDifference DEF Difference
  <1> HIDE DEF ip
  <1>2. /\ Weight[1] = 256 * 256 * 256 /\ Weight[2] = 256 * 256
        /\ Weight[3] = 256 /\ Weight[4] = 1
    BY SMT DEF Weight
  <1>3. /\ Difference(ip, 1) = Octet(offset, 1) /\ Difference(ip, 2) = Octet(offset, 2)
        /\ Difference(ip, 3) = Octet(offset, 3) /\ Difference(ip, 4) = Octet(offset, 4)
    BY <1>1
  <1>4. Octet(offset, 4) * 1 = Octet(offset, 4)
    BY Octets
  <1>5. calculateOffsetFromIP(ip)
          = Octet(offset, 1) * (256 * 256 * 256) + Octet(offset, 2) * (256 * 256)
              + Octet(offset, 3) * 256 + Octet(offset, 4) * 1
    BY <1>2, <1>3, Zenon DEF calculateOffsetFromIP
  <1>6. Octet(offset, 1) * (256 * 256 * 256) + Octet(offset, 2) * (256 * 256)
          + Octet(offset, 3) * 256 + Octet(offset, 4) = offset
    BY Octets
  <1> HIDE DEF calculateOffsetFromIP, calculateIPFromOffset
  <1>7. calculateOffsetFromIP(ip) = offset
    BY <1>4, <1>5, <1>6
  <1> QED BY <1>7 DEF ip

(* The network and the gateway claim the first two slots.                  *)
LEMMA ReservedSlots == Reserved = {0, 1}
  <1>1. calculateOffsetFromIP(gatewayAddr) = 1
    BY RoundTrip DEF gatewayAddr
  <1>2. calculateOffsetFromIP(networkAddr) = 0
    <2>1. ASSUME NEW k \in 1..4
          PROVE  Difference(networkAddr, k) = 0
      BY ProviderAssumption DEF Difference
    <2>2. /\ Difference(networkAddr, 1) = 0 /\ Difference(networkAddr, 2) = 0
          /\ Difference(networkAddr, 3) = 0 /\ Difference(networkAddr, 4) = 0
      BY <2>1
    <2>3. 0 * Weight[1] + 0 * Weight[2] + 0 * Weight[3] + 0 * Weight[4] = 0
      BY SMT DEF Weight
    <2> QED BY <2>2, <2>3, Zenon DEF calculateOffsetFromIP
  <1> QED BY <1>1, <1>2 DEF Reserved

(* The address of an interface leads back to its slot.                     *)
LEMMA AddressOfSlot ==
    ASSUME TypeOK, NEW i \in Interfaces
    PROVE  calculateOffsetFromIP(IPAddress(i)) = SlotOf(i)
  <1>1. SlotOf(i) \in Nat /\ SlotOf(i) < 256 * 256 * 256
    BY ProviderAssumption DEF TypeOK, Row, Slots, SlotOf
  <1> QED BY <1>1, RoundTrip DEF IPAddress

(* The type invariant holds initially.                                     *)
LEMMA InitialType ==
    ASSUME Init PROVE TypeOK
  BY ProviderAssumption, ReservedSlots DEF Init, TypeOK, Slots, Rules, NoCall, NoRow,
     Row, Call, History

(* A table of counters with one counter changed is a table of counters.    *)
LEMMA CountsUpdated ==
    ASSUME NEW S, NEW T, NEW f \in [S -> [T -> Nat]], NEW s \in S, NEW t \in T,
           NEW k \in Nat
    PROVE  [f EXCEPT ![s][t] = k] \in [S -> [T -> Nat]]
  <1>1. [f[s] EXCEPT ![t] = k] \in [T -> Nat]
    OBVIOUS
  <1>2. [f EXCEPT ![s] = [f[s] EXCEPT ![t] = k]] \in [S -> [T -> Nat]]
    BY <1>1
  <1> QED BY <1>2

(* Every step keeps the type invariant.                                    *)
LEMMA StepType ==
    ASSUME TypeOK, [Next]_vars
    PROVE  TypeOK'
  <1> USE DEF TypeOK
  <1>1. ASSUME NEW i \in Interfaces, AllocateInterface(i) PROVE TypeOK'
    <2>1. PICK index \in Slots :
            /\ iface' = [iface EXCEPT ![i] = [NoRow EXCEPT !.status = "creating",
                                                           !.slot = index]]
            /\ claimed' = claimed \cup {index}
      BY <1>1 DEF AllocateInterface
    <2>2. [NoRow EXCEPT !.status = "creating", !.slot = index] \in Row
      BY <2>1 DEF NoRow, Row
    <2>3. iface' \in [Interfaces -> Row]
      BY <2>1, <2>2
    <2> QED BY <1>1, <2>1, <2>3 DEF AllocateInterface
  <1>2. ASSUME NEW i \in Interfaces, CreateMachine(i) PROVE TypeOK'
    BY <1>2 DEF CreateMachine, Row
  <1>3. ASSUME NEW i \in Interfaces, AbandonMachine(i) PROVE TypeOK'
    <2>1. iface' \in [Interfaces -> Row]
      <3>1. \A r \in Row : [r EXCEPT !.status = "abandoned"] \in Row
        BY DEF Row
      <3> QED BY <1>3, <3>1 DEF AbandonMachine
    <2>2. op' \in [Interfaces -> Call]
      BY <1>3 DEF AbandonMachine, Goto, Call
    <2>3. used' \in [setups : Nat, failures : Nat, restarts : Nat]
      BY <1>3 DEF AbandonMachine, Fail
    <2> QED BY <1>3, <2>1, <2>2, <2>3 DEF AbandonMachine
  <1>4. ASSUME NEW i \in Interfaces, SetupInterface(i) PROVE TypeOK'
    <2>1. iface' \in [Interfaces -> Row]
      <3>1. \A r \in Row : [r EXCEPT !.up = "partly"] \in Row
        BY DEF Row
      <3> QED BY <1>4, <3>1 DEF SetupInterface
    <2>2. op' \in [Interfaces -> Call]
      BY <1>4 DEF SetupInterface, Goto, Call
    <2>3. used' \in [setups : Nat, failures : Nat, restarts : Nat]
      BY <1>4 DEF SetupInterface
    <2>4. seen' \subseteq History
      BY <1>4 DEF SetupInterface, Note, History
    <2> QED BY <1>4, <2>1, <2>2, <2>3, <2>4 DEF SetupInterface
  <1>5. ASSUME NEW i \in Interfaces, ReleaseInterface(i) PROVE TypeOK'
    <2>1. iface' \in [Interfaces -> Row]
      <3>1. \A r \in Row : [r EXCEPT !.up = IF @ = "never" THEN @ ELSE "partly",
                                     !.status = "terminating"] \in Row
        BY DEF Row
      <3>2. iface[i] \in Row
        OBVIOUS
      <3> QED BY <1>5, <3>1, <3>2 DEF ReleaseInterface
    <2>2. op' \in [Interfaces -> Call]
      BY <1>5 DEF ReleaseInterface, Goto, Call
    <2>3. seen' \subseteq History
      BY <1>5 DEF ReleaseInterface, Note, History
    <2> QED BY <1>5, <2>1, <2>2, <2>3 DEF ReleaseInterface
  <1>6. ASSUME NEW i \in Interfaces, ReleaseAgain(i) PROVE TypeOK'
    BY <1>6 DEF ReleaseAgain, Goto, Note, Call, History
  <1>7. ASSUME NEW i \in Interfaces, AskedBack(i) PROVE TypeOK'
    BY <1>7 DEF AskedBack, Row
  <1>20. ASSUME NEW i \in Interfaces
         PROVE  SlotOf(i) \in Slots
    BY DEF SlotOf, Row
  <1>21. ASSUME NEW s \in Slots
         PROVE  /\ Vanished(s) \in [Interfaces -> Call]
                /\ Unlinked(s) \in [Slots -> Interfaces \cup {None}]
    BY DEF Vanished, Unlinked, Call
  <1>22. NoCall \in Call
    BY DEF NoCall, Call, Rules
  <1>8. ASSUME NEW i \in Interfaces, DeleteExistingTap(i) PROVE TypeOK'
    <2> DEFINE vanished == Vanished(SlotOf(i))
    <2>1. vanished \in [Interfaces -> Call] /\ op' = [vanished EXCEPT ![i].pc = "add"]
      BY <1>8, <1>20, <1>21 DEF DeleteExistingTap
    <2> HIDE DEF vanished
    <2>2. op' \in [Interfaces -> Call]
      BY <2>1 DEF Call
    <2> QED BY <1>8, <1>20, <1>21, <2>2 DEF DeleteExistingTap
  <1>9. ASSUME NEW i \in Interfaces, SetupFails(i) PROVE TypeOK'
    BY <1>9, <1>22 DEF SetupFails, Fail, Return, History
  <1>10. ASSUME NEW i \in Interfaces, AddTap(i) PROVE TypeOK'
    <2>1. op' \in [Interfaces -> Call]
      BY <1>10, <1>22 DEF AddTap, Return, Call, Rules, FirstRule
    <2>2. link' \in [Slots -> Interfaces \cup {None}]
      BY <1>10, <1>20 DEF AddTap
    <2>3. used' \in [setups : Nat, failures : Nat, restarts : Nat]
      BY <1>10 DEF AddTap, Fail
    <2>4. seen' \subseteq History
      BY <1>10 DEF AddTap, History
    <2> QED BY <1>10, <2>1, <2>2, <2>3, <2>4 DEF AddTap
  <1>11. ASSUME NEW i \in Interfaces, AppendRule(i) PROVE TypeOK'
    <2>1. op' \in [Interfaces -> Call]
      BY <1>11, <1>22 DEF AppendRule, Return, Call, Rules
    <2>2. rules' \in [Slots -> [Rules -> Nat]]
      <3> DEFINE count == rules[SlotOf(i)][op[i].rule]
      <3>1. op[i].rule \in Rules
        BY DEF Call
      <3>2. \/ rules' = rules
            \/ /\ rules' = [rules EXCEPT ![SlotOf(i)][op[i].rule] = count + 1]
        BY <1>11 DEF AppendRule
      <3>3. count \in Nat
        BY <1>20, <3>1
      <3> QED BY <1>20, <3>1, <3>2, <3>3, CountsUpdated
    <2>3. iface' \in [Interfaces -> Row]
      <3>1. iface' = iface \/ iface' = [iface EXCEPT ![i] = [@ EXCEPT !.up = "up"]]
        BY <1>11 DEF AppendRule
      <3>2. \A r \in Row : [r EXCEPT !.up = "up"] \in Row
        BY DEF Row
      <3>3. iface[i] \in Row
        OBVIOUS
      <3> QED BY <3>1, <3>2, <3>3
    <2>4. used' \in [setups : Nat, failures : Nat, restarts : Nat]
      BY <1>11 DEF AppendRule, Fail
    <2>5. seen' \subseteq History
      BY <1>11 DEF AppendRule, History
    <2> QED BY <1>11, <2>1, <2>2, <2>3, <2>4, <2>5 DEF AppendRule
  <1>12. ASSUME NEW i \in Interfaces, LockAndFind(i) PROVE TypeOK'
    <2>1. op' \in [Interfaces -> Call]
      BY <1>12 DEF LockAndFind, Call, Rules
    <2> QED BY <1>12, <2>1 DEF LockAndFind, FreedWhenStamped
  <1>13. ASSUME NEW i \in Interfaces, RemoveRule(i) PROVE TypeOK'
    <2>1. op' \in [Interfaces -> Call]
      BY <1>13, <1>22 DEF RemoveRule, ReturnAndUnlock, Return, Call, Rules, LastRule
    <2>2. rules' \in [Slots -> [Rules -> Nat]]
      <3> DEFINE count == rules[SlotOf(i)][op[i].rule]
      <3>1. op[i].rule \in Rules
        BY DEF Call
      <3>2. \/ rules' = rules
            \/ /\ count > 0
               /\ rules' = [rules EXCEPT ![SlotOf(i)][op[i].rule] = count - 1]
        BY <1>13 DEF RemoveRule, Found
      <3>3. count \in Nat
        BY <1>20, <3>1
      <3>4. count > 0 => count - 1 \in Nat
        BY <3>3
      <3> HIDE DEF count
      <3>5. CASE rules' = rules
        BY <3>5
      <3>6. CASE count > 0 /\ rules' = [rules EXCEPT ![SlotOf(i)][op[i].rule] = count - 1]
        <4>1. count - 1 \in Nat /\ SlotOf(i) \in Slots
          BY <1>20, <3>4, <3>6
        <4>2. rules \in [Slots -> [Rules -> Nat]]
          OBVIOUS
        <4>3. [rules EXCEPT ![SlotOf(i)][op[i].rule] = count - 1] \in [Slots -> [Rules -> Nat]]
          BY <3>1, <4>1, <4>2, CountsUpdated, Zenon
        <4> QED BY <3>6, <4>3
      <3> QED BY <3>2, <3>5, <3>6
    <2>3. used' \in [setups : Nat, failures : Nat, restarts : Nat]
      BY <1>13 DEF RemoveRule
    <2>4. seen' \subseteq History
      BY <1>13 DEF RemoveRule, Note, History
    <2> QED BY <1>13, <2>1, <2>2, <2>3, <2>4 DEF RemoveRule, ReturnAndUnlock
  <1>14. ASSUME NEW i \in Interfaces, DeleteLink(i) PROVE TypeOK'
    <2> DEFINE vanished == Vanished(SlotOf(i))
    <2>4. /\ vanished \in [Interfaces -> Call]
          /\ \/ op' = [vanished EXCEPT ![i] = [@ EXCEPT !.pc = "stamp"]]
             \/ op' = [op EXCEPT ![i] = NoCall]
      BY <1>14, <1>20, <1>21 DEF DeleteLink, ReturnAndUnlock, Return
    <2> HIDE DEF vanished
    <2>1. op' \in [Interfaces -> Call]
      <3>1. \A c \in Call : [c EXCEPT !.pc = "stamp"] \in Call
        BY DEF Call
      <3>2. [vanished[i] EXCEPT !.pc = "stamp"] \in Call
        BY <2>4, <3>1
      <3> QED BY <2>4, <1>22, <3>2
    <2>2. used' \in [setups : Nat, failures : Nat, restarts : Nat]
      BY <1>14 DEF DeleteLink
    <2>3. seen' \subseteq History
      BY <1>14 DEF DeleteLink, History
    <2> QED BY <1>14, <1>20, <1>21, <2>1, <2>2, <2>3 DEF DeleteLink, ReturnAndUnlock
  <1>15. ASSUME NEW i \in Interfaces, StampReleased(i) PROVE TypeOK'
    <2>1. op' \in [Interfaces -> Call] /\ lock' = None
      BY <1>15, <1>22 DEF StampReleased, ReturnAndUnlock, Return
    <2>2. iface' \in [Interfaces -> Row]
      <3>1. \/ iface' = iface
            \/ \E saves \in BOOLEAN :
                 iface' = [iface EXCEPT ![i] = [@ EXCEPT !.released = TRUE,
                                                         !.saved = saves]]
        BY <1>15 DEF StampReleased
      <3>2. \A r \in Row, saves \in BOOLEAN :
              [r EXCEPT !.released = TRUE, !.saved = saves] \in Row
        BY DEF Row
      <3>3. iface[i] \in Row
        OBVIOUS
      <3> QED BY <3>1, <3>2, <3>3
    <2>3. used' \in [setups : Nat, failures : Nat, restarts : Nat]
      BY <1>15 DEF StampReleased, Fail
    <2>4. claimed' \subseteq Slots
      BY <1>15 DEF StampReleased
    <2> QED BY <1>15, <2>1, <2>2, <2>3, <2>4 DEF StampReleased
  <1>16. ASSUME Restart PROVE TypeOK'
    <2>1. iface' \in [Interfaces -> Row]
      <3> DEFINE row(i) == [iface[i] EXCEPT
                              !.released = iface[i].saved,
                              !.status = IF @ = "creating" THEN "abandoned" ELSE @]
      <3>1. \A i \in Interfaces : row(i) \in Row
        <4>1. \A r \in Row : [r EXCEPT !.released = r.saved,
                                       !.status = IF @ = "creating" THEN "abandoned"
                                                  ELSE @] \in Row
          BY DEF Row
        <4>2. \A i \in Interfaces : iface[i] \in Row
          OBVIOUS
        <4> QED BY <4>1, <4>2
      <3>2. iface' = [i \in Interfaces |-> row(i)]
        BY <1>16 DEF Restart
      <3> HIDE DEF row
      <3> QED BY <3>1, <3>2
    <2>2. claimed' \subseteq Slots
      <3>1. Reserved \subseteq Slots
        BY ProviderAssumption, ReservedSlots DEF Slots
      <3> QED BY <1>16, <1>20, <3>1, AddressOfSlot DEF Restart
    <2>3. op' \in [Interfaces -> Call]
      BY <1>16, <1>22 DEF Restart
    <2>4. used' \in [setups : Nat, failures : Nat, restarts : Nat]
      <3>1. used' = [used EXCEPT !.restarts = @ + 1]
        BY <1>16 DEF Restart
      <3> QED BY <3>1
    <2>5. seen' \subseteq History
      BY <1>16 DEF Restart, Note, History
    <2> QED BY <1>16, <2>1, <2>2, <2>3, <2>4, <2>5 DEF Restart
  <1>17. ASSUME UNCHANGED vars PROVE TypeOK'
    BY <1>17 DEF vars
  <1> QED
    BY StepCases, <1>1, <1>2, <1>3, <1>4, <1>5, <1>6, <1>7, <1>8, <1>9, <1>10,
       <1>11, <1>12, <1>13, <1>14, <1>15, <1>16, <1>17

(* Every variable keeps to its type, for any number of interfaces and      *)
(* addresses (allocate_interface.go, setup_interface.go and                *)
(* release_interface.go): in particular no rule is removed that is not     *)
(* there.                                                                  *)
THEOREM ProviderTypeCorrect == Spec => []TypeOK
  BY InitialType, StepType, PTL DEF Spec

-------------------------------------------------------------------------------
(* The inductive invariant: a call runs only for an interface that has a   *)
(* row, and a row is saved as released only after its object was stamped.  *)
CallsHaveRows == \A i \in Interfaces : ~At(i, "idle") => iface[i].status # "none"
SavedIsReleased == \A i \in Interfaces :
                     /\ iface[i].saved => iface[i].released
                     /\ iface[i].status = "none" => ~iface[i].released
TableInv == TypeOK /\ CallsHaveRows /\ SavedIsReleased /\ SlotsMatchRows

(* What SlotsMatchRows needs to stay true across a step that leaves the    *)
(* table alone: nobody's slot, and nobody's claim to it, changes.          *)
LEMMA SameHolders ==
    ASSUME SlotsMatchRows, claimed' = claimed, seen \subseteq seen',
           \A i \in Interfaces : /\ SlotOf(i)' = SlotOf(i)
                                 /\ Holds(i)' <=> Holds(i)
    PROVE  SlotsMatchRows'
  BY DEF SlotsMatchRows, Never

(* TableInv holds initially.                                               *)
LEMMA InitialTable ==
    ASSUME Init PROVE TableInv
  BY InitialType DEF Init, TableInv, CallsHaveRows, SavedIsReleased, SlotsMatchRows,
     Holds, At, SlotOf, NoRow, NoCall

(* What a restart does to a row.                                           *)
LEMMA RestartRows ==
    ASSUME TypeOK, Restart, NEW j \in Interfaces
    PROVE  /\ iface'[j].released = iface[j].saved
           /\ iface'[j].saved = iface[j].saved /\ iface'[j].slot = iface[j].slot
           /\ iface'[j].status = "none" <=> iface[j].status = "none"
  <1>1. /\ iface[j] \in Row /\ j \in Interfaces
        /\ iface'[j] = [iface[j] EXCEPT
                          !.released = iface[j].saved,
                          !.status = IF @ = "creating" THEN "abandoned" ELSE @]
    BY DEF Restart, TypeOK
  <1> QED BY <1>1 DEF Row

(* No step makes an interface run a call before it has a row, or saves a   *)
(* release that was not stamped.                                           *)
LEMMA StepRows ==
    ASSUME TypeOK, CallsHaveRows, SavedIsReleased, [Next]_vars
    PROVE  CallsHaveRows' /\ SavedIsReleased'
  <1> USE DEF CallsHaveRows, SavedIsReleased, At
  <1>1. ASSUME NEW i \in Interfaces, AllocateInterface(i)
        PROVE  CallsHaveRows' /\ SavedIsReleased'
    BY <1>1 DEF AllocateInterface, NoRow, TypeOK
  <1>2. ASSUME NEW i \in Interfaces, CreateMachine(i)
        PROVE  CallsHaveRows' /\ SavedIsReleased'
    BY <1>2 DEF CreateMachine, TypeOK
  <1>3. ASSUME NEW i \in Interfaces, AbandonMachine(i)
        PROVE  CallsHaveRows' /\ SavedIsReleased'
    BY <1>3 DEF AbandonMachine, Goto, TypeOK
  <1>4. ASSUME NEW i \in Interfaces, SetupInterface(i)
        PROVE  CallsHaveRows' /\ SavedIsReleased'
    BY <1>4 DEF SetupInterface, Goto, TypeOK
  <1>5. ASSUME NEW i \in Interfaces, ReleaseInterface(i)
        PROVE  CallsHaveRows' /\ SavedIsReleased'
    BY <1>5 DEF ReleaseInterface, Goto, TypeOK
  <1>6. ASSUME NEW i \in Interfaces, ReleaseAgain(i)
        PROVE  CallsHaveRows' /\ SavedIsReleased'
    BY <1>6 DEF ReleaseAgain, Goto, TypeOK
  <1>7. ASSUME NEW i \in Interfaces, AskedBack(i)
        PROVE  CallsHaveRows' /\ SavedIsReleased'
    BY <1>7 DEF AskedBack, TypeOK
  <1>8. ASSUME NEW i \in Interfaces, DeleteExistingTap(i)
        PROVE  CallsHaveRows' /\ SavedIsReleased'
    BY <1>8 DEF DeleteExistingTap, Vanished, TypeOK, Call
  <1>9. ASSUME NEW i \in Interfaces, SetupFails(i)
        PROVE  CallsHaveRows' /\ SavedIsReleased'
    BY <1>9 DEF SetupFails, Return, NoCall, TypeOK
  <1>10. ASSUME NEW i \in Interfaces, AddTap(i)
         PROVE  CallsHaveRows' /\ SavedIsReleased'
    BY <1>10 DEF AddTap, Return, NoCall, TypeOK
  <1>11. ASSUME NEW i \in Interfaces, AppendRule(i)
         PROVE  CallsHaveRows' /\ SavedIsReleased'
    <2>1. \A j \in Interfaces : ~At(j, "idle")' => ~At(j, "idle")
      BY <1>11 DEF AppendRule, Return, NoCall, TypeOK
    <2>2. iface' = iface \/ iface' = [iface EXCEPT ![i].up = "up"]
      BY <1>11 DEF AppendRule
    <2>3. \A j \in Interfaces : /\ iface'[j].status = iface[j].status
                                /\ iface'[j].saved = iface[j].saved
                                /\ iface'[j].released = iface[j].released
      <3>1. iface \in [Interfaces -> Row]
        BY DEF TypeOK
      <3>2. CASE iface' = iface
        BY <3>2
      <3>3. CASE iface' = [iface EXCEPT ![i].up = "up"]
        <4>1. \A r \in Row : LET new == [r EXCEPT !.up = "up"]
                             IN  /\ new.status = r.status /\ new.saved = r.saved
                                 /\ new.released = r.released
          BY DEF Row
        <4> QED BY <3>1, <3>3, <4>1
      <3> QED BY <2>2, <3>2, <3>3
    <2> QED BY <2>1, <2>3
  <1>12. ASSUME NEW i \in Interfaces, LockAndFind(i)
         PROVE  CallsHaveRows' /\ SavedIsReleased'
    BY <1>12 DEF LockAndFind, TypeOK
  <1>13. ASSUME NEW i \in Interfaces, RemoveRule(i)
         PROVE  CallsHaveRows' /\ SavedIsReleased'
    BY <1>13 DEF RemoveRule, ReturnAndUnlock, Return, NoCall, TypeOK
  <1>14. ASSUME NEW i \in Interfaces, DeleteLink(i)
         PROVE  CallsHaveRows' /\ SavedIsReleased'
    <2>1. iface' = iface /\ ~At(i, "idle")
      BY <1>14 DEF DeleteLink
    <2>2. \A j \in Interfaces \ {i} : op'[j].pc = op[j].pc
      <3> DEFINE vanished == Vanished(SlotOf(i))
      <3>1. \A c \in Call : \A h : [c EXCEPT !.handle = h].pc = c.pc
        BY DEF Call
      <3>2. \A j \in Interfaces : vanished[j].pc = op[j].pc
        BY <3>1 DEF Vanished, TypeOK
      <3>3. \/ op' = [vanished EXCEPT ![i] = [@ EXCEPT !.pc = "stamp"]]
            \/ op' = [op EXCEPT ![i] = NoCall]
        BY <1>14 DEF DeleteLink, ReturnAndUnlock, Return
      <3> HIDE DEF vanished
      <3>4. \A j \in Interfaces \ {i} : op'[j] = vanished[j] \/ op'[j] = op[j]
        <4>1. DOMAIN vanished = Interfaces /\ DOMAIN op = Interfaces
          BY DEF vanished, Vanished, TypeOK
        <4> QED BY <3>3, <4>1
      <3> QED BY <3>2, <3>4
    <2> QED BY <2>1, <2>2
  <1>15. ASSUME NEW i \in Interfaces, StampReleased(i)
         PROVE  CallsHaveRows' /\ SavedIsReleased'
    <2>1. iface[i].status # "none"
      BY <1>15 DEF StampReleased
    <2>2. CallsHaveRows'
      BY <1>15 DEF StampReleased, ReturnAndUnlock, Return, NoCall, TypeOK
    <2>3. SavedIsReleased'
      <3>1. \/ iface' = iface
            \/ \E saves \in BOOLEAN :
                 iface' = [iface EXCEPT ![i] = [@ EXCEPT !.released = TRUE,
                                                         !.saved = saves]]
        BY <1>15 DEF StampReleased
      <3>2. \A saves \in BOOLEAN :
              LET row == [iface[i] EXCEPT !.released = TRUE, !.saved = saves]
              IN row.released /\ row.status # "none"
        BY <2>1 DEF TypeOK, Row
      <3> QED BY <3>1, <3>2 DEF TypeOK
    <2> QED BY <2>2, <2>3
  <1>16. ASSUME Restart
         PROVE  CallsHaveRows' /\ SavedIsReleased'
    <2>1. \A j \in Interfaces : At(j, "idle")'
      BY <1>16 DEF Restart, NoCall
    <2>2. \A j \in Interfaces :
            /\ iface'[j].released = iface[j].saved
            /\ iface'[j].saved = iface[j].saved
            /\ iface'[j].status = "none" <=> iface[j].status = "none"
      BY <1>16, RestartRows
    <2> QED BY <2>1, <2>2
  <1>17. ASSUME UNCHANGED vars
         PROVE  CallsHaveRows' /\ SavedIsReleased'
    BY <1>17 DEF vars
  <1> QED
    BY StepCases, <1>1, <1>2, <1>3, <1>4, <1>5, <1>6, <1>7, <1>8, <1>9, <1>10,
       <1>11, <1>12, <1>13, <1>14, <1>15, <1>16, <1>17

(* The three steps that change the table keep it true to the rows: a slot  *)
(* is taken only when nobody holds it, freed only by its only holder, and  *)
(* read back from the rows of those that hold one.                         *)
LEMMA StepTable ==
    ASSUME TableInv, [Next]_vars
    PROVE  SlotsMatchRows'
  <1> USE DEF TableInv
  <1>1. ASSUME NEW i \in Interfaces, AllocateInterface(i) PROVE SlotsMatchRows'
    <2>1. PICK index \in Slots :
            /\ index \notin claimed
            /\ iface' = [iface EXCEPT ![i] = [NoRow EXCEPT !.status = "creating",
                                                           !.slot = index]]
            /\ claimed' = claimed \cup {index}
      BY <1>1 DEF AllocateInterface, findAvailableOffset
    <2>2. ~Holds(i) /\ Holds(i)' /\ SlotOf(i)' = index
      BY <1>1, <2>1 DEF AllocateInterface, Holds, SlotOf, NoRow, TypeOK
    <2>3. \A j \in Interfaces \ {i} : /\ Holds(j)' <=> Holds(j)
                                      /\ SlotOf(j)' = SlotOf(j)
      BY <2>1 DEF Holds, SlotOf, TypeOK
    <2>4. Never({"forgotten"})' => Never({"forgotten"})
      BY <1>1 DEF AllocateInterface, Never
    <2> QED BY <2>1, <2>2, <2>3, <2>4 DEF SlotsMatchRows
  <1>2. ASSUME NEW i \in Interfaces, StampReleased(i) PROVE SlotsMatchRows'
    <2>1. CASE iface[i].released
      <3>1. claimed' = claimed /\ iface' = iface /\ seen' = seen
        BY <1>2, <2>1 DEF StampReleased
      <3> QED BY <3>1, SameHolders DEF Holds, SlotOf
    <2>2. CASE ~iface[i].released
      <3>1. Holds(i)
        BY <1>2, <2>2 DEF StampReleased, CallsHaveRows, At, Holds
      <3>2. /\ claimed' = claimed \ {SlotOf(i)}
            /\ ~Holds(i)'
            /\ \A j \in Interfaces : SlotOf(j)' = SlotOf(j)
            /\ \A j \in Interfaces \ {i} : Holds(j)' <=> Holds(j)
        <4>1. PICK saves \in BOOLEAN :
                iface' = [iface EXCEPT ![i] = [@ EXCEPT !.released = TRUE,
                                                        !.saved = saves]]
          BY <1>2, <2>2 DEF StampReleased
        <4>2. LET row == [iface[i] EXCEPT !.released = TRUE, !.saved = saves]
              IN row.released /\ row.slot = iface[i].slot
          BY DEF TypeOK, Row
        <4>3. claimed' = claimed \ {SlotOf(i)}
          BY <1>2, <2>2, AddressOfSlot DEF StampReleased
        <4> QED BY <4>1, <4>2, <4>3 DEF Holds, SlotOf, TypeOK
      <3>3. Never({"forgotten"})' => Never({"forgotten"})
        BY <1>2 DEF StampReleased, Never
      <3> QED BY <3>1, <3>2, <3>3 DEF SlotsMatchRows
    <2> QED BY <2>1, <2>2
  <1>3. ASSUME Restart PROVE SlotsMatchRows'
    <2>1. SUFFICES ASSUME Never({"forgotten"})' PROVE SlotsMatchRows'
      BY DEF SlotsMatchRows
    <2>2. Never({"forgotten"})
      BY <1>3, <2>1 DEF Restart, Never
    <2>3. \A i \in Interfaces : iface[i].released <=> iface[i].saved
      BY <1>3, <2>1 DEF Restart, Never, Note, SavedIsReleased
    <2>4. \A i \in Interfaces : /\ SlotOf(i)' = SlotOf(i)
                                /\ Holds(i)' <=> Holds(i)
      BY <1>3, <2>3, RestartRows DEF Holds, SlotOf
    <2>5. claimed' = Reserved \cup {SlotOf(i) : i \in {j \in Interfaces : Holds(j)}}
      BY <1>3, <2>3, AddressOfSlot DEF Restart, Holds
    <2> QED BY <2>2, <2>4, <2>5 DEF SlotsMatchRows
  <1>4. CASE /\ claimed' = claimed /\ seen \subseteq seen'
             /\ \A i \in Interfaces : /\ SlotOf(i)' = SlotOf(i)
                                      /\ Holds(i)' <=> Holds(i)
    BY <1>4, SameHolders
  <1>5. ASSUME NEW i \in Interfaces,
               \/ CreateMachine(i) \/ AbandonMachine(i) \/ SetupInterface(i)
               \/ ReleaseInterface(i) \/ ReleaseAgain(i) \/ AskedBack(i)
        PROVE  SlotsMatchRows'
    <2>1. claimed' = claimed /\ seen \subseteq seen'
      BY <1>5 DEF CreateMachine, AbandonMachine, SetupInterface, ReleaseInterface,
         ReleaseAgain, AskedBack
    <2>2. \A j \in Interfaces : /\ SlotOf(j)' = SlotOf(j)
                                /\ Holds(j)' <=> Holds(j)
      <3>1. CASE CreateMachine(i)
        BY <3>1 DEF CreateMachine, SlotOf, Holds, TypeOK, Row
      <3>2. CASE AbandonMachine(i)
        BY <3>2 DEF AbandonMachine, SlotOf, Holds, TypeOK, Row
      <3>3. CASE SetupInterface(i)
        BY <3>3 DEF SetupInterface, SlotOf, Holds, TypeOK, Row
      <3>4. CASE ReleaseInterface(i)
        BY <3>4 DEF ReleaseInterface, SlotOf, Holds, TypeOK, Row
      <3>5. CASE ReleaseAgain(i)
        BY <3>5 DEF ReleaseAgain, SlotOf, Holds
      <3>6. CASE AskedBack(i)
        BY <3>6 DEF AskedBack, SlotOf, Holds, TypeOK, Row
      <3> QED BY <1>5, <3>1, <3>2, <3>3, <3>4, <3>5, <3>6
    <2> QED BY <2>1, <2>2, <1>4
  <1>6. ASSUME NEW i \in Interfaces,
               \/ DeleteExistingTap(i) \/ SetupFails(i) \/ AddTap(i)
               \/ LockAndFind(i) \/ RemoveRule(i) \/ DeleteLink(i)
        PROVE  SlotsMatchRows'
    <2>1. claimed' = claimed /\ seen \subseteq seen' /\ iface' = iface
      BY <1>6 DEF DeleteExistingTap, SetupFails, AddTap, LockAndFind, RemoveRule,
         DeleteLink, FreedWhenStamped
    <2> QED BY <2>1, <1>4 DEF SlotOf, Holds
  <1>7. ASSUME NEW i \in Interfaces, AppendRule(i) PROVE SlotsMatchRows'
    <2>1. claimed' = claimed /\ seen \subseteq seen'
      BY <1>7 DEF AppendRule
    <2>2. iface' = iface \/ iface' = [iface EXCEPT ![i].up = "up"]
      BY <1>7 DEF AppendRule
    <2>3. \A j \in Interfaces : /\ SlotOf(j)' = SlotOf(j)
                                /\ Holds(j)' <=> Holds(j)
      BY <2>2 DEF SlotOf, Holds, TypeOK, Row
    <2> QED BY <2>1, <2>3, <1>4
  <1>8. ASSUME UNCHANGED vars PROVE SlotsMatchRows'
    BY <1>8, <1>4 DEF vars, SlotOf, Holds
  <1> QED BY StepCases, <1>1, <1>2, <1>3, <1>5, <1>6, <1>7, <1>8

(* The table of addresses and the rows agree, and no address is held       *)
(* twice, until the agent restarts after it failed to save a release: the  *)
(* lock, the order of row and table in AllocateInterface, and the order of *)
(* table, stamp and row in ReleaseInterface are enough for that.           *)
THEOREM TableCorrect == Spec => []SlotsMatchRows
  <1>1. TableInv /\ [Next]_vars => TableInv'
    BY StepType, StepRows, StepTable DEF TableInv
  <1>2. TableInv => SlotsMatchRows
    BY DEF TableInv
  <1> QED BY InitialTable, <1>1, <1>2, PTL DEF Spec

-------------------------------------------------------------------------------
(* The taps.                                                               *)

(* What one interface's step leaves alone: the other interfaces, and the   *)
(* taps of other slots; a call that begins touches no tap.                 *)
Acts(i) ==
    \/ AllocateInterface(i) \/ CreateMachine(i) \/ AbandonMachine(i)
    \/ SetupInterface(i) \/ ReleaseInterface(i) \/ ReleaseAgain(i)
    \/ AskedBack(i)
    \/ DeleteExistingTap(i) \/ SetupFails(i) \/ AddTap(i) \/ AppendRule(i)
    \/ LockAndFind(i) \/ RemoveRule(i) \/ DeleteLink(i) \/ StampReleased(i)

OthersStay(i) ==
    /\ seen \subseteq seen'
    /\ \A j \in Interfaces \ {i} :
         /\ iface'[j] = iface[j]
         /\ op'[j].pc = op[j].pc /\ op'[j].rule = op[j].rule
         /\ SlotOf(j) # SlotOf(i) \/ At(i, "idle") => op'[j] = op[j]
    /\ \A s \in Slots \ {SlotOf(i)} : link'[s] = link[s] /\ rules'[s] = rules[s]
    /\ At(i, "idle") => UNCHANGED <<link, rules>>

(* A counter that changes leaves the others as they are.                   *)
LEMMA CountChange ==
    ASSUME TypeOK, NEW s \in Slots, NEW n \in Rules, NEW k \in Nat,
           rules' = [rules EXCEPT ![s][n] = k]
    PROVE  /\ \A t \in Rules : rules'[s][t] = IF t = n THEN k ELSE rules[s][t]
           /\ \A r \in Slots \ {s} : rules'[r] = rules[r]
  BY DEF TypeOK

(* Handles of links of another slot stay as they are.                      *)
LEMMA VanishedElsewhere ==
    ASSUME TypeOK, NEW i \in Interfaces
    PROVE  /\ Vanished(SlotOf(i)) \in [Interfaces -> Call]
           /\ \A j \in Interfaces :
                /\ Vanished(SlotOf(i))[j].pc = op[j].pc
                /\ Vanished(SlotOf(i))[j].rule = op[j].rule
                /\ SlotOf(j) # SlotOf(i) => Vanished(SlotOf(i))[j] = op[j]
  <1>1. ASSUME NEW j \in Interfaces
        PROVE  /\ Vanished(SlotOf(i))[j] \in Call
               /\ Vanished(SlotOf(i))[j].pc = op[j].pc
               /\ Vanished(SlotOf(i))[j].rule = op[j].rule
               /\ SlotOf(j) # SlotOf(i) => Vanished(SlotOf(i))[j] = op[j]
    BY DEF TypeOK, Vanished, Call
  <1> QED BY <1>1 DEF Vanished

LEMMA ActsAlone ==
    ASSUME TypeOK, NEW i \in Interfaces, Acts(i)
    PROVE  OthersStay(i)
  <1> USE DEF At
  <1>1. CASE AllocateInterface(i)
    BY <1>1 DEF AllocateInterface, OthersStay, TypeOK
  <1>2. CASE CreateMachine(i) \/ AskedBack(i)
    BY <1>2 DEF CreateMachine, AskedBack, OthersStay, TypeOK
  <1>3. CASE AbandonMachine(i)
    BY <1>3 DEF AbandonMachine, Goto, OthersStay, TypeOK
  <1>4. CASE SetupInterface(i)
    BY <1>4 DEF SetupInterface, Goto, OthersStay, TypeOK
  <1>5. CASE ReleaseInterface(i) \/ ReleaseAgain(i)
    BY <1>5 DEF ReleaseInterface, ReleaseAgain, Goto, OthersStay, TypeOK
  <1>6. CASE DeleteExistingTap(i)
    <2>1. op' = [Vanished(SlotOf(i)) EXCEPT ![i].pc = "add"]
      BY <1>6 DEF DeleteExistingTap
    <2>2. \A j \in Interfaces \ {i} : op'[j] = Vanished(SlotOf(i))[j]
      BY <2>1, VanishedElsewhere
    <2> QED
      BY <1>6, <2>2, VanishedElsewhere DEF DeleteExistingTap, Unlinked, OthersStay, TypeOK
  <1>7. CASE SetupFails(i)
    BY <1>7 DEF SetupFails, Return, OthersStay, TypeOK
  <1>8. CASE AddTap(i)
    BY <1>8 DEF AddTap, Return, OthersStay, TypeOK
  <1>9. CASE AppendRule(i)
    <2>1. \A j \in Interfaces \ {i} : iface'[j] = iface[j] /\ op'[j] = op[j]
      BY <1>9 DEF AppendRule, Return, TypeOK
    <2>2. \A s \in Slots \ {SlotOf(i)} : rules'[s] = rules[s]
      BY <1>9 DEF AppendRule, TypeOK
    <2> QED BY <1>9, <2>1, <2>2 DEF AppendRule, OthersStay
  <1>10. CASE LockAndFind(i)
    BY <1>10 DEF LockAndFind, OthersStay, TypeOK
  <1>11. CASE RemoveRule(i)
    <2>1. \A j \in Interfaces \ {i} : iface'[j] = iface[j] /\ op'[j] = op[j]
      BY <1>11 DEF RemoveRule, ReturnAndUnlock, Return, TypeOK
    <2>2. \A s \in Slots \ {SlotOf(i)} : rules'[s] = rules[s]
      BY <1>11 DEF RemoveRule, TypeOK
    <2> QED BY <1>11, <2>1, <2>2 DEF RemoveRule, OthersStay
  <1>12. CASE DeleteLink(i)
    <2>1. \/ op' = [Vanished(SlotOf(i)) EXCEPT ![i].pc = "stamp"] /\ link' = Unlinked(SlotOf(i))
          \/ op' = [op EXCEPT ![i] = NoCall] /\ link' = link
      BY <1>12 DEF DeleteLink, ReturnAndUnlock, Return
    <2>2. \A j \in Interfaces \ {i} : op'[j] = Vanished(SlotOf(i))[j] \/ op'[j] = op[j]
      BY <2>1, VanishedElsewhere DEF TypeOK
    <2>3. \A s \in Slots \ {SlotOf(i)} : link'[s] = link[s]
      BY <2>1 DEF Unlinked, TypeOK
    <2> QED BY <1>12, <2>2, <2>3, VanishedElsewhere DEF DeleteLink, OthersStay
  <1>13. CASE StampReleased(i)
    BY <1>13 DEF StampReleased, ReturnAndUnlock, Return, OthersStay, TypeOK
  <1> QED BY <1>1, <1>2, <1>3, <1>4, <1>5, <1>6, <1>7, <1>8, <1>9, <1>10, <1>11,
     <1>12, <1>13 DEF Acts

(* The life of an interface: what its row says of the calls that run, and  *)
(* that one which was released rests.                                      *)
Setting == {"replace", "add", "append"}
Releasing == {"lock", "remove", "unlink", "stamp"}
LifeOf(i) ==
    /\ iface[i].status \in {"none", "creating", "abandoned"} => iface[i].up = "never"
    /\ iface[i].status = "creating" => ~iface[i].released /\ At(i, "idle")
    /\ iface[i].status = "terminating" => iface[i].up # "up"
    /\ op[i].pc \in Setting => iface[i].status = "owned" /\ iface[i].up = "partly"
    /\ op[i].pc \in Releasing => iface[i].status \in {"terminating", "abandoned"}
LifeInv == \A i \in Interfaces : LifeOf(i)
RestOf(i) == iface[i].released => At(i, "idle") /\ iface[i].up # "up"
ReleasedAtRest == Never({"again", "reused"}) => \A i \in Interfaces : RestOf(i)

(* An interface's own step keeps its life.                                 *)
LEMMA OwnLife ==
    ASSUME TypeOK, SavedIsReleased, NEW i \in Interfaces, LifeOf(i), Acts(i)
    PROVE  /\ LifeOf(i)'
           /\ Never({"again", "reused"})' /\ RestOf(i) => RestOf(i)'
  <1> USE DEF LifeOf, RestOf, At, Setting, Releasing, SavedIsReleased, Never, Note
  <1>0. iface[i] \in Row /\ op[i] \in Call
    BY DEF TypeOK
  <1>1. CASE AllocateInterface(i)
    <2>1. PICK index \in Slots :
            iface' = [iface EXCEPT ![i] = [NoRow EXCEPT !.status = "creating",
                                                        !.slot = index]]
      BY <1>1 DEF AllocateInterface
    <2>2. /\ iface'[i].status = "creating" /\ iface'[i].up = "never"
          /\ ~iface'[i].released /\ op' = op /\ iface[i].status = "none"
      BY <1>1, <2>1 DEF AllocateInterface, NoRow, TypeOK
    <2>3. op[i].pc = "idle"
      BY <1>0, <2>2 DEF Call
    <2> QED BY <2>2, <2>3
  <1>2. CASE CreateMachine(i)
    <2>1. op' = op /\ iface'[i] = [iface[i] EXCEPT !.status = "owned"]
      BY <1>2 DEF CreateMachine, TypeOK
    <2> QED BY <1>0, <1>2, <2>1 DEF CreateMachine, Row
  <1>3. CASE AbandonMachine(i)
    <2>1. /\ op'[i] = [op[i] EXCEPT !.pc = "lock"]
          /\ iface'[i] = [iface[i] EXCEPT !.status = "abandoned"]
      BY <1>3 DEF AbandonMachine, Goto, TypeOK
    <2> QED BY <1>0, <1>3, <2>1 DEF AbandonMachine, Row, Call
  <1>4. CASE SetupInterface(i)
    <2>1. /\ op'[i] = [op[i] EXCEPT !.pc = "replace"]
          /\ iface'[i] = [iface[i] EXCEPT !.up = "partly"]
          /\ Never({"again", "reused"})' => ~iface[i].released
      BY <1>4 DEF SetupInterface, Goto, TypeOK
    <2> QED BY <1>0, <1>4, <2>1 DEF SetupInterface, Row, Call
  <1>5. CASE ReleaseInterface(i)
    <2>1. /\ op'[i] = [op[i] EXCEPT !.pc = "lock"]
          /\ iface'[i] = [iface[i] EXCEPT !.up = IF @ = "never" THEN @ ELSE "partly",
                                          !.status = "terminating"]
          /\ Never({"again", "reused"})' => ~iface[i].released
      BY <1>5 DEF ReleaseInterface, Goto, TypeOK
    <2>2. iface'[i].status = "terminating" /\ iface'[i].released = iface[i].released
      BY <1>0, <2>1 DEF Row
    <2>3. iface'[i].up # "up"
      BY <1>0, <2>1 DEF Row
    <2>4. op'[i].pc = "lock"
      BY <1>0, <2>1 DEF Call
    <2> QED BY <2>1, <2>2, <2>3, <2>4
  <1>6. CASE ReleaseAgain(i)
    <2>1. /\ op'[i] = [op[i] EXCEPT !.pc = "lock"] /\ iface' = iface
          /\ Never({"again", "reused"})' => ~iface[i].released
      BY <1>6 DEF ReleaseAgain, Goto, TypeOK
    <2> QED BY <1>0, <1>6, <2>1 DEF ReleaseAgain, Call
  <1>7. CASE AskedBack(i)
    <2>1. op' = op /\ iface'[i] = [iface[i] EXCEPT !.status = "owned"]
      BY <1>7 DEF AskedBack, TypeOK
    <2> QED BY <1>0, <1>7, <2>1 DEF AskedBack, Row
  <1>8. CASE DeleteExistingTap(i)
    <2>1. op'[i].pc = "add" /\ iface' = iface /\ At(i, "replace")
      <3>1. op' = [Vanished(SlotOf(i)) EXCEPT ![i].pc = "add"]
        BY <1>8 DEF DeleteExistingTap
      <3>2. op'[i] = [Vanished(SlotOf(i))[i] EXCEPT !.pc = "add"]
        BY <3>1, VanishedElsewhere
      <3> QED BY <1>8, <3>2, VanishedElsewhere DEF DeleteExistingTap, Call
    <2> QED BY <2>1
  <1>9. CASE SetupFails(i)
    <2>1. op'[i].pc = "idle" /\ iface' = iface /\ At(i, "replace")
      BY <1>9 DEF SetupFails, Return, NoCall, TypeOK
    <2> QED BY <2>1
  <1>10. CASE AddTap(i)
    <2>1. op'[i].pc \in {"append", "idle"} /\ iface' = iface /\ At(i, "add")
      BY <1>10 DEF AddTap, Return, NoCall, TypeOK, Call
    <2> QED BY <2>1
  <1>11. CASE AppendRule(i)
    <2>1. /\ At(i, "append")
          /\ \/ iface' = iface /\ op'[i].pc \in {"append", "idle"}
             \/ iface'[i] = [iface[i] EXCEPT !.up = "up"] /\ op'[i].pc = "idle"
      BY <1>11 DEF AppendRule, Return, NoCall, TypeOK, Call
    <2> QED BY <1>0, <2>1 DEF Row
  <1>12. CASE LockAndFind(i)
    <2>1. op'[i].pc \in {"stamp", "remove"} /\ iface' = iface /\ At(i, "lock")
      BY <1>12 DEF LockAndFind, TypeOK, Call
    <2> QED BY <2>1
  <1>13. CASE RemoveRule(i)
    <2>1. op'[i].pc \in {"unlink", "remove", "idle"} /\ iface' = iface /\ At(i, "remove")
      BY <1>13 DEF RemoveRule, ReturnAndUnlock, Return, NoCall, TypeOK, Call
    <2> QED BY <2>1
  <1>14. CASE DeleteLink(i)
    <2>1. /\ iface' = iface /\ At(i, "unlink")
          /\ \/ op' = [Vanished(SlotOf(i)) EXCEPT ![i].pc = "stamp"]
             \/ op' = [op EXCEPT ![i] = NoCall]
      BY <1>14 DEF DeleteLink, ReturnAndUnlock, Return
    <2>2. op'[i].pc \in {"stamp", "idle"}
      <3>1. CASE op' = [Vanished(SlotOf(i)) EXCEPT ![i].pc = "stamp"]
        <4>1. op'[i] = [Vanished(SlotOf(i))[i] EXCEPT !.pc = "stamp"]
          BY <3>1, VanishedElsewhere
        <4> QED BY <4>1, VanishedElsewhere DEF Call
      <3>2. CASE op' = [op EXCEPT ![i] = NoCall]
        BY <3>2 DEF NoCall, TypeOK
      <3> QED BY <2>1, <3>1, <3>2
    <2> QED BY <2>1, <2>2
  <1>15. CASE StampReleased(i)
    <2>1. /\ op'[i].pc = "idle" /\ At(i, "stamp")
          /\ \/ iface' = iface
             \/ \E saves \in BOOLEAN :
                  iface'[i] = [iface[i] EXCEPT !.released = TRUE, !.saved = saves]
      BY <1>15 DEF StampReleased, ReturnAndUnlock, Return, NoCall, TypeOK
    <2>2. \/ iface' = iface
          \/ iface'[i].status = iface[i].status /\ iface'[i].up = iface[i].up
      BY <1>0, <2>1 DEF Row
    <2> QED BY <1>0, <2>1, <2>2
  <1> QED BY <1>1, <1>2, <1>3, <1>4, <1>5, <1>6, <1>7, <1>8, <1>9, <1>10, <1>11,
     <1>12, <1>13, <1>14, <1>15 DEF Acts

(* The parts of the invariant proved so far, and the life of interfaces.   *)
RowInv == TableInv /\ LifeInv /\ ReleasedAtRest

LEMMA InitialRows ==
    ASSUME Init PROVE RowInv
  <1>1. TableInv
    BY InitialTable
  <1>2. \A i \in Interfaces : LifeOf(i) /\ RestOf(i)
    BY DEF Init, LifeOf, RestOf, Setting, Releasing, At, NoRow, NoCall
  <1> QED BY <1>1, <1>2 DEF RowInv, LifeInv, ReleasedAtRest

(* Every step keeps the lives of the interfaces.                           *)
LEMMA StepLife ==
    ASSUME RowInv, [Next]_vars
    PROVE  LifeInv' /\ ReleasedAtRest'
  <1>0. TypeOK /\ SavedIsReleased /\ CallsHaveRows
    BY DEF RowInv, TableInv
  <1>1. ASSUME NEW i \in Interfaces, Acts(i) PROVE LifeInv' /\ ReleasedAtRest'
    <2>1. OthersStay(i)
      BY <1>0, <1>1, ActsAlone
    <2>2. LifeOf(i)' /\ (Never({"again", "reused"})' /\ RestOf(i) => RestOf(i)')
      BY <1>0, <1>1, OwnLife DEF RowInv, LifeInv
    <2>3. \A j \in Interfaces \ {i} : LifeOf(j)' /\ (RestOf(j) => RestOf(j)')
      BY <2>1 DEF OthersStay, LifeOf, RestOf, At, Setting, Releasing, RowInv, LifeInv
    <2>4. Never({"again", "reused"})' => Never({"again", "reused"})
      BY <2>1 DEF OthersStay, Never
    <2> QED BY <2>2, <2>3, <2>4 DEF LifeInv, ReleasedAtRest, RowInv
  <1>2. ASSUME Restart PROVE LifeInv' /\ ReleasedAtRest'
    <2>1. ASSUME NEW i \in Interfaces
          PROVE  LifeOf(i)' /\ (RestOf(i) => RestOf(i)')
      <3>1. /\ op'[i].pc = "idle"
            /\ iface'[i] = [iface[i] EXCEPT
                              !.released = iface[i].saved,
                              !.status = IF @ = "creating" THEN "abandoned" ELSE @]
        BY <1>2 DEF Restart, NoCall
      <3>2. iface[i] \in Row
        BY <1>0 DEF TypeOK
      <3>3. iface'[i].up = iface[i].up /\ iface'[i].released = iface[i].saved
        BY <3>1, <3>2 DEF Row
      <3>4. iface'[i].status = IF iface[i].status = "creating" THEN "abandoned"
                               ELSE iface[i].status
        BY <3>1, <3>2 DEF Row
      <3>5. iface[i].saved => iface[i].released
        BY <1>0 DEF SavedIsReleased
      <3> QED BY <3>1, <3>3, <3>4, <3>5 DEF LifeOf, RestOf, At, Setting, Releasing,
                RowInv, LifeInv
    <2>2. Never({"again", "reused"})' => Never({"again", "reused"})
      BY <1>2 DEF Restart, Never
    <2> QED BY <2>1, <2>2 DEF LifeInv, ReleasedAtRest, RowInv
  <1>3. ASSUME UNCHANGED vars PROVE LifeInv' /\ ReleasedAtRest'
    BY <1>3 DEF vars, LifeInv, ReleasedAtRest, LifeOf, RestOf, At, Never, RowInv
  <1> QED BY StepCases, <1>1, <1>2, <1>3 DEF Acts

LEMMA StepRowInv ==
    ASSUME RowInv, [Next]_vars
    PROVE  RowInv'
  <1>1. TableInv'
    BY StepType, StepRows, StepTable DEF TableInv, RowInv
  <1> QED BY <1>1, StepLife DEF RowInv

(* A call runs for a holder of an address, so it leaves the taps of the    *)
(* other holders alone.                                                    *)
LEMMA OthersHold ==
    ASSUME RowInv, Never({"forgotten", "again", "reused"}),
           NEW i \in Interfaces, Acts(i)
    PROVE  /\ ~At(i, "idle") => Holds(i)
           /\ \A j \in Interfaces \ {i} :
                Holds(j) =>
                  /\ iface'[j] = iface[j] /\ op'[j] = op[j]
                  /\ link'[SlotOf(j)] = link[SlotOf(j)]
                  /\ rules'[SlotOf(j)] = rules[SlotOf(j)]
  <1>1. OthersStay(i)
    BY ActsAlone DEF RowInv, TableInv
  <1>2. ~At(i, "idle") => Holds(i)
    BY DEF RowInv, TableInv, CallsHaveRows, ReleasedAtRest, RestOf, Never, Holds
  <1>3. ASSUME NEW j \in Interfaces \ {i}, Holds(j)
        PROVE  SlotOf(j) # SlotOf(i) \/ At(i, "idle")
    BY <1>2, <1>3 DEF RowInv, TableInv, SlotsMatchRows, Never
  <1>4. \A j \in Interfaces : SlotOf(j) \in Slots
    BY DEF RowInv, TableInv, TypeOK, Row, SlotOf
  <1> QED BY <1>1, <1>2, <1>3, <1>4 DEF OthersStay

(* An interface that is set up, or is being given its rules, has its tap.  *)
TapOf(i) ==
    /\ iface[i].up = "up" => link[SlotOf(i)] = i /\ AllRules(SlotOf(i))
    /\ At(i, "append") =>
         /\ link[SlotOf(i)] = i
         /\ \A t \in Rules : t < op[i].rule => rules[SlotOf(i)][t] > 0
TapInv == Never({"forgotten", "again", "reused"}) => \A i \in Interfaces : TapOf(i)

(* What AppendRule does, and what it does when it fails.                   *)
LEMMA Appended ==
    ASSUME TypeOK, NEW i \in Interfaces, AppendRule(i)
    PROVE  /\ op[i].rule \in Rules /\ SlotOf(i) \in Slots
           /\ SlotOf(i)' = SlotOf(i) /\ link' = link
           /\ \/ /\ op'[i].pc = "idle" /\ iface' = iface /\ "incomplete" \in seen'
              \/ /\ \A t \in Rules :
                      rules'[SlotOf(i)][t] = IF t = op[i].rule
                                             THEN rules[SlotOf(i)][t] + 1
                                             ELSE rules[SlotOf(i)][t]
                 /\ \/ /\ op[i].rule = 3 /\ op'[i].pc = "idle"
                       /\ iface'[i].up = "up"
                    \/ /\ op[i].rule # 3 /\ iface' = iface
                       /\ op'[i].pc = "append" /\ op'[i].rule = op[i].rule + 1
  <1>1. op[i].rule \in Rules /\ SlotOf(i) \in Slots /\ At(i, "append")
    BY DEF TypeOK, Call, Row, SlotOf, AppendRule
  <1>2. iface' = iface \/ iface' = [iface EXCEPT ![i].up = "up"]
    BY DEF AppendRule
  <1>3. SlotOf(i)' = SlotOf(i) /\ link' = link
    BY <1>2 DEF SlotOf, TypeOK, Row, AppendRule
  <1>4. CASE /\ Return(i) /\ iface' = iface /\ seen' = seen \cup {"incomplete"}
    <2>1. op'[i].pc = "idle"
      BY <1>4 DEF Return, NoCall, TypeOK
    <2> QED BY <1>1, <1>3, <1>4, <2>1
  <1>5. CASE /\ rules' = [rules EXCEPT ![SlotOf(i)][op[i].rule] = @ + 1]
             /\ IF op[i].rule = 3
                THEN Return(i) /\ iface' = [iface EXCEPT ![i].up = "up"]
                ELSE /\ op' = [op EXCEPT ![i].rule = op[i].rule + 1]
                     /\ iface' = iface
    <2> DEFINE count == rules[SlotOf(i)][op[i].rule]
    <2>1. rules' = [rules EXCEPT ![SlotOf(i)][op[i].rule] = count + 1] /\ count + 1 \in Nat
      BY <1>1, <1>5 DEF TypeOK
    <2> HIDE DEF count
    <2>2. \A t \in Rules : rules'[SlotOf(i)][t] = IF t = op[i].rule THEN count + 1
                                                  ELSE rules[SlotOf(i)][t]
      BY <1>1, <2>1, CountChange
    <2>3. CASE op[i].rule = 3
      <3>1. op'[i].pc = "idle" /\ iface'[i].up = "up"
        BY <1>5, <2>3 DEF Return, NoCall, TypeOK, Row
      <3> QED BY <1>1, <1>3, <2>2, <2>3, <3>1 DEF count
    <2>4. CASE op[i].rule # 3
      <3>1. op'[i] = [op[i] EXCEPT !.rule = op[i].rule + 1] /\ iface' = iface
        BY <1>5, <2>4 DEF TypeOK
      <3>2. op'[i].pc = "append" /\ op'[i].rule = op[i].rule + 1
        BY <1>1, <3>1 DEF TypeOK, Call, At
      <3> QED BY <1>1, <1>3, <2>2, <2>4, <3>1, <3>2 DEF count
    <2> QED BY <2>3, <2>4
  <1> QED BY <1>4, <1>5 DEF AppendRule

(* What AddTap does, and what it does when it fails.                       *)
LEMMA Added ==
    ASSUME TypeOK, NEW i \in Interfaces, AddTap(i)
    PROVE  /\ iface' = iface /\ rules' = rules /\ SlotOf(i)' = SlotOf(i)
           /\ \/ op'[i].pc = "idle" /\ "incomplete" \in seen'
              \/ /\ op'[i].pc = "append" /\ op'[i].rule = 1
                 /\ link'[SlotOf(i)] = i
  <1>1. iface' = iface /\ rules' = rules /\ SlotOf(i)' = SlotOf(i)
    BY DEF AddTap, SlotOf
  <1>2. \/ Return(i) /\ "incomplete" \in seen'
        \/ /\ op' = [op EXCEPT ![i].pc = "append", ![i].rule = FirstRule]
           /\ link' = [link EXCEPT ![SlotOf(i)] = i]
    BY DEF AddTap
  <1>3. CASE Return(i) /\ "incomplete" \in seen'
    BY <1>1, <1>3 DEF Return, NoCall, TypeOK
  <1>4. CASE /\ op' = [op EXCEPT ![i].pc = "append", ![i].rule = FirstRule]
             /\ link' = [link EXCEPT ![SlotOf(i)] = i]
    <2>1. op'[i] = [op[i] EXCEPT !.pc = "append", !.rule = 1]
      BY <1>4 DEF FirstRule, TypeOK
    <2>2. op'[i].pc = "append" /\ op'[i].rule = 1
      BY <2>1 DEF TypeOK, Call
    <2>3. link'[SlotOf(i)] = i
      BY <1>4 DEF TypeOK, Row, SlotOf
    <2> QED BY <1>1, <2>2, <2>3
  <1> QED BY <1>2, <1>3, <1>4

(* A call that begins leaves the taps alone and the call is not a setup    *)
(* that adds rules.                                                        *)
LEMMA Begun ==
    ASSUME TypeOK, LifeInv, NEW i \in Interfaces,
           \/ CreateMachine(i) \/ AskedBack(i) \/ AbandonMachine(i)
           \/ SetupInterface(i) \/ ReleaseInterface(i) \/ ReleaseAgain(i)
    PROVE  /\ At(i, "idle") /\ SlotOf(i)' = SlotOf(i)
           /\ iface'[i].released = iface[i].released
           /\ link' = link /\ rules' = rules
           /\ \/ /\ op' = op \/ op'[i].pc = "lock"
                 /\ iface'[i].up = "never" <=> iface[i].up = "never"
                 /\ iface'[i].up = "up" => iface[i].up = "up"
              \/ /\ op'[i].pc = "replace" /\ iface'[i].up = "partly"
                 /\ iface[i].up # "never" => "repeated" \in seen'
  <1>0. iface[i] \in Row /\ op[i] \in Call
    BY DEF TypeOK
  <1>1. CASE CreateMachine(i)
    <2>1. iface'[i] = [iface[i] EXCEPT !.status = "owned"] /\ op' = op /\ link' = link
             /\ rules' = rules
      BY <1>1 DEF CreateMachine, TypeOK
    <2>2. At(i, "idle")
      BY <1>1 DEF CreateMachine, LifeInv, LifeOf
    <2> QED BY <1>0, <2>1, <2>2 DEF Row, SlotOf
  <1>2. CASE AskedBack(i)
    <2>1. iface'[i] = [iface[i] EXCEPT !.status = "owned"] /\ op' = op /\ link' = link
             /\ rules' = rules /\ At(i, "idle")
      BY <1>2 DEF AskedBack, TypeOK
    <2> QED BY <1>0, <2>1 DEF Row, SlotOf
  <1>3. CASE AbandonMachine(i)
    <2>1. /\ iface'[i] = [iface[i] EXCEPT !.status = "abandoned"]
          /\ op'[i] = [op[i] EXCEPT !.pc = "lock"] /\ link' = link /\ rules' = rules
      BY <1>3 DEF AbandonMachine, Goto, TypeOK
    <2>2. At(i, "idle")
      BY <1>3 DEF AbandonMachine, LifeInv, LifeOf
    <2>3. op'[i].pc = "lock"
      BY <1>0, <2>1 DEF Call
    <2> QED BY <1>0, <2>1, <2>2, <2>3 DEF Row, SlotOf
  <1>4. CASE SetupInterface(i)
    <2>1. /\ iface'[i] = [iface[i] EXCEPT !.up = "partly"]
          /\ op'[i] = [op[i] EXCEPT !.pc = "replace"] /\ link' = link /\ rules' = rules
      BY <1>4 DEF SetupInterface, Goto, TypeOK
    <2>2. At(i, "idle") /\ (iface[i].up # "never" => "repeated" \in seen')
      BY <1>4 DEF SetupInterface, Note
    <2>3. op'[i].pc = "replace"
      BY <1>0, <2>1 DEF Call
    <2>4. /\ iface'[i].up = "partly" /\ iface'[i].released = iface[i].released
          /\ iface'[i].slot = iface[i].slot
      BY <1>0, <2>1 DEF Row
    <2> QED BY <2>1, <2>2, <2>3, <2>4 DEF SlotOf
  <1>5. CASE ReleaseInterface(i)
    <2>1. /\ iface'[i] = [iface[i] EXCEPT !.up = IF @ = "never" THEN @ ELSE "partly",
                                          !.status = "terminating"]
          /\ op'[i] = [op[i] EXCEPT !.pc = "lock"] /\ link' = link /\ rules' = rules
          /\ At(i, "idle")
      BY <1>5 DEF ReleaseInterface, Goto, TypeOK
    <2>2. op'[i].pc = "lock"
      BY <1>0, <2>1 DEF Call
    <2>3. iface'[i].released = iface[i].released /\ iface'[i].slot = iface[i].slot
      BY <1>0, <2>1 DEF Row
    <2>4. iface'[i].up = IF iface[i].up = "never" THEN iface[i].up ELSE "partly"
      BY <1>0, <2>1 DEF Row
    <2> QED BY <2>1, <2>2, <2>3, <2>4 DEF SlotOf
  <1>6. CASE ReleaseAgain(i)
    <2>1. /\ iface' = iface /\ link' = link /\ rules' = rules /\ At(i, "idle")
          /\ op'[i] = [op[i] EXCEPT !.pc = "lock"]
      BY <1>6 DEF ReleaseAgain, Goto, TypeOK
    <2>2. op'[i].pc = "lock"
      BY <1>0, <2>1 DEF Call
    <2> QED BY <2>1, <2>2 DEF SlotOf
  <1> QED BY <1>1, <1>2, <1>3, <1>4, <1>5, <1>6

(* An interface's own step keeps its tap.                                  *)
LEMMA OwnTap ==
    ASSUME RowInv, NEW i \in Interfaces, TapOf(i), Acts(i)
    PROVE  TapOf(i)'
  <1> USE DEF At
  <1>0. TypeOK /\ LifeInv /\ LifeOf(i) /\ LifeOf(i)'
    BY OwnLife DEF RowInv, TableInv, LifeInv
  <1>1. CASE AllocateInterface(i)
    <2>1. PICK index \in Slots :
            iface' = [iface EXCEPT ![i] = [NoRow EXCEPT !.status = "creating",
                                                        !.slot = index]]
      BY <1>1 DEF AllocateInterface
    <2>2. iface'[i].status = "creating"
      BY <1>0, <2>1 DEF NoRow, TypeOK
    <2> QED BY <1>0, <2>2 DEF LifeOf, TapOf
  <1>2. CASE \/ CreateMachine(i) \/ AskedBack(i) \/ AbandonMachine(i)
             \/ SetupInterface(i) \/ ReleaseInterface(i) \/ ReleaseAgain(i)
    BY <1>0, <1>2, Begun DEF TapOf, AllRules
  <1>3. CASE DeleteExistingTap(i) \/ SetupFails(i)
    <2>1. iface' = iface /\ op[i].pc = "replace" /\ op'[i].pc \in {"add", "idle"}
      <3>1. CASE DeleteExistingTap(i)
        <4>1. op' = [Vanished(SlotOf(i)) EXCEPT ![i].pc = "add"]
          BY <3>1 DEF DeleteExistingTap
        <4>2. op'[i] = [Vanished(SlotOf(i))[i] EXCEPT !.pc = "add"]
          BY <1>0, <4>1, VanishedElsewhere
        <4> QED BY <1>0, <3>1, <4>2, VanishedElsewhere DEF DeleteExistingTap, Call
      <3>2. CASE SetupFails(i)
        BY <1>0, <3>2 DEF SetupFails, Return, NoCall, TypeOK
      <3> QED BY <1>3, <3>1, <3>2
    <2> QED BY <1>0, <2>1 DEF LifeOf, Setting, TapOf
  <1>4. CASE AddTap(i)
    <2>1. iface[i].up = "partly"
      BY <1>0, <1>4 DEF AddTap, LifeOf, Setting
    <2> QED BY <1>0, <1>4, <2>1, Added DEF TapOf, Rules
  <1>5. CASE AppendRule(i)
    <2>1. iface[i].up = "partly" /\ op[i].pc = "append"
      BY <1>0, <1>5 DEF AppendRule, LifeOf, Setting
    <2>2. \A t \in Rules : rules[SlotOf(i)][t] \in Nat
      BY <1>0 DEF TypeOK, Row, SlotOf
    <2>3. CASE op'[i].pc = "idle" /\ iface' = iface
      BY <2>1, <2>3 DEF TapOf
    <2>4. CASE /\ op[i].rule = 3 /\ op'[i].pc = "idle"
               /\ \A t \in Rules :
                      rules'[SlotOf(i)][t] = IF t = op[i].rule
                                             THEN rules[SlotOf(i)][t] + 1
                                             ELSE rules[SlotOf(i)][t]
      <3>1. \A t \in Rules : t < op[i].rule \/ t = op[i].rule
        BY <2>4 DEF Rules
      <3>2. \A t \in Rules : rules'[SlotOf(i)][t] > 0
        BY <2>1, <2>2, <2>4, <3>1 DEF TapOf
      <3>3. SlotOf(i)' = SlotOf(i) /\ link'[SlotOf(i)] = i
        BY <1>0, <1>5, <2>1, Appended DEF TapOf
      <3> QED BY <2>4, <3>2, <3>3 DEF TapOf, AllRules
    <2>5. CASE /\ op'[i].pc = "append" /\ op'[i].rule = op[i].rule + 1
               /\ iface' = iface
               /\ \A t \in Rules :
                      rules'[SlotOf(i)][t] = IF t = op[i].rule
                                             THEN rules[SlotOf(i)][t] + 1
                                             ELSE rules[SlotOf(i)][t]
      <3>1. \A t \in Rules : t < op[i].rule + 1 => t < op[i].rule \/ t = op[i].rule
        BY <1>0, <1>5, Appended DEF Rules
      <3>2. \A t \in Rules : t < op[i].rule + 1 => rules'[SlotOf(i)][t] > 0
        BY <2>1, <2>2, <2>5, <3>1 DEF TapOf
      <3>3. SlotOf(i)' = SlotOf(i) /\ link'[SlotOf(i)] = i
        BY <1>0, <1>5, <2>1, Appended DEF TapOf
      <3> QED BY <2>1, <2>5, <3>2, <3>3 DEF TapOf
    <2> QED BY <1>0, <1>5, <2>3, <2>4, <2>5, Appended
  <1>6. CASE LockAndFind(i) \/ RemoveRule(i) \/ DeleteLink(i) \/ StampReleased(i)
    <2>1. op[i].pc \in Releasing
      BY <1>6 DEF LockAndFind, RemoveRule, DeleteLink, StampReleased, Releasing
    <2>2. iface[i].up # "up"
      BY <1>0, <2>1 DEF LifeOf
    <2>3. op'[i].pc # "append" /\ iface'[i].up = iface[i].up
      <3>1. CASE LockAndFind(i)
        BY <1>0, <3>1 DEF LockAndFind, TypeOK, Call
      <3>2. CASE RemoveRule(i)
        BY <1>0, <3>2 DEF RemoveRule, ReturnAndUnlock, Return, NoCall, TypeOK, Call
      <3>3. CASE DeleteLink(i)
        <4>1. \/ op' = [Vanished(SlotOf(i)) EXCEPT ![i].pc = "stamp"]
              \/ op' = [op EXCEPT ![i] = NoCall]
          BY <3>3 DEF DeleteLink, ReturnAndUnlock, Return
        <4>2. \/ op'[i] = [Vanished(SlotOf(i))[i] EXCEPT !.pc = "stamp"]
              \/ op'[i] = NoCall
          BY <1>0, <4>1, VanishedElsewhere DEF TypeOK
        <4>3. op'[i].pc # "append"
          BY <1>0, <4>2, VanishedElsewhere DEF Call, NoCall
        <4> QED BY <3>3, <4>3 DEF DeleteLink
      <3>4. CASE StampReleased(i)
        <4>1. /\ op'[i].pc = "idle"
              /\ \/ iface' = iface
                 \/ \E saves \in BOOLEAN :
                      iface'[i] = [iface[i] EXCEPT !.released = TRUE, !.saved = saves]
          BY <1>0, <3>4 DEF StampReleased, ReturnAndUnlock, Return, NoCall, TypeOK
        <4> QED BY <1>0, <4>1 DEF TypeOK, Row
      <3> QED BY <1>6, <3>1, <3>2, <3>3, <3>4
    <2> QED BY <2>2, <2>3 DEF TapOf
  <1> QED BY <1>1, <1>2, <1>3, <1>4, <1>5, <1>6 DEF Acts

(* A restart ends every call and leaves the taps alone; without a          *)
(* forgotten release everybody keeps what they hold.                       *)
LEMMA Restarted ==
    ASSUME TypeOK, SavedIsReleased, Restart
    PROVE  /\ link' = link /\ rules' = rules /\ seen \subseteq seen'
           /\ \A i \in Interfaces :
                /\ op'[i].pc = "idle" /\ iface'[i].up = iface[i].up
                /\ SlotOf(i)' = SlotOf(i)
                /\ Never({"forgotten"})' => (Holds(i)' <=> Holds(i))
                /\ Never({"incomplete"})' => At(i, "idle")
  <1>1. ASSUME NEW i \in Interfaces
        PROVE  /\ op'[i].pc = "idle" /\ iface'[i].up = iface[i].up
               /\ SlotOf(i)' = SlotOf(i)
               /\ Never({"forgotten"})' => (Holds(i)' <=> Holds(i))
               /\ Never({"incomplete"})' => At(i, "idle")
    <2>1. /\ iface[i] \in Row /\ op'[i] = NoCall
          /\ iface'[i] = [iface[i] EXCEPT
                            !.released = iface[i].saved,
                            !.status = IF @ = "creating" THEN "abandoned" ELSE @]
      BY DEF Restart, TypeOK
    <2>2. /\ iface'[i].up = iface[i].up /\ iface'[i].slot = iface[i].slot
          /\ iface'[i].released = iface[i].saved
      BY <2>1 DEF Row
    <2>3. iface'[i].status = IF iface[i].status = "creating" THEN "abandoned"
                             ELSE iface[i].status
      BY <2>1 DEF Row
    <2>4. Never({"forgotten"})' => iface[i].released = iface[i].saved
      BY <2>1 DEF Restart, Never, Note, SavedIsReleased, Row
    <2>5. Never({"incomplete"})' => At(i, "idle")
      BY DEF Restart, Never, Note
    <2> QED BY <2>1, <2>2, <2>3, <2>4, <2>5 DEF NoCall, SlotOf, Holds
  <1> QED BY <1>1 DEF Restart

LEMMA StepTap ==
    ASSUME RowInv, TapInv, [Next]_vars
    PROVE  TapInv'
  <1> SUFFICES ASSUME Never({"forgotten", "again", "reused"})'
               PROVE  \A j \in Interfaces : TapOf(j)'
    BY DEF TapInv
  <1>1. ASSUME NEW i \in Interfaces, Acts(i) PROVE \A j \in Interfaces : TapOf(j)'
    <2>1. OthersStay(i)
      BY <1>1, ActsAlone DEF RowInv, TableInv
    <2>2. Never({"forgotten", "again", "reused"})
      BY <2>1 DEF OthersStay, Never
    <2>3. \A j \in Interfaces : TapOf(j)
      BY <2>2 DEF TapInv
    <2>4. TapOf(i)'
      BY <1>1, <2>3, OwnTap
    <2>5. ASSUME NEW j \in Interfaces \ {i} PROVE TapOf(j)'
      <3>1. iface'[j] = iface[j] /\ op'[j].pc = op[j].pc /\ op'[j].rule = op[j].rule
        BY <2>1 DEF OthersStay
      <3>2. CASE iface[j].up = "up" \/ At(j, "append")
        <4>1. Holds(j)
          BY <2>2, <3>2 DEF RowInv, TableInv, LifeInv, LifeOf, ReleasedAtRest, RestOf,
             Never, Holds, At, CallsHaveRows
        <4>2. /\ link'[SlotOf(j)] = link[SlotOf(j)]
              /\ rules'[SlotOf(j)] = rules[SlotOf(j)]
          BY <1>1, <2>2, <4>1, OthersHold
        <4> QED BY <2>3, <3>1, <4>2 DEF TapOf, At, SlotOf, AllRules
      <3>3. CASE iface[j].up # "up" /\ ~At(j, "append")
        BY <3>1, <3>3 DEF TapOf, At
      <3> QED BY <3>2, <3>3
    <2> QED BY <2>4, <2>5
  <1>2. ASSUME Restart PROVE \A j \in Interfaces : TapOf(j)'
    <2>1. TypeOK /\ SavedIsReleased
      BY DEF RowInv, TableInv
    <2>2. Never({"forgotten", "again", "reused"})
      BY <1>2, <2>1, Restarted DEF Never
    <2> QED BY <1>2, <2>1, <2>2, Restarted DEF TapInv, TapOf, At, AllRules
  <1>3. ASSUME UNCHANGED vars PROVE \A j \in Interfaces : TapOf(j)'
    BY <1>3 DEF vars, TapInv, TapOf, At, AllRules, SlotOf, Never
  <1> QED BY StepCases, <1>1, <1>2, <1>3 DEF Acts

(* An interface that was set up keeps its tap and its rules until its own  *)
(* release, though setup_interface.go:12 and release_interface.go:17 find  *)
(* the tap by a name that another interface may have had: a foreign call   *)
(* needs an interface that is released or set up after its release, or     *)
(* whose release a restart forgot.                                         *)
THEOREM SetUpCorrect == Spec => []SetUpStaysUp
  <1>1. Init => TapInv
    <2>1. ASSUME Init, NEW i \in Interfaces PROVE TapOf(i)
      BY <2>1 DEF Init, TapOf, At, NoRow, NoCall
    <2> QED BY <2>1 DEF TapInv
  <1>2. RowInv /\ TapInv /\ [Next]_vars => RowInv' /\ TapInv'
    BY StepRowInv, StepTap
  <1>3. TapInv => SetUpStaysUp
    BY DEF TapInv, TapOf, SetUpStaysUp
  <1> QED BY InitialRows, <1>1, <1>2, <1>3, PTL DEF Spec

-------------------------------------------------------------------------------
(* How much of its tap the holder of an address has, from step to step:    *)
(* nothing, or the link and one copy of some of the rules.                 *)
Tap(i, owner, ones) ==
    /\ link[SlotOf(i)] = owner
    /\ \A t \in Rules : rules[SlotOf(i)][t] = IF t \in ones THEN 1 ELSE 0
Before(n) == {t \in Rules : t < n}
From(n) == {t \in Rules : t >= n}
HolderTap(i) ==
    /\ op[i].pc \in {"idle", "lock"} =>
         IF iface[i].up = "never" THEN Tap(i, None, {}) ELSE Tap(i, i, Rules)
    /\ op[i].pc \in {"replace", "add", "stamp"} => Tap(i, None, {})
    /\ At(i, "append") => Tap(i, i, Before(op[i].rule))
    /\ At(i, "remove") => op[i].handle = "live" /\ Tap(i, i, From(op[i].rule))
    /\ At(i, "unlink") => op[i].handle = "live" /\ Tap(i, i, {})
FreeTap(s) ==
    (\A i \in Interfaces : SlotOf(i) = s => ~Holds(i)) =>
      link[s] = None /\ \A t \in Rules : rules[s][t] = 0
CleanInv == Never(History) =>
              /\ \A s \in Slots : FreeTap(s)
              /\ \A i \in Interfaces : Holds(i) => HolderTap(i)

(* The steps of ReleaseInterface, and what they do when they fail.         *)
LEMMA Locked ==
    ASSUME TypeOK, NEW i \in Interfaces, LockAndFind(i)
    PROVE  /\ At(i, "lock") /\ iface' = iface /\ link' = link /\ rules' = rules
           /\ IF link[SlotOf(i)] = None THEN op'[i].pc = "stamp"
              ELSE /\ op'[i].pc = "remove" /\ op'[i].rule = 1
                   /\ op'[i].handle = "live"
  <1>1. op'[i] = IF link[SlotOf(i)] = None THEN [op[i] EXCEPT !.pc = "stamp"]
                 ELSE [pc |-> "remove", rule |-> 1, handle |-> "live"]
    BY DEF LockAndFind, TypeOK
  <1>2. op[i] \in Call
    BY DEF TypeOK
  <1>3. [op[i] EXCEPT !.pc = "stamp"].pc = "stamp"
    BY <1>2 DEF Call
  <1>4. CASE link[SlotOf(i)] = None
    <2>1. op'[i].pc = "stamp"
      BY <1>1, <1>3, <1>4
    <2> QED BY <1>4, <2>1 DEF LockAndFind
  <1>5. CASE link[SlotOf(i)] # None
    <2>1. op'[i] = [pc |-> "remove", rule |-> 1, handle |-> "live"]
      BY <1>1, <1>5
    <2>2. op'[i].pc = "remove" /\ op'[i].rule = 1 /\ op'[i].handle = "live"
      BY <2>1
    <2> QED BY <1>5, <2>2 DEF LockAndFind
  <1> QED BY <1>4, <1>5

LEMMA Removed ==
    ASSUME TypeOK, NEW i \in Interfaces, RemoveRule(i),
           op[i].handle = "live", Tap(i, i, From(op[i].rule)),
           "incomplete" \notin seen'
    PROVE  /\ SlotOf(i)' = SlotOf(i) /\ iface' = iface /\ op'[i].handle = "live"
           /\ \/ op'[i].pc = "unlink" /\ Tap(i, i, {})'
              \/ op'[i].pc = "remove" /\ Tap(i, i, From(op[i].rule))'
  <1> DEFINE n == op[i].rule
  <1>1. n \in Rules /\ SlotOf(i) \in Slots /\ op[i] \in Call
    BY DEF TypeOK, Call, Row, SlotOf
  <1>2. rules[SlotOf(i)][n] = 1
    BY <1>1 DEF Tap, From, Rules
  <1>3. iface' = iface /\ link' = link /\ SlotOf(i)' = SlotOf(i) /\ At(i, "remove")
    BY DEF RemoveRule, SlotOf
  <1>4. /\ rules' = [rules EXCEPT ![SlotOf(i)][n] = @ - 1]
        /\ op' = IF n = LastRule THEN [op EXCEPT ![i].pc = "unlink"]
                 ELSE [op EXCEPT ![i].rule = n + 1]
    BY <1>2 DEF RemoveRule, Note
  <1>5. rules' = [rules EXCEPT ![SlotOf(i)][n] = 0] /\ 0 \in Nat
    BY <1>1, <1>2, <1>4 DEF TypeOK
  <1>6. \A t \in Rules : rules'[SlotOf(i)][t] = IF t = n THEN 0 ELSE rules[SlotOf(i)][t]
    BY <1>1, <1>5, CountChange
  <1>7. \A t \in Rules : rules'[SlotOf(i)][t] = IF t \in From(n + 1) THEN 1 ELSE 0
    BY <1>1, <1>6 DEF Tap, From, Rules
  <1>8. CASE n = LastRule
    <2>1. op'[i] = [op[i] EXCEPT !.pc = "unlink"]
      BY <1>4, <1>8 DEF TypeOK
    <2>2. op'[i].pc = "unlink" /\ op'[i].handle = "live"
      BY <1>1, <2>1 DEF Call
    <2>3. From(n + 1) = {}
      BY <1>8 DEF From, Rules, LastRule
    <2>4. Tap(i, i, {})'
      BY <1>3, <1>7, <2>3 DEF Tap
    <2> QED BY <1>3, <2>2, <2>4
  <1>9. CASE n # LastRule
    <2>1. op'[i] = [op[i] EXCEPT !.rule = n + 1]
      BY <1>4, <1>9 DEF TypeOK
    <2>2. op'[i].pc = "remove" /\ op'[i].handle = "live" /\ op'[i].rule = n + 1
      BY <1>1, <1>3, <2>1 DEF Call, At
    <2>3. Tap(i, i, From(op[i].rule))'
      BY <1>3, <1>7, <2>2 DEF Tap, From
    <2> QED BY <1>3, <2>2, <2>3
  <1> QED BY <1>8, <1>9

LEMMA Deleted ==
    ASSUME TypeOK, NEW i \in Interfaces, "incomplete" \notin seen',
           DeleteLink(i) \/ DeleteExistingTap(i)
    PROVE  /\ SlotOf(i)' = SlotOf(i) /\ iface' = iface /\ rules' = rules
           /\ op'[i].pc = IF At(i, "unlink") THEN "stamp" ELSE "add"
           /\ link'[SlotOf(i)] = None
           /\ At(i, "unlink") \/ At(i, "replace")
  <1>1. /\ op' = [Vanished(SlotOf(i)) EXCEPT
                    ![i].pc = IF At(i, "unlink") THEN "stamp" ELSE "add"]
        /\ link' = Unlinked(SlotOf(i)) /\ iface' = iface /\ rules' = rules
        /\ At(i, "unlink") \/ At(i, "replace")
    BY DEF DeleteLink, DeleteExistingTap, At
  <1>2. op'[i] = [Vanished(SlotOf(i))[i] EXCEPT
                    !.pc = IF At(i, "unlink") THEN "stamp" ELSE "add"]
    BY <1>1, VanishedElsewhere
  <1>3. op'[i].pc = IF At(i, "unlink") THEN "stamp" ELSE "add"
    BY <1>2, VanishedElsewhere DEF Call
  <1>4. link'[SlotOf(i)] = None
    BY <1>1 DEF Unlinked, TypeOK, Row, SlotOf
  <1> QED BY <1>1, <1>3, <1>4 DEF SlotOf

LEMMA Stamped ==
    ASSUME TypeOK, NEW i \in Interfaces, StampReleased(i)
    PROVE  ~Holds(i)' /\ link' = link /\ rules' = rules /\ At(i, "stamp")
  <1>1. link' = link /\ rules' = rules /\ At(i, "stamp")
    BY DEF StampReleased
  <1>2. CASE iface[i].released
    BY <1>1, <1>2 DEF StampReleased, Holds
  <1>3. CASE ~iface[i].released
    <2>1. PICK saves \in BOOLEAN :
            iface' = [iface EXCEPT ![i] = [@ EXCEPT !.released = TRUE, !.saved = saves]]
      BY <1>3 DEF StampReleased
    <2>2. iface'[i] = [iface[i] EXCEPT !.released = TRUE, !.saved = saves]
      BY <2>1 DEF TypeOK
    <2>3. iface'[i].released
      BY <2>2 DEF TypeOK, Row
    <2> QED BY <1>1, <2>3 DEF Holds
  <1> QED BY <1>2, <1>3

(* The holder's own step takes its tap on to the next form; without a call *)
(* that ended half way, no rule is missing and the link is still there.    *)
LEMMA OwnHolder ==
    ASSUME RowInv, Never(History)', NEW i \in Interfaces, Acts(i),
           Holds(i), HolderTap(i), Holds(i)'
    PROVE  HolderTap(i)'
  <1> USE DEF At
  <1>0. /\ TypeOK /\ LifeInv /\ LifeOf(i) /\ "incomplete" \notin seen'
        /\ "repeated" \notin seen'
    BY DEF RowInv, TableInv, LifeInv, Never, History
  <1>1. CASE AllocateInterface(i)
    BY <1>1 DEF AllocateInterface, Holds
  <1>2. CASE \/ CreateMachine(i) \/ AskedBack(i) \/ AbandonMachine(i)
             \/ SetupInterface(i) \/ ReleaseInterface(i) \/ ReleaseAgain(i)
    BY <1>0, <1>2, Begun DEF HolderTap, Tap
  <1>3. CASE DeleteExistingTap(i) \/ DeleteLink(i)
    BY <1>0, <1>3, Deleted DEF HolderTap, Tap
  <1>4. CASE SetupFails(i)
    BY <1>0, <1>4 DEF SetupFails
  <1>5. CASE AddTap(i)
    <2>1. op[i].pc = "add"
      BY <1>5 DEF AddTap
    <2>2. \A t \in Rules : t \notin Before(1) /\ t \notin {}
      BY DEF Before, Rules
    <2>3. Tap(i, i, Before(1))'
      BY <1>0, <1>5, <2>1, <2>2, Added DEF HolderTap, Tap, Before
    <2>4. op'[i].pc = "append" /\ op'[i].rule = 1
      BY <1>0, <1>5, Added
    <2> QED BY <2>3, <2>4 DEF HolderTap, Tap, Before
  <1>6. CASE AppendRule(i)
    <2>1. Tap(i, i, Before(op[i].rule)) /\ iface[i].up = "partly"
      BY <1>0, <1>6 DEF AppendRule, HolderTap, LifeOf, Setting
    <2>2. /\ op[i].rule \in Rules /\ SlotOf(i)' = SlotOf(i) /\ link' = link
          /\ \A t \in Rules :
                rules'[SlotOf(i)][t] = IF t = op[i].rule
                                       THEN rules[SlotOf(i)][t] + 1
                                       ELSE rules[SlotOf(i)][t]
          /\ \/ op[i].rule = 3 /\ op'[i].pc = "idle" /\ iface'[i].up = "up"
             \/ /\ op[i].rule # 3 /\ iface' = iface
                /\ op'[i].pc = "append" /\ op'[i].rule = op[i].rule + 1
      BY <1>0, <1>6, Appended
    <2>3. \A t \in Rules : rules'[SlotOf(i)][t] = IF t \in Before(op[i].rule + 1)
                                                  THEN 1 ELSE 0
      BY <2>1, <2>2 DEF Tap, Before, Rules
    <2>4. CASE op[i].rule = 3 /\ op'[i].pc = "idle" /\ iface'[i].up = "up"
      <3>1. \A t \in Rules : t \in Before(op[i].rule + 1)
        BY <2>4 DEF Before, Rules
      <3>2. Tap(i, i, Rules)'
        BY <2>1, <2>2, <2>3, <3>1 DEF Tap
      <3> QED BY <2>4, <3>2 DEF HolderTap
    <2>5. CASE op'[i].pc = "append" /\ op'[i].rule = op[i].rule + 1
      <3>1. Tap(i, i, Before(op[i].rule))'
        BY <2>1, <2>2, <2>3, <2>5 DEF Tap, Before
      <3> QED BY <2>5, <3>1 DEF HolderTap
    <2> QED BY <2>2, <2>4, <2>5
  <1>7. CASE LockAndFind(i)
    <2>1. \A t \in Rules : t \in From(1)
      BY DEF From, Rules
    <2>2. None # i
      BY ProviderAssumption
    <2> QED BY <1>0, <1>7, <2>1, <2>2, Locked DEF HolderTap, Tap, SlotOf, From
  <1>8. CASE RemoveRule(i)
    <2>1. op[i].handle = "live" /\ Tap(i, i, From(op[i].rule))
      BY <1>8 DEF RemoveRule, HolderTap
    <2> QED BY <1>0, <1>8, <2>1, Removed DEF HolderTap
  <1>9. CASE StampReleased(i)
    BY <1>0, <1>9, Stamped
  <1> QED BY <1>1, <1>2, <1>3, <1>4, <1>5, <1>6, <1>7, <1>8, <1>9 DEF Acts

(* A slot is nobody's after a step of i: either it was nobody's before and *)
(* keeps its tap, or i has just given it back.                             *)
LEMMA FreedTap ==
    ASSUME RowInv, CleanInv, Never(History)', Never(History),
           NEW i \in Interfaces, Acts(i), NEW s \in Slots,
           \A j \in Interfaces : SlotOf(j)' = s => ~Holds(j)'
    PROVE  link'[s] = None /\ \A t \in Rules : rules'[s][t] = 0
  <1>1. OthersStay(i) /\ TypeOK
    BY ActsAlone DEF RowInv, TableInv
  <1>2. \A j \in Interfaces \ {i} : SlotOf(j) = s => ~Holds(j)
    BY <1>1 DEF OthersStay, Holds, SlotOf
  <1>3. ~At(i, "idle") => Holds(i)
    BY OthersHold DEF Never, History
  <1>4. CASE SlotOf(i) # s \/ ~Holds(i)
    <2>1. link[s] = None /\ \A t \in Rules : rules[s][t] = 0
      BY <1>2, <1>4 DEF CleanInv, FreeTap
    <2>2. link'[s] = link[s] /\ rules'[s] = rules[s]
      BY <1>1, <1>3, <1>4 DEF OthersStay
    <2> QED BY <2>1, <2>2
  <1>5. CASE SlotOf(i) = s /\ Holds(i)
    <2>0. iface[i].status # "none" /\ ~iface[i].released
      BY <1>5 DEF Holds
    <2>1. StampReleased(i)
      <3>1. CASE \/ CreateMachine(i) \/ AskedBack(i) \/ AbandonMachine(i)
                 \/ SetupInterface(i) \/ ReleaseInterface(i) \/ ReleaseAgain(i)
        <4>1. SlotOf(i)' = SlotOf(i) /\ iface'[i].released = iface[i].released
          BY <1>1, <3>1, Begun DEF RowInv
        <4>2. iface'[i].status # "none"
          <5>1. iface[i] \in Row
            BY <1>1 DEF TypeOK
          <5>2. \/ \E x \in {"owned", "abandoned"} :
                     iface'[i] = [iface[i] EXCEPT !.status = x]
                \/ iface'[i] = [iface[i] EXCEPT !.up = "partly"]
                \/ iface'[i] = [iface[i] EXCEPT !.up = IF @ = "never" THEN @ ELSE "partly",
                                                !.status = "terminating"]
                \/ iface' = iface
            BY <1>1, <3>1 DEF CreateMachine, AskedBack, AbandonMachine, SetupInterface,
               ReleaseInterface, ReleaseAgain, TypeOK
          <5> QED BY <2>0, <5>1, <5>2 DEF Row
        <4> QED BY <1>5, <2>0, <4>1, <4>2 DEF Holds
      <3>2. CASE \/ DeleteExistingTap(i) \/ SetupFails(i) \/ AddTap(i)
                 \/ LockAndFind(i) \/ RemoveRule(i) \/ DeleteLink(i)
        <4>1. iface' = iface
          BY <3>2 DEF DeleteExistingTap, SetupFails, AddTap, LockAndFind, RemoveRule,
             DeleteLink
        <4> QED BY <1>5, <4>1 DEF Holds, SlotOf
      <3>3. CASE AppendRule(i)
        <4>1. iface' = iface \/ iface' = [iface EXCEPT ![i].up = "up"]
          BY <3>3 DEF AppendRule
        <4>2. Holds(i)' /\ SlotOf(i)' = SlotOf(i)
          BY <1>1, <1>5, <4>1 DEF Holds, SlotOf, TypeOK, Row
        <4> QED BY <1>5, <4>2
      <3>4. CASE AllocateInterface(i)
        BY <2>0, <3>4 DEF AllocateInterface
      <3> QED BY <3>1, <3>2, <3>3, <3>4 DEF Acts
    <2>2. HolderTap(i) /\ At(i, "stamp") /\ link' = link /\ rules' = rules
      BY <1>1, <1>5, <2>1, Stamped DEF CleanInv
    <2> QED BY <1>5, <2>2 DEF HolderTap, Tap, At
  <1> QED BY <1>4, <1>5

(* Who has just been given an address finds nothing of a tap there.        *)
LEMMA FreshTap ==
    ASSUME RowInv, CleanInv, Never(History), NEW i \in Interfaces,
           Acts(i), ~Holds(i), Holds(i)'
    PROVE  HolderTap(i)'
  <1>0. TypeOK /\ SavedIsReleased /\ LifeInv
    BY DEF RowInv, TableInv
  <1>1. CASE AllocateInterface(i)
    <2>1. PICK index \in Slots :
            /\ index \notin claimed
            /\ iface' = [iface EXCEPT ![i] = [NoRow EXCEPT !.status = "creating",
                                                           !.slot = index]]
      BY <1>1 DEF AllocateInterface, findAvailableOffset
    <2>2. /\ iface'[i].slot = index /\ iface'[i].up = "never"
          /\ op' = op /\ link' = link /\ rules' = rules /\ iface[i].status = "none"
      BY <1>0, <1>1, <2>1 DEF AllocateInterface, NoRow, TypeOK
    <2>3. \A j \in Interfaces : SlotOf(j) = index => ~Holds(j)
      BY <2>1 DEF RowInv, TableInv, SlotsMatchRows, Never, History
    <2>4. link[index] = None /\ \A t \in Rules : rules[index][t] = 0
      BY <2>3 DEF CleanInv, FreeTap
    <2>5. op[i].pc = "idle"
      BY <2>2 DEF RowInv, TableInv, CallsHaveRows, At
    <2> QED BY <2>2, <2>4, <2>5 DEF HolderTap, Tap, SlotOf, At
  <1>2. CASE ~AllocateInterface(i)
    <2>1. iface[i].status = "none" \/ iface[i].released
      BY DEF Holds
    <2>2. At(i, "idle")
      BY <2>1 DEF RowInv, TableInv, CallsHaveRows, ReleasedAtRest, RestOf, Never, History
    <2>3. \/ CreateMachine(i) \/ AskedBack(i) \/ AbandonMachine(i)
          \/ SetupInterface(i) \/ ReleaseInterface(i) \/ ReleaseAgain(i)
      BY <1>2, <2>2 DEF Acts, DeleteExistingTap, SetupFails, AddTap, AppendRule,
         LockAndFind, RemoveRule, DeleteLink, StampReleased, At
    <2>4. iface[i].status # "none" /\ iface'[i].released = iface[i].released
      BY <1>0, <2>3, Begun DEF CreateMachine, AskedBack, AbandonMachine, SetupInterface,
         ReleaseInterface, ReleaseAgain
    <2> QED BY <2>1, <2>4 DEF Holds
  <1> QED BY <1>1, <1>2

LEMMA StepClean ==
    ASSUME RowInv, CleanInv, [Next]_vars
    PROVE  CleanInv'
  <1> SUFFICES ASSUME Never(History)'
               PROVE  /\ \A s \in Slots : FreeTap(s)'
                      /\ \A j \in Interfaces : Holds(j)' => HolderTap(j)'
    BY DEF CleanInv
  <1>1. ASSUME NEW i \in Interfaces, Acts(i)
        PROVE  /\ \A s \in Slots : FreeTap(s)'
               /\ \A j \in Interfaces : Holds(j)' => HolderTap(j)'
    <2>1. OthersStay(i)
      BY <1>1, ActsAlone DEF RowInv, TableInv
    <2>2. Never(History) /\ Never({"forgotten", "again", "reused"})
      BY <2>1 DEF OthersStay, Never, History
    <2>3. \A s \in Slots : FreeTap(s)'
      BY <1>1, <2>2, FreedTap DEF FreeTap
    <2>4. Holds(i)' => HolderTap(i)'
      BY <1>1, <2>2, OwnHolder, FreshTap DEF CleanInv
    <2>5. ASSUME NEW j \in Interfaces \ {i}, Holds(j)' PROVE HolderTap(j)'
      <3>1. Holds(j)
        BY <2>1, <2>5 DEF OthersStay, Holds
      <3>2. /\ iface'[j] = iface[j] /\ op'[j] = op[j]
            /\ link'[SlotOf(j)] = link[SlotOf(j)]
            /\ rules'[SlotOf(j)] = rules[SlotOf(j)]
        BY <1>1, <2>2, <3>1, OthersHold
      <3>3. HolderTap(j)
        BY <2>2, <3>1 DEF CleanInv
      <3> QED BY <3>2, <3>3 DEF HolderTap, Tap, SlotOf, At
    <2> QED BY <2>3, <2>4, <2>5
  <1>2. ASSUME Restart
        PROVE  /\ \A s \in Slots : FreeTap(s)'
               /\ \A j \in Interfaces : Holds(j)' => HolderTap(j)'
    <2>1. TypeOK /\ SavedIsReleased
      BY DEF RowInv, TableInv
    <2>2. Never(History) /\ Never({"forgotten"})' /\ Never({"incomplete"})'
      BY <1>2, <2>1, Restarted DEF Never, History
    <2>3. \A i \in Interfaces : /\ op'[i].pc = "idle" /\ iface'[i].up = iface[i].up
                                /\ SlotOf(i)' = SlotOf(i) /\ (Holds(i)' <=> Holds(i))
                                /\ At(i, "idle")
      BY <1>2, <2>1, <2>2, Restarted
    <2>4. link' = link /\ rules' = rules
      BY <1>2 DEF Restart
    <2>5. \A s \in Slots : FreeTap(s)'
      BY <2>2, <2>3, <2>4 DEF CleanInv, FreeTap
    <2>6. ASSUME NEW j \in Interfaces, Holds(j)' PROVE HolderTap(j)'
      BY <2>2, <2>3, <2>4, <2>6 DEF CleanInv, HolderTap, Tap, At
    <2> QED BY <2>5, <2>6
  <1>3. ASSUME UNCHANGED vars
        PROVE  /\ \A s \in Slots : FreeTap(s)'
               /\ \A j \in Interfaces : Holds(j)' => HolderTap(j)'
    <2>1. Never(History)
      BY <1>3 DEF vars, Never
    <2>2. \A s \in Slots : FreeTap(s)'
      BY <1>3, <2>1 DEF vars, CleanInv, FreeTap, Holds, SlotOf
    <2>3. ASSUME NEW j \in Interfaces, Holds(j)' PROVE HolderTap(j)'
      BY <1>3, <2>1, <2>3 DEF vars, CleanInv, HolderTap, Tap, Holds, SlotOf, At
    <2> QED BY <2>2, <2>3
  <1> QED BY StepCases, <1>1, <1>2, <1>3 DEF Acts

(* Nothing is left of the tap of an address that is free (the link that    *)
(* setup_interface.go adds and the three rules of applyTapFirewallRules),  *)
(* unless the interface had been set up twice, or a call ended half way:   *)
(* the setup gives the tap one copy of each rule, the release finds the    *)
(* link alive and takes exactly that copy away before the slot is freed.   *)
THEOREM FreeSlotCorrect == Spec => []FreeSlotIsClean
  <1>1. Init => CleanInv
    <2>1. ASSUME Init PROVE /\ \A s \in Slots : FreeTap(s)
                            /\ \A i \in Interfaces : ~Holds(i)
      BY <2>1 DEF Init, FreeTap, Holds, NoRow
    <2> QED BY <2>1 DEF CleanInv
  <1>2. RowInv /\ CleanInv /\ [Next]_vars => RowInv' /\ CleanInv'
    BY StepRowInv, StepClean
  <1>3. CleanInv => FreeSlotIsClean
    BY DEF CleanInv, FreeTap, FreeSlotIsClean, Unused, Never, History
  <1> QED BY InitialRows, <1>1, <1>2, <1>3, PTL DEF Spec
================================================================================
