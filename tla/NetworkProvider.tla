---------------------------- MODULE NetworkProvider ----------------------------
(***************************************************************************)
(* The network provider (nodeagent/internal/networkprovider): addresses    *)
(* handed out from a table in memory, tap links known to the kernel by the *)
(* name of their slot, and the firewall rules of each tap.                 *)
(*                                                                         *)
(*   - An interface's name, MAC and IP address are functions of its slot,  *)
(*     so a row keeps the slot; the way back from the address to the slot  *)
(*     is the code's arithmetic on octets.                                 *)
(*   - AllocateInterface and ReleaseInterface hold p.lock, SetupInterface  *)
(*     does not.  Each kernel call and each rule command is a step.        *)
(*   - The callers are MachineService.Create, which gives an interface     *)
(*     back when the machine's row cannot be written, and the controller   *)
(*     of the machine, which calls one operation at a time, repeats them,  *)
(*     and retries a release that failed.                                  *)
(*   - A restart reads the table back from the rows.  Links and rules      *)
(*     outlive the agent.                                                  *)
(*                                                                         *)
(* A failing LinkByName changes nothing and is left out.  `seen' is        *)
(* history, read by no action.  FreedAtOnce, LastButOne and SecondRule are *)
(* wrong forms of the definitions that follow them: with one of them in    *)
(* its place some property below fails.                                    *)
(***************************************************************************)
EXTENDS Integers

CONSTANTS
    Interfaces,    \* rows of network_interfaces that may be created
    None,          \* no link, no interface
    Size,          \* number of slots (256: a /24)
    networkAddr,   \* p.networkAddr: four octets (192.168.100.0)
    MaxSetups,     \* bound: SetupInterface calls
    MaxFailures,   \* bound: commands, kernel calls and saves that fail
    MaxRestarts    \* bound: crashes of the agent

ASSUME ProviderAssumption ==
    /\ None \notin Interfaces
    /\ Size \in Nat /\ Size > 2 /\ Size <= 256 * 256 * 256
    /\ networkAddr \in [1..4 -> 0..255]
    /\ {MaxSetups, MaxFailures, MaxRestarts} \subseteq Nat

VARIABLES
    claimed,  \* p.allocatedIPs: the slots that hold a name
    lock,     \* p.lock: the interface being released, or None
    iface,    \* each interface: its row, the object in memory, its owner
    op,       \* the call that is running for the interface
    link,     \* kernel: the interface for which slot's tap was added
    rules,    \* kernel: how many times slot's rule is in each table
    used,     \* how much of each bound is used up
    seen      \* history: which of the events below have happened

vars == <<claimed, lock, iface, op, link, rules, used, seen>>

Slots == 0..(Size - 1)
Rules == 1..3         \* ebtables, iptables, arptables, in this order

(* Offsets and addresses, octet by octet: the addition and the subtraction *)
(* are those of a byte, without a carry or a borrow to the next one.       *)
Weight == <<256 * 256 * 256, 256 * 256, 256, 1>>
Octet(offset, k) == (offset \div Weight[k]) % 256

calculateIPFromOffset(offset) ==
    [k \in 1..4 |-> (networkAddr[k] + Octet(offset, k)) % 256]

Difference(ip, k) == (ip[k] - networkAddr[k]) % 256

calculateOffsetFromIP(ip) ==
    Difference(ip, 1) * Weight[1] + Difference(ip, 2) * Weight[2]
      + Difference(ip, 3) * Weight[3] + Difference(ip, 4) * Weight[4]

gatewayAddr == calculateIPFromOffset(1)
Reserved == {calculateOffsetFromIP(networkAddr), calculateOffsetFromIP(gatewayAddr)}

History ==
    {"forgotten",    \* restart lost a release whose save had failed
     "again",        \* ReleaseInterface of an interface released before
     "reused",       \* SetupInterface of an interface released before
     "repeated",     \* SetupInterface of an interface set up before
     "incomplete"}   \* a setup or release ended between two of its steps

NoCall == [pc |-> "idle", rule |-> 1, handle |-> "none"]
NoRow == [status |-> "none", slot |-> 0, released |-> FALSE, saved |-> FALSE,
          up |-> "never"]

CanFail == used.failures < MaxFailures
Fail == used' = [used EXCEPT !.failures = @ + 1]
Note(event, cond) == IF cond THEN {event} ELSE {}
SlotOf(i) == iface[i].slot
IPAddress(i) == calculateIPFromOffset(SlotOf(i))
At(i, pc) == op[i].pc = pc
Goto(i, pc) == op' = [op EXCEPT ![i].pc = pc]
Return(i) == op' = [op EXCEPT ![i] = NoCall]

Init ==
    /\ claimed = Reserved
    /\ lock = None
    /\ iface = [i \in Interfaces |-> NoRow]
    /\ op = [i \in Interfaces |-> NoCall]
    /\ link = [s \in Slots |-> None]
    /\ rules = [s \in Slots |-> [t \in Rules |-> 0]]
    /\ used = [setups |-> 0, failures |-> 0, restarts |-> 0]
    /\ seen = {}

-------------------------------------------------------------------------------
(* AllocateInterface and its caller, MachineService.Create.                *)

findAvailableOffset(index) ==
    index \in Slots \ claimed /\ \A k \in 0..(index - 1) : k \in claimed

(* The row is written before the slot is taken, under the lock; when that  *)
(* fails, or no slot is free, nothing changes.                             *)
AllocateInterface(i) ==
    /\ lock = None /\ iface[i].status = "none"
    /\ \E index \in Slots :
         /\ findAvailableOffset(index)
         /\ iface' = [iface EXCEPT ![i] = [NoRow EXCEPT !.status = "creating",
                                                        !.slot = index]]
         /\ claimed' = claimed \cup {index}
    /\ UNCHANGED <<lock, op, link, rules, used, seen>>

(* The machine's row refers to the interface, and a controller owns it.    *)
CreateMachine(i) ==
    /\ iface[i].status = "creating"
    /\ iface' = [iface EXCEPT ![i].status = "owned"]
    /\ UNCHANGED <<claimed, lock, op, link, rules, used, seen>>

(* It is not written: the deferred release runs once, its error ignored.   *)
AbandonMachine(i) ==
    /\ iface[i].status = "creating" /\ CanFail
    /\ Fail
    /\ iface' = [iface EXCEPT ![i].status = "abandoned"]
    /\ Goto(i, "lock")
    /\ UNCHANGED <<claimed, lock, link, rules, seen>>

-------------------------------------------------------------------------------
(* SetupInterface, called by prepareMachine, without the lock.             *)

(* Deleting a link by its name makes it vanish for a release that looked   *)
(* it up before.                                                           *)
Unlinked(s) == [link EXCEPT ![s] = None]
Vanished(s) == [i \in Interfaces |->
                  [op[i] EXCEPT !.handle = IF SlotOf(i) = s /\ @ = "live"
                                           THEN "gone" ELSE @]]

SetupInterface(i) ==
    /\ iface[i].status = "owned" /\ At(i, "idle")
    /\ used.setups < MaxSetups
    /\ used' = [used EXCEPT !.setups = @ + 1]
    /\ iface' = [iface EXCEPT ![i].up = "partly"]
    /\ seen' = seen \cup Note("reused", iface[i].released)
                    \cup Note("repeated", iface[i].up # "never")
    /\ Goto(i, "replace")
    /\ UNCHANGED <<claimed, lock, link, rules>>

DeleteExistingTap(i) ==
    /\ At(i, "replace")
    /\ link' = Unlinked(SlotOf(i))
    /\ op' = [Vanished(SlotOf(i)) EXCEPT ![i].pc = "add"]
    /\ UNCHANGED <<claimed, lock, iface, rules, used, seen>>

SetupFails(i) ==
    /\ At(i, "replace") /\ link[SlotOf(i)] # None /\ CanFail
    /\ Fail
    /\ Return(i)
    /\ seen' = seen \cup {"incomplete"}
    /\ UNCHANGED <<claimed, lock, iface, link, rules>>

SecondRule == 2
FirstRule == 1

(* Add the tap and configure it: address, up, master.  A call that fails   *)
(* deletes the tap again, or leaves it behind when that fails as well.  A  *)
(* name that exists cannot be added.                                       *)
AddTap(i) ==
    /\ At(i, "add")
    /\ LET s == SlotOf(i)
       IN \/ /\ link[s] = None
             /\ link' = [link EXCEPT ![s] = i]
             /\ op' = [op EXCEPT ![i].pc = "append", ![i].rule = FirstRule]
             /\ UNCHANGED <<used, seen>>
          \/ /\ link[s] # None
             /\ Return(i)
             /\ seen' = seen \cup {"incomplete"}
             /\ UNCHANGED <<link, used>>
          \/ /\ link[s] = None /\ CanFail
             /\ link' \in {link, [link EXCEPT ![s] = i]}
             /\ Fail
             /\ Return(i)
             /\ seen' = seen \cup {"incomplete"}
    /\ UNCHANGED <<claimed, lock, iface, rules>>

(* applyTapFirewallRules with -A: a rule that is there is added once more. *)
AppendRule(i) ==
    /\ At(i, "append")
    /\ LET n == op[i].rule
       IN \/ /\ rules' = [rules EXCEPT ![SlotOf(i)][n] = @ + 1]
             /\ IF n = 3 THEN /\ Return(i)
                              /\ iface' = [iface EXCEPT ![i].up = "up"]
                ELSE /\ op' = [op EXCEPT ![i].rule = n + 1]
                     /\ iface' = iface
             /\ UNCHANGED <<used, seen>>
          \/ /\ CanFail /\ Fail
             /\ Return(i)
             /\ seen' = seen \cup {"incomplete"}
             /\ UNCHANGED <<rules, iface>>
    /\ UNCHANGED <<claimed, lock, link>>

-------------------------------------------------------------------------------
(* ReleaseInterface, under the lock.                                       *)

ReleaseInterface(i) ==
    /\ iface[i].status = "owned" /\ At(i, "idle")
    /\ iface' = [iface EXCEPT ![i].up = IF @ = "never" THEN @ ELSE "partly",
                              ![i].status = "terminating"]
    /\ seen' = seen \cup Note("again", iface[i].released)
    /\ Goto(i, "lock")
    /\ UNCHANGED <<claimed, lock, link, rules, used>>

(* The controller retries a release that failed, and may release once more *)
(* an interface that was released, when a volume could not be.  A machine  *)
(* may be asked back before.                                               *)
ReleaseAgain(i) ==
    /\ iface[i].status = "terminating" /\ At(i, "idle")
    /\ seen' = seen \cup Note("again", iface[i].released)
    /\ Goto(i, "lock")
    /\ UNCHANGED <<claimed, lock, iface, link, rules, used>>

AskedBack(i) ==
    /\ iface[i].status = "terminating" /\ At(i, "idle")
    /\ used.setups < MaxSetups
    /\ iface' = [iface EXCEPT ![i].status = "owned"]
    /\ UNCHANGED <<claimed, lock, op, link, rules, used, seen>>

FreedAtOnce(i) == claimed \ {calculateOffsetFromIP(IPAddress(i))}
FreedWhenStamped(i) == claimed

LockAndFind(i) ==
    /\ At(i, "lock") /\ lock = None
    /\ lock' = i
    /\ claimed' = FreedWhenStamped(i)
    /\ op' = [op EXCEPT ![i] = IF link[SlotOf(i)] = None
                THEN [@ EXCEPT !.pc = "stamp"]
                ELSE [pc |-> "remove", rule |-> 1, handle |-> "live"]]
    /\ UNCHANGED <<iface, link, rules, used, seen>>

ReturnAndUnlock(i) == Return(i) /\ lock' = None

(* applyTapFirewallRules with -D: fails for a rule that is not there.      *)
Found(count) == count > 0
LastButOne == 2
LastRule == 3

RemoveRule(i) ==
    /\ At(i, "remove")
    /\ LET n == op[i].rule
           count == rules[SlotOf(i)][n]
       IN \/ /\ Found(count)
             /\ rules' = [rules EXCEPT ![SlotOf(i)][n] = @ - 1]
             /\ op' = IF n = LastRule THEN [op EXCEPT ![i].pc = "unlink"]
                      ELSE [op EXCEPT ![i].rule = n + 1]
             /\ UNCHANGED <<lock, used, seen>>
          \/ /\ count = 0 \/ CanFail
             /\ used' = [used EXCEPT !.failures = @ + IF count = 0 THEN 0 ELSE 1]
             /\ seen' = seen \cup Note("incomplete", count > 0)
             /\ ReturnAndUnlock(i)
             /\ rules' = rules
    /\ UNCHANGED <<claimed, iface, link>>

DeleteLink(i) ==
    /\ At(i, "unlink")
    /\ \/ /\ op[i].handle = "live"
          /\ link' = Unlinked(SlotOf(i))
          /\ op' = [Vanished(SlotOf(i)) EXCEPT ![i].pc = "stamp"]
          /\ UNCHANGED <<lock, used, seen>>
       \/ /\ op[i].handle = "live" => CanFail
          /\ used' = [used EXCEPT !.failures =
                        @ + IF op[i].handle = "live" THEN 1 ELSE 0]
          /\ seen' = seen \cup {"incomplete"}
          /\ ReturnAndUnlock(i)
          /\ link' = link
    /\ UNCHANGED <<claimed, iface, rules>>

(* The slot is freed and the object stamped before the row is saved; an    *)
(* object with a stamp is not saved again.                                 *)
StampReleased(i) ==
    /\ At(i, "stamp")
    /\ ReturnAndUnlock(i)
    /\ IF iface[i].released THEN UNCHANGED <<claimed, iface, used>>
       ELSE /\ claimed' = claimed \ {calculateOffsetFromIP(IPAddress(i))}
            /\ \E saves \in BOOLEAN :
                 /\ saves \/ CanFail
                 /\ IF saves THEN used' = used ELSE Fail
                 /\ iface' = [iface EXCEPT ![i].released = TRUE,
                                           ![i].saved = saves]
    /\ UNCHANGED <<link, rules, seen>>

-------------------------------------------------------------------------------
(* The agent dies; New claims the slot of every row without released_at.   *)
(* A machine that was being created has no row: nobody owns its interface. *)
Restart ==
    /\ used.restarts < MaxRestarts
    /\ used' = [used EXCEPT !.restarts = @ + 1]
    /\ iface' = [i \in Interfaces |->
                   [iface[i] EXCEPT
                      !.released = iface[i].saved,
                      !.status = IF @ = "creating" THEN "abandoned" ELSE @]]
    /\ claimed' = Reserved \cup {calculateOffsetFromIP(IPAddress(i)) : i \in
                     {j \in Interfaces : iface[j].status # "none" /\ ~iface[j].saved}}
    /\ lock' = None
    /\ op' = [i \in Interfaces |-> NoCall]
    /\ seen' = seen
         \cup Note("forgotten",
                   \E i \in Interfaces : iface[i].released /\ ~iface[i].saved)
         \cup Note("incomplete", \E i \in Interfaces : ~At(i, "idle"))
    /\ UNCHANGED <<link, rules>>

-------------------------------------------------------------------------------
Setup(i) == DeleteExistingTap(i) \/ SetupFails(i) \/ AddTap(i) \/ AppendRule(i)
Release(i) == LockAndFind(i) \/ RemoveRule(i) \/ DeleteLink(i) \/ StampReleased(i)

Next ==
    \/ \E i \in Interfaces :
         \/ AllocateInterface(i) \/ CreateMachine(i) \/ AbandonMachine(i)
         \/ SetupInterface(i) \/ ReleaseInterface(i) \/ ReleaseAgain(i)
         \/ AskedBack(i)
         \/ Setup(i) \/ Release(i)
    \/ Restart

Spec == Init /\ [][Next]_vars

(* A call that runs goes on; the mutex is fair to one that waits (Go hands *)
(* it over after a millisecond); the controller retries a release until it *)
(* succeeds.  Nothing obliges a call to fail or a machine to be wanted.    *)
FairSpec ==
    /\ Spec
    /\ \A i \in Interfaces :
         /\ WF_vars(Setup(i)) /\ SF_vars(LockAndFind(i)) /\ WF_vars(Release(i))
         /\ WF_vars(~iface[i].released /\ ReleaseAgain(i))

-------------------------------------------------------------------------------
(* Properties.                                                             *)

Row == [status : {"none", "creating", "owned", "terminating", "abandoned"},
        slot : Slots, released : BOOLEAN, saved : BOOLEAN,
        up : {"never", "partly", "up"}]
Call == [pc : {"idle", "replace", "add", "append", "lock", "remove", "unlink",
               "stamp"},
         rule : Rules, handle : {"none", "live", "gone"}]

(* Every variable keeps to its type; no rule is removed that is not there. *)
TypeOK ==
    /\ claimed \subseteq Slots
    /\ lock \in Interfaces \cup {None}
    /\ iface \in [Interfaces -> Row]
    /\ op \in [Interfaces -> Call]
    /\ link \in [Slots -> Interfaces \cup {None}]
    /\ rules \in [Slots -> [Rules -> Nat]]
    /\ used \in [setups : Nat, failures : Nat, restarts : Nat]
    /\ seen \subseteq History

Never(events) == seen \cap events = {}
Holds(i) == iface[i].status # "none" /\ ~iface[i].released
Unused(s) == \A i \in Interfaces : SlotOf(i) = s => At(i, "idle") /\ ~Holds(i)
AllRules(s) == \A t \in Rules : rules[s][t] > 0

(* The table and the rows agree, and no two interfaces hold one address,   *)
(* until the agent restarts after it could not save a release (lines 33-35 *)
(* of release_interface.go).                                               *)
SlotsMatchRows ==
    Never({"forgotten"}) =>
      /\ claimed = Reserved \cup {SlotOf(i) : i \in {j \in Interfaces : Holds(j)}}
      /\ \A i, j \in Interfaces :
           Holds(i) /\ Holds(j) /\ SlotOf(i) = SlotOf(j) => i = j
      /\ \A i \in Interfaces : Holds(i) => SlotOf(i) \notin Reserved

(* An interface that was set up keeps its tap and its rules until its own  *)
(* release, although links are found by name: a foreign call needs an      *)
(* interface released twice, set up after its release, or forgotten.       *)
SetUpStaysUp ==
    Never({"forgotten", "again", "reused"}) =>
      \A i \in Interfaces :
        iface[i].up = "up" =>
          /\ link[SlotOf(i)] = i
          /\ AllRules(SlotOf(i))

(* Nothing is left of a tap whose address is free again, unless it had     *)
(* been set up twice (every setup appends the rules, a release deletes one *)
(* of each) or a call ended half way.                                      *)
FreeSlotIsClean ==
    Never({"forgotten", "again", "reused", "repeated", "incomplete"}) =>
      \A s \in Slots :
        Unused(s) => link[s] = None /\ \A t \in Rules : rules[s][t] = 0

(* A release that is retried succeeds, unless a setup or a release ended   *)
(* half way, or somebody else's call had the same tap.                     *)
ReleaseSucceeds ==
    \A i \in Interfaces :
      iface[i].status = "terminating"
        ~> \/ iface[i].released \/ iface[i].status = "owned"
           \/ ~Never({"forgotten", "again", "reused", "incomplete"})
================================================================================
