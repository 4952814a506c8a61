--------------------------- MODULE RuntimeLifeProofs ---------------------------
(***************************************************************************)
(* Proofs about RuntimeLife, for any number of launches and failures: its  *)
(* type invariant, that no two machines run, what a graceful end leaves    *)
(* behind, and what becomes of a launch that met a hypervisor.             *)
(***************************************************************************)
EXTENDS RuntimeLife, FiniteSetTheorems, TLAPS

(* Every step of the module is one of these.                               *)
LEMMA StepCases ==
    ASSUME [Next]_vars
    PROVE  \/ Launch \/ Killed \/ Terminated \/ TimePasses \/ Observe
           \/ Prepare \/ CheckSocket \/ StopFound \/ StartHypervisor \/ Ping
           \/ CreateVM \/ BootVM \/ WaitHypervisor
           \/ SeesReturn \/ ShutdownServer \/ TerminateVM \/ ForceStop \/ StopLogs
           \/ Dial \/ DialerStops
           \/ \E g \in Launches : Bind(g) \/ VmmDies(g)
           \/ UNCHANGED vars
  BY DEF Next, Starts, Main

-------------------------------------------------------------------------------
(* The type invariant.                                                     *)

Vmm == [process : {"none", "starting", "listening", "refusing", "dead"},
        vm : {"none", "created", "running"}]

(* With the types goes that there is a launch whenever main or Start is    *)
(* anywhere: the hypervisor of `launch' is one of vmm.                     *)
Launched == /\ main # "exited" => launch \in Launches
            /\ start # "none" => launch \in Launches

LEMMA InitialType ==
    ASSUME Init PROVE TypeOK /\ Launched
  <1>1. NoVmm \in Vmm /\ 0 \in 0..MaxLaunches /\ 0 \in Nat
    BY RuntimeLifeAssumption DEF NoVmm, Vmm
  <1>2. vmm \in [Launches -> Vmm]
    BY <1>1 DEF Init
  <1> QED BY <1>1, <1>2 DEF Init, TypeOK, Launched, Nobody, Vmm

DeadVmm == [process |-> "dead", vm |-> "none"]

(* Hypervisors that die leave the others as they are.                      *)
LEMMA DeadType ==
    ASSUME TypeOK, NEW gs
    PROVE  /\ Dead(gs) \in [Launches -> Vmm]
           /\ \A g \in Launches : g \notin gs => Dead(gs)[g] = vmm[g]
           /\ \A g \in Launches : g \in gs =>
                \/ Dead(gs)[g] = vmm[g] /\ vmm[g].process = "none"
                \/ Dead(gs)[g] = DeadVmm /\ vmm[g].process # "none"
  BY DEF TypeOK, Dead, Vmm, DeadVmm

(* What stopHypervisor does: nothing, or it ends the launch's own          *)
(* hypervisor and the one that listens, or that one answers and stays; in  *)
(* both of these the files are gone.                                       *)
LEMMA StopCases ==
    ASSUME TypeOK, NEW late \in BOOLEAN, NEW failed \in BOOLEAN,
           StopHypervisor(late, failed)
    PROVE  /\ faults' \in Nat
           /\ vmm' \in [Launches -> Vmm]
           /\ \/ failed /\ UNCHANGED <<vmm, socket, ramfs>>
              \/ /\ ~failed /\ (Missing \/ Answers)
                 /\ socket' = Nobody /\ ramfs' = FALSE
                 /\ \A g \in Launches :
                      \/ g \notin {launch, socket} /\ vmm'[g] = vmm[g]
                      \/ vmm'[g] = vmm[g] /\ vmm[g].process = "none"
                      \/ vmm'[g] = DeadVmm /\ vmm[g].process # "none"
                      \/ /\ g = socket /\ g # launch
                         /\ vmm[g].process # "none" /\ vmm'[g].process = "refusing"
  <1>1. CASE failed
    BY <1>1, RuntimeLifeAssumption DEF StopHypervisor, NoFault, Fault, TypeOK, Vmm
  <1>2. CASE ~failed /\ vmm' = Dead(Stopped) /\ NoFault
    <2> DEFINE dead == Dead(Stopped)
    <2>1. /\ dead \in [Launches -> Vmm] /\ vmm' = dead
          /\ \A g \in Launches : g \notin {launch, socket} => dead[g] = vmm[g]
          /\ \A g \in Launches : g \in {launch, socket} =>
               \/ dead[g] = vmm[g] /\ vmm[g].process = "none"
               \/ dead[g] = DeadVmm /\ vmm[g].process # "none"
      BY <1>2, DeadType DEF Stopped
    <2> HIDE DEF dead
    <2> QED BY <1>2, <2>1 DEF StopHypervisor, NoFault, TypeOK, RamfsAfterStop
  <1>3. CASE /\ ~failed /\ Answers /\ socket # launch /\ Fault
             /\ vmm' = [Dead({launch}) EXCEPT ![socket].process = "refusing"]
    <2> DEFINE dead == Dead({launch})
    <2>1. /\ dead \in [Launches -> Vmm]
          /\ \A g \in Launches : g # launch => dead[g] = vmm[g]
          /\ launch \in Launches =>
               \/ dead[launch] = vmm[launch] /\ vmm[launch].process = "none"
               \/ dead[launch] = DeadVmm /\ vmm[launch].process # "none"
      BY DeadType
    <2>2. vmm' = [dead EXCEPT ![socket] = [@ EXCEPT !.process = "refusing"]]
      BY <1>3
    <2> HIDE DEF dead
    <2>3. \A g \in Launches : [dead[g] EXCEPT !.process = "refusing"] \in Vmm
      BY <2>1 DEF Vmm
    <2>4. \A g \in Launches : [dead[g] EXCEPT !.process = "refusing"].process = "refusing"
      BY <2>1 DEF Vmm
    <2>5. /\ vmm' \in [Launches -> Vmm]
          /\ \A g \in Launches \ {socket} : vmm'[g] = dead[g]
          /\ socket \in Launches => vmm'[socket].process = "refusing"
      BY <2>1, <2>2, <2>3, <2>4
    <2>6. faults' \in Nat /\ socket' = Nobody /\ ramfs' = FALSE
      BY <1>3 DEF StopHypervisor, Fault, TypeOK, RamfsAfterStop
    <2>7. ~failed /\ Answers /\ socket # launch
      BY <1>3, Zenon
    <2>8. vmm[socket].process # "none"
      BY <2>7 DEF Answers
    <2> QED BY <2>1, <2>5, <2>6, <2>7, <2>8
  <1> QED BY <1>1, <1>2, <1>3 DEF StopHypervisor

(* A fault is counted, or there is none.                                   *)
LEMMA FaultsType ==
    ASSUME TypeOK, Fault \/ NoFault
    PROVE  faults' \in Nat
  <1>1. faults \in Nat
    BY DEF TypeOK
  <1> QED BY <1>1 DEF Fault, NoFault

(* Every step keeps the type invariant.                                    *)
LEMMA StepType ==
    ASSUME TypeOK, Launched, [Next]_vars
    PROVE  TypeOK' /\ Launched'
  <1> USE DEF Launched
  <1>1. ASSUME Launch PROVE TypeOK' /\ Launched'
    <2>1. launch' \in Launches /\ launch' \in 0..MaxLaunches
      BY <1>1, RuntimeLifeAssumption DEF Launch, Launches, TypeOK
    <2> QED BY <1>1, <2>1 DEF Launch, TypeOK
  <1>2. ASSUME Killed PROVE TypeOK' /\ Launched'
    <2>1. faults' \in Nat
      BY <1>2, FaultsType DEF Killed, NoFault
    <2> QED BY <1>2, <2>1 DEF Killed, TypeOK, Exit
  <1>3. ASSUME Terminated PROVE TypeOK' /\ Launched'
    BY <1>3 DEF Terminated, TypeOK
  <1>4. ASSUME TimePasses PROVE TypeOK' /\ Launched'
    BY <1>4 DEF TimePasses, TypeOK
  <1>5. ASSUME Observe PROVE TypeOK' /\ Launched'
    BY <1>5 DEF Observe, TypeOK
  <1>6. ASSUME Prepare PROVE TypeOK' /\ Launched'
    <2>1. faults' \in Nat
      BY <1>6, FaultsType DEF Prepare, NoFault
    <2>2. /\ start # "none" /\ ramfs' \in {ramfs, TRUE}
          /\ start' \in {"logManager", "initRamFS", "stale", "unserved", "failed"}
      BY <1>6 DEF Prepare, StartReturns
    <2>3. /\ launch' = launch /\ main' = main /\ code' = code /\ observed' = observed
          /\ expired' = expired /\ dialer' = dialer /\ vmm' = vmm /\ socket' = socket
          /\ seen' = seen
      BY <1>6 DEF Prepare
    <2>4. TypeOK'
      <3>1. ramfs' \in BOOLEAN
        BY <2>2 DEF TypeOK
      <3> QED BY <2>1, <2>2, <2>3, <3>1 DEF TypeOK
    <2> QED BY <2>2, <2>3, <2>4 DEF Launched
  <1>7. ASSUME CheckSocket PROVE TypeOK' /\ Launched'
    BY <1>7 DEF CheckSocket, TypeOK
  <1>8. ASSUME StopFound PROVE TypeOK' /\ Launched'
    <2>1. PICK failed \in BOOLEAN : StopHypervisor(FALSE, failed)
      BY <1>8 DEF StopFound
    <2>2. FALSE \in BOOLEAN
      BY DEF TypeOK
    <2>3. /\ faults' \in Nat /\ vmm' \in [Launches -> Vmm]
          /\ UNCHANGED <<socket, ramfs>> \/ (socket' = Nobody /\ ramfs' = FALSE)
      BY <2>1, <2>2, StopCases
    <2>4. socket' \in 0..MaxLaunches
      BY <1>8, <2>3, RuntimeLifeAssumption DEF StopFound, TypeOK, Nobody
    <2> QED BY <1>8, <2>3, <2>4 DEF StopFound, TypeOK, Vmm
  <1>9. ASSUME StartHypervisor PROVE TypeOK' /\ Launched'
    <2>1. vmm' \in [Launches -> Vmm]
      <3>1. vmm' \in {vmm, [vmm EXCEPT ![launch].process = "starting"]}
        BY <1>9 DEF StartHypervisor
      <3> QED BY <3>1 DEF TypeOK, Vmm
    <2>2. faults' \in Nat
      BY <1>9, FaultsType DEF StartHypervisor, NoFault
    <2> QED BY <1>9, <2>1, <2>2 DEF StartHypervisor, TypeOK, StartReturns, Vmm
  <1>10. ASSUME Ping PROVE TypeOK' /\ Launched'
    <2>1. vmm' \in [Launches -> Vmm]
      <3>1. vmm' \in {vmm, Dead({launch})}
        BY <1>10 DEF Ping
      <3> QED BY <3>1, DeadType DEF TypeOK, Vmm
    <2>2. socket' \in 0..MaxLaunches
      <3>1. socket' \in {socket, 0}
        BY <1>10, Zenon DEF Ping, Nobody
      <3> QED BY <3>1, RuntimeLifeAssumption DEF TypeOK
    <2> QED BY <1>10, <2>1, <2>2 DEF Ping, TypeOK, StartReturns, Vmm
  <1>11. ASSUME CreateVM PROVE TypeOK' /\ Launched'
    <2>1. vmm' \in [Launches -> Vmm]
      <3>1. \/ vmm' = vmm
            \/ \E v \in {"none", "created", "running"} :
                 vmm' = [vmm EXCEPT ![socket] = [@ EXCEPT !.vm = v]]
        <4>1. \/ vmm' = vmm
              \/ vmm' = [vmm EXCEPT ![socket].vm = IF @ = "none" THEN "created" ELSE @]
          BY <1>11 DEF CreateVM
        <4>2. socket \in Launches \/ (socket \notin Launches /\ DOMAIN vmm = Launches)
          BY DEF TypeOK
        <4> QED BY <4>1, <4>2 DEF TypeOK
      <3> QED BY <3>1 DEF TypeOK, Vmm
    <2> QED BY <1>11, <2>1 DEF CreateVM, TypeOK, StartReturns, Vmm
  <1>12. ASSUME BootVM PROVE TypeOK' /\ Launched'
    <2>1. vmm' \in [Launches -> Vmm]
      <3>1. vmm \in [Launches -> Vmm]
        BY DEF TypeOK, Vmm
      <3>2. vmm' = vmm \/ vmm' = [vmm EXCEPT ![socket].vm = "running"]
        BY <1>12 DEF BootVM
      <3> QED BY <3>1, <3>2 DEF Vmm
    <2> QED BY <1>12, <2>1 DEF BootVM, TypeOK, StartReturns, Vmm
  <1>13. ASSUME WaitHypervisor PROVE TypeOK' /\ Launched'
    BY <1>13 DEF WaitHypervisor, TypeOK, StartReturns
  <1>14. ASSUME SeesReturn PROVE TypeOK' /\ Launched'
    BY <1>14 DEF SeesReturn, TypeOK, Exit
  <1>15. ASSUME ShutdownServer PROVE TypeOK' /\ Launched'
    BY <1>15 DEF ShutdownServer, TypeOK, GoOn
  <1>16. ASSUME TerminateVM PROVE TypeOK' /\ Launched'
    <2>1. vmm' \in [Launches -> Vmm]
      BY <1>16 DEF TerminateVM, TypeOK, Vmm
    <2>2. faults' \in Nat
      BY <1>16, FaultsType DEF TerminateVM, NoFault
    <2>3. /\ launch' = launch /\ socket' = socket /\ ramfs' = ramfs /\ seen' = seen
          /\ main # "exited"
          /\ \/ /\ main' = "force" /\ start' = start /\ code' = code
                /\ observed' = observed /\ expired' = expired /\ dialer' = dialer
             \/ /\ main' = "exited" /\ start' = "none" /\ code' = 1
                /\ dialer' = "off" /\ observed' = FALSE /\ expired' = FALSE
      BY <1>16 DEF TerminateVM, Exit, GoOn
    <2>4. TypeOK'
      <3>1. /\ main' \in {"force", "exited"} /\ start' \in {start, "none"}
            /\ code' \in {code, 1} /\ dialer' \in {dialer, "off"}
            /\ observed' \in {observed, FALSE} /\ expired' \in {expired, FALSE}
        BY <2>3
      <3>2. observed' \in BOOLEAN /\ expired' \in BOOLEAN
        BY <3>1 DEF TypeOK
      <3> QED BY <2>1, <2>2, <2>3, <3>1, <3>2 DEF TypeOK, Vmm
    <2> QED BY <2>3, <2>4 DEF Launched
  <1>17. ASSUME ForceStop PROVE TypeOK' /\ Launched'
    <2>1. PICK failed \in BOOLEAN : StopHypervisor(expired, failed)
      BY <1>17 DEF ForceStop
    <2>2. expired \in BOOLEAN
      BY DEF TypeOK
    <2>3. /\ faults' \in Nat /\ vmm' \in [Launches -> Vmm]
          /\ UNCHANGED <<socket, ramfs>> \/ (socket' = Nobody /\ ramfs' = FALSE)
      BY <2>1, <2>2, StopCases
    <2>4. socket' \in 0..MaxLaunches
      BY <1>17, <2>3, RuntimeLifeAssumption DEF ForceStop, TypeOK, Nobody
    <2>5. \/ Exit(1) \/ Exit(2) \/ GoOn("logs")
      BY <1>17 DEF ForceStop
    <2>6. /\ launch' = launch /\ seen' = seen /\ main # "exited"
          /\ \/ /\ main' = "logs" /\ start' = start /\ code' = code
                /\ observed' = observed /\ expired' = expired /\ dialer' = dialer
             \/ /\ main' = "exited" /\ start' = "none" /\ code' \in {1, 2}
                /\ dialer' = "off" /\ observed' = FALSE /\ expired' = FALSE
      BY <1>17, <2>5 DEF ForceStop, Exit, GoOn
    <2>7. ramfs' \in BOOLEAN
      BY <2>3 DEF TypeOK
    <2>8. TypeOK'
      BY <2>3, <2>4, <2>6, <2>7 DEF TypeOK, Vmm
    <2> QED BY <2>6, <2>8 DEF Launched
  <1>18. ASSUME StopLogs PROVE TypeOK' /\ Launched'
    BY <1>18 DEF StopLogs, TypeOK, Exit
  <1>19. ASSUME Dial PROVE TypeOK' /\ Launched'
    BY <1>19 DEF Dial, TypeOK
  <1>20. ASSUME DialerStops PROVE TypeOK' /\ Launched'
    BY <1>20 DEF DialerStops, TypeOK, MayCancel
  <1>21. ASSUME NEW g \in Launches, Bind(g) PROVE TypeOK' /\ Launched'
    <2>1. vmm' \in [Launches -> Vmm]
      BY <1>21 DEF Bind, TypeOK, Vmm
    <2>2. socket' \in 0..MaxLaunches
      BY <1>21 DEF Bind, TypeOK, Launches
    <2>3. faults' \in Nat
      BY <1>21, FaultsType DEF Bind, NoFault
    <2> QED BY <1>21, <2>1, <2>2, <2>3 DEF Bind, TypeOK, Vmm
  <1>22. ASSUME NEW g \in Launches, VmmDies(g) PROVE TypeOK' /\ Launched'
    <2>1. vmm' \in [Launches -> Vmm]
      BY <1>22 DEF VmmDies, TypeOK, Vmm
    <2>2. socket' \in 0..MaxLaunches
      BY <1>22 DEF VmmDies, TypeOK, Launches
    <2>3. faults' \in Nat
      BY <1>22, FaultsType DEF VmmDies, NoFault
    <2> QED BY <1>22, <2>1, <2>2, <2>3 DEF VmmDies, TypeOK, Vmm
  <1>23. ASSUME UNCHANGED vars PROVE TypeOK' /\ Launched'
    BY <1>23 DEF vars, TypeOK
  <1> QED BY StepCases, <1>1, <1>2, <1>3, <1>4, <1>5, <1>6, <1>7, <1>8, <1>9, <1>10, <1>11, <1>12,
     <1>13, <1>14, <1>15, <1>16, <1>17, <1>18, <1>19, <1>20, <1>21, <1>22, <1>23

(* Every variable keeps to its type, however often the runtime is launched *)
(* and whatever fails (vmruntime/main.go, runtime.go and vmm.go).          *)
THEOREM RuntimeTypeCorrect == Spec => []TypeOK
  <1>1. Init => TypeOK /\ Launched
    BY InitialType
  <1>2. TypeOK /\ Launched /\ [Next]_vars => (TypeOK /\ Launched)'
    BY StepType
  <1> QED BY <1>1, <1>2, PTL DEF Spec

-------------------------------------------------------------------------------
(* Who owns the socket.                                                    *)

(* A launch has no hypervisor before Start spawned it; only the owner of   *)
(* the socket listens, there is none without a file, and a machine is one  *)
(* of a hypervisor that has listened.                                      *)
Before == {"server", "logManager", "initRamFS", "stale", "found", "spawn", "unserved"}
NotSpawned == \A g \in Launches :
                g > launch \/ (g = launch /\ start \in Before) => vmm[g] = NoVmm
OwnerListens == \A g \in Launches : vmm[g].process = "listening" => socket = g
MachinesListened == \A g \in Launches :
                      vmm[g].vm # "none" => vmm[g].process \notin {"none", "starting"}
FileHasOwner == socket \in Launches => vmm[socket].process # "none"
OwnerInv == NotSpawned /\ OwnerListens /\ MachinesListened /\ FileHasOwner

LEMMA InitialOwner ==
    ASSUME Init PROVE OwnerInv
  BY DEF Init, OwnerInv, NotSpawned, OwnerListens, MachinesListened, FileHasOwner,
     NoVmm, Nobody, Launches

(* A step that spawns nothing keeps the owner if it leaves hypervisors and *)
(* socket alone, and stopHypervisor does: nobody is owner, nobody listens. *)
LEMMA SameOwner ==
    ASSUME OwnerInv, UNCHANGED <<launch, vmm, socket>>,
           start' \in Before => start \in Before
    PROVE  OwnerInv'
  BY DEF OwnerInv, NotSpawned, OwnerListens, MachinesListened, FileHasOwner

LEMMA StopKeepsOwner ==
    ASSUME TypeOK, OwnerInv, NEW late \in BOOLEAN, NEW failed \in BOOLEAN,
           StopHypervisor(late, failed), launch' = launch,
           start' \in Before => start \in Before
    PROVE  OwnerInv'
  <1>1. CASE failed
    BY <1>1, StopCases, SameOwner
  <1>2. CASE ~failed
    <2>1. /\ socket' = Nobody /\ vmm' \in [Launches -> Vmm]
          /\ \A g \in Launches :
                      \/ g \notin {launch, socket} /\ vmm'[g] = vmm[g]
                      \/ vmm'[g] = vmm[g] /\ vmm[g].process = "none"
                      \/ vmm'[g] = DeadVmm /\ vmm[g].process # "none"
                      \/ /\ g = socket /\ g # launch
                         /\ vmm[g].process # "none" /\ vmm'[g].process = "refusing"
      BY <1>2, StopCases
    <2>2. OwnerListens' /\ MachinesListened'
      BY <2>1 DEF OwnerInv, OwnerListens, MachinesListened, DeadVmm
    <2>3. NotSpawned'
      BY <2>1 DEF OwnerInv, NotSpawned, NoVmm
    <2>4. FileHasOwner'
      BY <2>1 DEF FileHasOwner, Nobody, Launches
    <2> QED BY <2>2, <2>3, <2>4 DEF OwnerInv
  <1> QED BY <1>1, <1>2

(* The owner's machine may change: it listens.                             *)
LEMMA OwnersMachine ==
    ASSUME TypeOK, OwnerInv, Answers, UNCHANGED <<launch, socket>>,
           NEW v \in {"none", "created", "running"},
           vmm' = [vmm EXCEPT ![socket] = [@ EXCEPT !.vm = v]],
           start' \in Before => start \in Before
    PROVE  OwnerInv'
  <1>1. socket \in Launches /\ vmm[socket].process = "listening"
    BY DEF Answers, Missing, Nobody, TypeOK, Launches
  <1>2. /\ \A g \in Launches : vmm'[g].process = vmm[g].process
        /\ \A g \in Launches \ {socket} : vmm'[g] = vmm[g]
    BY DEF TypeOK
  <1>3. vmm[socket] # NoVmm
    BY <1>1 DEF NoVmm
  <1>4. NotSpawned'
    BY <1>1, <1>2, <1>3 DEF OwnerInv, NotSpawned
  <1>5. MachinesListened'
    BY <1>1, <1>2 DEF OwnerInv, MachinesListened
  <1> QED BY <1>1, <1>2, <1>4, <1>5 DEF OwnerInv, OwnerListens, FileHasOwner

(* Every step keeps the owner.                                             *)
LEMMA StepOwner ==
    ASSUME TypeOK, Launched, OwnerInv, [Next]_vars
    PROVE  OwnerInv'
  <1>1. ASSUME Launch PROVE OwnerInv'
    <2>1. NotSpawned'
      BY <1>1 DEF Launch, NotSpawned, OwnerInv, TypeOK, Launches
    <2> QED BY <1>1, <2>1 DEF Launch, OwnerInv, OwnerListens, MachinesListened, FileHasOwner
  <1>2. ASSUME Killed PROVE OwnerInv'
    BY <1>2, SameOwner DEF Killed, Before, Exit
  <1>3. ASSUME Terminated PROVE OwnerInv'
    BY <1>3, SameOwner DEF Terminated, Before
  <1>4. ASSUME TimePasses PROVE OwnerInv'
    BY <1>4, SameOwner DEF TimePasses, Before
  <1>5. ASSUME Observe PROVE OwnerInv'
    BY <1>5, SameOwner DEF Observe, Before
  <1>6. ASSUME Prepare PROVE OwnerInv'
    BY <1>6, SameOwner DEF Prepare, Before, StartReturns
  <1>7. ASSUME CheckSocket PROVE OwnerInv'
    BY <1>7, SameOwner DEF CheckSocket, Before
  <1>8. ASSUME WaitHypervisor PROVE OwnerInv'
    BY <1>8, SameOwner DEF WaitHypervisor, Before, StartReturns
  <1>9. ASSUME SeesReturn PROVE OwnerInv'
    BY <1>9, SameOwner DEF SeesReturn, Before, Exit
  <1>10. ASSUME ShutdownServer PROVE OwnerInv'
    BY <1>10, SameOwner DEF ShutdownServer, Before, GoOn
  <1>11. ASSUME StopLogs PROVE OwnerInv'
    BY <1>11, SameOwner DEF StopLogs, Before, Exit
  <1>12. ASSUME Dial PROVE OwnerInv'
    BY <1>12, SameOwner DEF Dial, Before
  <1>13. ASSUME DialerStops PROVE OwnerInv'
    BY <1>13, SameOwner DEF DialerStops, Before
  <1>14. ASSUME StopFound PROVE OwnerInv'
    <2>1. PICK failed \in BOOLEAN : StopHypervisor(FALSE, failed)
      BY <1>14 DEF StopFound
    <2> QED BY <1>14, <2>1, StopKeepsOwner DEF StopFound, Before
  <1>15. ASSUME ForceStop PROVE OwnerInv'
    <2>1. PICK failed \in BOOLEAN : StopHypervisor(expired, failed)
      BY <1>15 DEF ForceStop
    <2>2. expired \in BOOLEAN
      BY DEF TypeOK
    <2>3. launch' = launch /\ (start' \in Before => start \in Before)
      BY <1>15 DEF ForceStop, Exit, GoOn, Before
    <2> QED BY <2>1, <2>2, <2>3, StopKeepsOwner
  <1>16. ASSUME StartHypervisor PROVE OwnerInv'
    <2>1. CASE vmm' = vmm
      BY <1>16, <2>1, SameOwner DEF StartHypervisor, Before
    <2>2. CASE start' = "ping" /\ vmm' = [vmm EXCEPT ![launch].process = "starting"]
      <3>1. start \in Before /\ launch \in Launches
        BY <1>16 DEF StartHypervisor, Before, Launched
      <3>2. vmm[launch] = NoVmm
        BY <3>1 DEF OwnerInv, NotSpawned
      <3>3. /\ vmm'[launch].process = "starting" /\ vmm'[launch].vm = "none"
            /\ \A g \in Launches \ {launch} : vmm'[g] = vmm[g]
        BY <2>2, <3>1, <3>2 DEF TypeOK, NoVmm
      <3>4. UNCHANGED <<launch, socket>>
        BY <1>16 DEF StartHypervisor
      <3>5. NotSpawned'
        BY <2>2, <3>3, <3>4 DEF OwnerInv, NotSpawned, Before, TypeOK, Launches
      <3> QED
        BY <3>3, <3>4, <3>5 DEF OwnerInv, OwnerListens, MachinesListened, FileHasOwner
    <2> QED BY <1>16, <2>1, <2>2 DEF StartHypervisor
  <1>17. ASSUME Ping PROVE OwnerInv'
    <2>1. CASE UNCHANGED <<vmm, socket>>
      BY <1>17, <2>1, SameOwner DEF Ping, Before, StartReturns
    <2>2. CASE ~Answers /\ vmm' = Dead({launch}) /\ socket' = Nobody
      <3>1. /\ \A g \in Launches : \/ vmm'[g] = vmm[g]
                                   \/ vmm'[g] = DeadVmm /\ vmm[g].process # "none"
        BY <2>2, DeadType
      <3>2. \A g \in Launches : vmm[g].process # "listening"
        BY <2>2 DEF OwnerInv, OwnerListens, Answers, Missing, Nobody, Launches
      <3>3. launch' = launch /\ start \notin Before /\ start' \notin Before
        BY <1>17 DEF Ping, Before, StartReturns
      <3>4. NotSpawned'
        BY <3>1, <3>3 DEF OwnerInv, NotSpawned, NoVmm
      <3>5. OwnerListens' /\ MachinesListened'
        BY <3>1, <3>2 DEF OwnerInv, OwnerListens, MachinesListened, DeadVmm
      <3>6. FileHasOwner'
        BY <2>2 DEF FileHasOwner, Nobody, Launches
      <3> QED BY <3>4, <3>5, <3>6 DEF OwnerInv
    <2> QED BY <1>17, <2>1, <2>2 DEF Ping
  <1>18. ASSUME CreateVM PROVE OwnerInv'
    <2>1. UNCHANGED <<launch, socket>> /\ (start' \in Before => start \in Before)
      BY <1>18 DEF CreateVM, Before, StartReturns
    <2>2. CASE vmm' = vmm
      BY <2>1, <2>2, SameOwner
    <2>3. CASE Answers /\ vmm' = [vmm EXCEPT ![socket].vm =
                                     IF @ = "none" THEN "created" ELSE @]
      <3>1. socket \in Launches
        BY <2>3 DEF Answers, Missing, Nobody, TypeOK, Launches
      <3>2. PICK v \in {"none", "created", "running"} :
              vmm' = [vmm EXCEPT ![socket] = [@ EXCEPT !.vm = v]]
        BY <2>3, <3>1 DEF TypeOK
      <3> QED BY <2>1, <2>3, <3>2, OwnersMachine
    <2> QED BY <1>18, <2>2, <2>3 DEF CreateVM
  <1>19. ASSUME BootVM PROVE OwnerInv'
    <2>1. UNCHANGED <<launch, socket>> /\ (start' \in Before => start \in Before)
      BY <1>19 DEF BootVM, Before, StartReturns
    <2>2. CASE vmm' = vmm
      BY <2>1, <2>2, SameOwner
    <2>3. CASE Answers /\ vmm' = [vmm EXCEPT ![socket].vm = "running"]
      BY <2>1, <2>3, OwnersMachine
    <2> QED BY <1>19, <2>2, <2>3 DEF BootVM
  <1>20. ASSUME TerminateVM PROVE OwnerInv'
    <2>1. UNCHANGED <<launch, socket>> /\ (start' \in Before => start \in Before)
      BY <1>20 DEF TerminateVM, Before, GoOn, Exit
    <2>2. CASE vmm' = vmm
      BY <2>1, <2>2, SameOwner
    <2>3. CASE Answers /\ vmm' = [vmm EXCEPT ![socket].vm = "none"]
      BY <2>1, <2>3, OwnersMachine
    <2> QED BY <1>20, <2>2, <2>3 DEF TerminateVM
  <1>21. ASSUME NEW h \in Launches, Bind(h) PROVE OwnerInv'
    <2>1. vmm[h].process = "starting" /\ UNCHANGED <<launch, start>>
      BY <1>21 DEF Bind
    <2>2. /\ vmm' \in [Launches -> Vmm]
          /\ \A g \in Launches \ {h} : vmm'[g] = vmm[g]
          /\ vmm'[h].process = IF Missing THEN "listening" ELSE "dead"
          /\ socket' = IF Missing THEN h ELSE socket
      BY <1>21 DEF Bind, TypeOK, Vmm
    <2>3. Missing => \A g \in Launches : vmm[g].process # "listening"
      BY DEF Missing, Nobody, OwnerInv, OwnerListens, Launches
    <2>4. NotSpawned'
      BY <2>1, <2>2 DEF OwnerInv, NotSpawned, NoVmm
    <2>5. OwnerListens'
      BY <2>2, <2>3 DEF OwnerInv, OwnerListens
    <2>6. MachinesListened' /\ FileHasOwner'
      BY <2>1, <2>2 DEF OwnerInv, MachinesListened, FileHasOwner
    <2> QED BY <2>4, <2>5, <2>6 DEF OwnerInv
  <1>22. ASSUME NEW h \in Launches, VmmDies(h) PROVE OwnerInv'
    <2>1. /\ vmm[h].process # "none" /\ UNCHANGED <<launch, start, socket>>
          /\ vmm' = [vmm EXCEPT ![h] = DeadVmm]
      BY <1>22 DEF VmmDies, Alive, DeadVmm
    <2> QED
      BY <2>1 DEF OwnerInv, NotSpawned, OwnerListens, MachinesListened, FileHasOwner,
         NoVmm, DeadVmm, TypeOK
  <1>23. ASSUME UNCHANGED vars PROVE OwnerInv'
    BY <1>23, SameOwner DEF vars
  <1> QED BY StepCases, <1>1, <1>2, <1>3, <1>4, <1>5, <1>6, <1>7, <1>8, <1>9, <1>10,
     <1>11, <1>12, <1>13, <1>14, <1>15, <1>16, <1>17, <1>18, <1>19, <1>20, <1>21, <1>22, <1>23

(* Whoever runs a machine owns the socket.                                 *)
LEMMA OwnerRunsMachine ==
    ASSUME TypeOK, OwnerInv PROVE OneMachine
  <1> DEFINE running == {g \in Alive : vmm[g].vm = "running"}
  <1>1. running \subseteq {socket}
    BY DEF OwnerInv, OwnerListens, MachinesListened, Alive
  <1>2. IsFiniteSet({socket}) /\ Cardinality({socket}) = 1
    BY FS_Singleton
  <1>3. Cardinality(running) <= Cardinality({socket})
    BY <1>1, <1>2, FS_Subset
  <1> QED BY <1>2, <1>3 DEF OneMachine

(* No two machines run on the same volumes, however often the runtime is   *)
(* launched, killed or told to stop, and whichever calls fail: a           *)
(* hypervisor gets the socket only when nobody else listens, and a machine *)
(* is booted only over the socket (vmm.go).                                *)
THEOREM OneMachineCorrect == Spec => []OneMachine
  <1>1. Init => TypeOK /\ Launched /\ OwnerInv
    BY InitialType, InitialOwner
  <1>2. TypeOK /\ Launched /\ OwnerInv /\ [Next]_vars => (TypeOK /\ Launched /\ OwnerInv)'
    BY StepType, StepOwner
  <1>3. TypeOK /\ OwnerInv => OneMachine
    BY OwnerRunsMachine
  <1> QED BY <1>1, <1>2, <1>3, PTL DEF Spec

-------------------------------------------------------------------------------
(* What a graceful end leaves behind.                                      *)

(* Start ends well only after its hypervisor; Stop gets past the machine   *)
(* before Start has spawned one only by ending somebody else's; and past   *)
(* the hypervisors the own one is gone, or was started late.               *)
EndedIsDead == start = "ended" => launch \notin Alive
ForcedEarly == main \in {"force", "logs"} /\ start \in Before => launch > 1
LogsLate == main = "logs" /\ launch \in Alive => "late" \in seen /\ launch > 1
ExitEndsStart == main = "exited" => start = "none"
GracefulInv ==
    EndedIsDead /\ ForcedEarly /\ LogsLate /\ ExitEndsStart /\ GracefulMeansStopped

LEMMA InitialGraceful ==
    ASSUME Init PROVE GracefulInv
  BY DEF Init, GracefulInv, EndedIsDead, ForcedEarly, LogsLate, ExitEndsStart,
     GracefulMeansStopped, Alive, Launches

(* Only StartHypervisor gives a launch a hypervisor, and only Launch       *)
(* begins another one.                                                     *)
LEMMA StaysDead ==
    ASSUME TypeOK, Launched, OwnerInv, [Next]_vars, ~Launch, ~StartHypervisor
    PROVE  launch' = launch /\ (launch \in Alive' => launch \in Alive)
  <1>1. ASSUME UNCHANGED <<launch, vmm>>
        PROVE  launch' = launch /\ (launch \in Alive' => launch \in Alive)
    BY <1>1 DEF Alive
  <1>2. CASE \/ Killed \/ Terminated \/ TimePasses \/ Observe \/ Prepare \/ CheckSocket
             \/ WaitHypervisor \/ SeesReturn \/ ShutdownServer \/ StopLogs \/ Dial
             \/ DialerStops \/ UNCHANGED vars
    BY <1>1, <1>2 DEF Killed, Terminated, TimePasses, Observe, Prepare, CheckSocket,
       WaitHypervisor, SeesReturn, ShutdownServer, StopLogs, Dial, DialerStops, vars
  <1>3. ASSUME NEW late \in BOOLEAN, NEW failed \in BOOLEAN,
               StopHypervisor(late, failed), launch' = launch
        PROVE  launch' = launch /\ (launch \in Alive' => launch \in Alive)
    <2>1. CASE UNCHANGED vmm
      BY <1>1, <1>3, <2>1
    <2>2. CASE \A g \in Launches :
                      \/ g \notin {launch, socket} /\ vmm'[g] = vmm[g]
                      \/ vmm'[g] = vmm[g] /\ vmm[g].process = "none"
                      \/ vmm'[g] = DeadVmm /\ vmm[g].process # "none"
                      \/ /\ g = socket /\ g # launch
                         /\ vmm[g].process # "none" /\ vmm'[g].process = "refusing"
      BY <1>3, <2>2 DEF Alive, DeadVmm
    <2> QED BY <1>3, <2>1, <2>2, StopCases
  <1>4. CASE StopFound
    BY <1>3, <1>4 DEF StopFound
  <1>5. CASE ForceStop
    <2>1. expired \in BOOLEAN
      BY DEF TypeOK
    <2> QED BY <1>3, <1>5, <2>1 DEF ForceStop
  <1>6. CASE Ping
    <2>1. launch' = launch /\ vmm' \in {vmm, Dead({launch})}
      BY <1>6 DEF Ping
    <2>2. CASE vmm' = Dead({launch})
      <3>1. \A g \in Launches : vmm'[g] = vmm[g] \/ vmm'[g] = DeadVmm
        BY <2>2, DeadType
      <3> QED BY <2>1, <3>1 DEF Alive, DeadVmm
    <2> QED BY <1>1, <2>1, <2>2
  <1>7. ASSUME launch' = launch, vmm' \in [Launches -> Vmm],
               \A g \in Launches : vmm'[g].process = vmm[g].process
        PROVE  launch' = launch /\ (launch \in Alive' => launch \in Alive)
    BY <1>7 DEF Alive
  <1>8. CASE CreateVM
    <2>1. launch' = launch
      BY <1>8, Zenon DEF CreateVM
    <2>2. CASE vmm' = vmm
      BY <1>1, <2>1, <2>2
    <2>3. CASE Answers /\ vmm' = [vmm EXCEPT ![socket].vm =
                                     IF @ = "none" THEN "created" ELSE @]
      <3>1. socket \in Launches
        BY <2>3 DEF Answers, Missing, Nobody, TypeOK, Launches
      <3>2. \A g \in Launches : vmm'[g].process = vmm[g].process
        BY <2>3, <3>1 DEF TypeOK
      <3> QED BY <2>1, <3>2 DEF Alive
    <2> QED BY <1>8, <2>2, <2>3 DEF CreateVM
  <1>9. CASE BootVM
    <2>1. launch' = launch
      BY <1>9 DEF BootVM
    <2>2. CASE vmm' = vmm
      BY <1>1, <2>1, <2>2
    <2>3. CASE vmm' = [vmm EXCEPT ![socket].vm = "running"]
      <3>1. \A g \in Launches : vmm'[g].process = vmm[g].process
        BY <2>3 DEF TypeOK
      <3> QED BY <2>1, <3>1 DEF Alive
    <2> QED BY <1>9, <2>2, <2>3 DEF BootVM
  <1>10. CASE TerminateVM
    <2>2. \A g \in Launches : vmm'[g].process = vmm[g].process
      BY <1>10 DEF TerminateVM, TypeOK
    <2> QED BY <1>10, <2>2 DEF Alive, TerminateVM
  <1>11. ASSUME NEW h \in Launches, Bind(h)
         PROVE  launch' = launch /\ (launch \in Alive' => launch \in Alive)
    <2>1. /\ \A g \in Launches \ {h} : vmm'[g] = vmm[g]
          /\ vmm[h].process = "starting" /\ launch' = launch
      BY <1>11 DEF Bind, TypeOK
    <2> QED BY <2>1 DEF Alive
  <1>12. ASSUME NEW h \in Launches, VmmDies(h)
         PROVE  launch' = launch /\ (launch \in Alive' => launch \in Alive)
    <2>1. /\ \A g \in Launches \ {h} : vmm'[g] = vmm[g]
          /\ h \in Alive /\ launch' = launch
      BY <1>12 DEF VmmDies, TypeOK
    <2> QED BY <2>1 DEF Alive
  <1> QED BY StepCases, <1>2, <1>4, <1>5, <1>6, <1>8, <1>9, <1>10, <1>11, <1>12

(* Every step keeps it.                                                    *)
LEMMA StepGraceful ==
    ASSUME TypeOK, Launched, OwnerInv, GracefulInv, [Next]_vars
    PROVE  GracefulInv'
  <1> DEFINE Dies == launch' = launch /\ (launch \in Alive' => launch \in Alive)
  <1> USE DEF GracefulInv, EndedIsDead, ForcedEarly, LogsLate, ExitEndsStart,
     GracefulMeansStopped
  <1>1. CASE Launch
    BY <1>1 DEF Launch
  <1>2. CASE StartHypervisor
    <2>1. /\ launch' = launch /\ main' = main /\ main # "exited"
          /\ start = "spawn" /\ start' \in {"ping", "failed"}
      BY <1>2 DEF StartHypervisor, StartReturns
    <2>2. main = "logs" => launch > 1
      BY <2>1 DEF Before
    <2>3. CASE start' = "ping"
      <3>1. main = "logs" => "late" \in seen'
        BY <1>2, <2>3 DEF StartHypervisor, StartReturns
      <3> QED BY <2>1, <2>2, <2>3, <3>1 DEF Before
    <2>4. CASE vmm' = vmm /\ seen' = seen /\ start' = "failed"
      BY <2>1, <2>4 DEF Before, Alive
    <2> QED BY <1>2, <2>3, <2>4 DEF StartHypervisor, StartReturns
  <1> SUFFICES ASSUME ~Launch, ~StartHypervisor PROVE GracefulInv'
    BY <1>1, <1>2
  <1>3. Dies
    BY StaysDead
  <1> HIDE DEF Dies
  <1> USE <1>3 DEF Dies
  <1>4. CASE Killed
    BY <1>4 DEF Killed, Exit
  <1>5. CASE Terminated
    BY <1>5 DEF Terminated
  <1>6. CASE TimePasses
    BY <1>6 DEF TimePasses
  <1>7. CASE Observe
    BY <1>7 DEF Observe
  <1>8. CASE Prepare
    BY <1>8 DEF Prepare, StartReturns, Before
  <1>9. CASE CheckSocket
    BY <1>9 DEF CheckSocket, Before
  <1>10. CASE StopFound
    BY <1>10 DEF StopFound, Before
  <1>11. CASE Ping
    BY <1>11 DEF Ping, StartReturns, Before
  <1>12. CASE CreateVM
    BY <1>12 DEF CreateVM, StartReturns, Before
  <1>13. CASE BootVM
    BY <1>13 DEF BootVM, StartReturns, Before
  <1>14. CASE WaitHypervisor
    BY <1>14 DEF WaitHypervisor, StartReturns, Before, Alive
  <1>15. CASE SeesReturn
    BY <1>15 DEF SeesReturn, Exit
  <1>16. CASE ShutdownServer
    BY <1>16 DEF ShutdownServer, GoOn
  <1>17. CASE StopLogs
    BY <1>17 DEF StopLogs, Exit
  <1>18. CASE Dial
    BY <1>18 DEF Dial
  <1>19. CASE DialerStops
    BY <1>19 DEF DialerStops
  <1>20. CASE TerminateVM
    <2>1. CASE Exit(1) /\ seen' = seen
      BY <2>1 DEF Exit
    <2>2. CASE Answers /\ GoOn("force") /\ seen' = seen
      <3>1. socket \in Launches /\ vmm[socket] # NoVmm
        BY <2>2 DEF Answers, Missing, Nobody, TypeOK, Launches, NoVmm
      <3>2. start \in Before => socket < launch
        BY <3>1 DEF OwnerInv, NotSpawned, TypeOK, Launches
      <3>3. start \in Before => launch > 1
        BY <3>1, <3>2 DEF TypeOK, Launches
      <3> QED BY <2>2, <3>3 DEF GoOn
    <2> QED BY <1>20, <2>1, <2>2 DEF TerminateVM
  <1>21. CASE ForceStop
    <2>1. PICK failed \in BOOLEAN :
            /\ StopHypervisor(expired, failed)
            /\ IF failed THEN Exit(1)
               ELSE IF start \in {"server", "unserved", "logManager"} THEN Exit(2)
               ELSE GoOn("logs")
      BY <1>21 DEF ForceStop
    <2>2. CASE Exit(1) \/ Exit(2)
      BY <1>21, <2>2 DEF Exit
    <2>3. CASE ~failed /\ GoOn("logs")
      <3>1. expired \in BOOLEAN /\ launch \in Launches
        BY <1>21 DEF TypeOK, Launched, ForceStop
      <3>2. \/ vmm'[launch] = vmm[launch] /\ vmm[launch].process = "none"
            \/ vmm'[launch] = DeadVmm
        BY <2>1, <2>3, <3>1, StopCases
      <3>3. launch \notin Alive'
        BY <3>2 DEF Alive, DeadVmm
      <3> QED BY <1>21, <2>3, <3>3 DEF GoOn, ForceStop
    <2> QED BY <2>1, <2>2, <2>3
  <1>22. ASSUME NEW h \in Launches, Bind(h) \/ VmmDies(h) PROVE GracefulInv'
    <2>1. UNCHANGED <<main, start, code, seen>>
      BY <1>22 DEF Bind, VmmDies
    <2> QED BY <2>1
  <1>23. CASE UNCHANGED vars
    BY <1>23 DEF vars
  <1> QED BY StepCases, <1>4, <1>5, <1>6, <1>7, <1>8, <1>9, <1>10, <1>11, <1>12, <1>13, <1>14, <1>15, <1>16, <1>17, <1>18, <1>19, <1>20, <1>21,
     <1>22, <1>23

(* When the runtime reports that it was shut down, its hypervisor is gone, *)
(* or it was started by a Start that went on after Stop had ended the      *)
(* hypervisor of an earlier launch (runtime.go:76, main.go:57).            *)
THEOREM GracefulCorrect == Spec => []GracefulMeansStopped
  <1> DEFINE Inv == TypeOK /\ Launched /\ OwnerInv /\ GracefulInv
  <1>1. Init => Inv
    BY InitialType, InitialOwner, InitialGraceful
  <1>2. Inv /\ [Next]_vars => Inv'
    BY StepType, StepOwner, StepGraceful
  <1>3. Inv => GracefulMeansStopped
    BY DEF GracefulInv
  <1> QED BY <1>1, <1>2, <1>3, PTL DEF Spec

-------------------------------------------------------------------------------
(* A launch that met a hypervisor.                                         *)

(* As long as Start has not given up, the initramfs is gone, or the socket *)
(* is that of the other one.                                               *)
FoundInv ==
    main # "exited" /\ "found" \in seen =>
      /\ start \notin {"server", "logManager", "initRamFS", "stale", "unserved"}
      /\ vmm[launch].vm # "running"
      /\ start \in {"failed", "ended"} \/ ~ramfs \/ socket \notin {Nobody, launch}

(* A step that changes nothing of this keeps it.                           *)
LEMMA SameFound ==
    ASSUME FoundInv, UNCHANGED <<launch, main, seen, vmm, socket, ramfs>>,
           \/ start' = start
           \/ start' \in {"failed", "ended"}
           \/ start = "ping" /\ start' = "create"
    PROVE  FoundInv'
  BY DEF FoundInv

(* What stopHypervisor leaves of the launch's own hypervisor.              *)
LEMMA StopKeepsFound ==
    ASSUME TypeOK, Launched, FoundInv, NEW late \in BOOLEAN, NEW failed \in BOOLEAN,
           StopHypervisor(late, failed), UNCHANGED <<launch, seen>>, main # "exited",
           \/ start' = start
           \/ start = "found" /\ start' = "spawn"
    PROVE  FoundInv'
  <1>1. CASE UNCHANGED <<vmm, socket, ramfs>>
    BY <1>1 DEF FoundInv
  <1>2. CASE /\ ramfs' = FALSE
             /\ \A g \in Launches :
                      \/ g \notin {launch, socket} /\ vmm'[g] = vmm[g]
                      \/ vmm'[g] = vmm[g] /\ vmm[g].process = "none"
                      \/ vmm'[g] = DeadVmm /\ vmm[g].process # "none"
                      \/ /\ g = socket /\ g # launch
                         /\ vmm[g].process # "none" /\ vmm'[g].process = "refusing"
    <2>1. launch \in Launches
      BY DEF Launched
    <2>2. vmm'[launch] = vmm[launch] \/ vmm'[launch] = DeadVmm
      BY <1>2, <2>1
    <2> QED BY <1>2, <2>2 DEF FoundInv, DeadVmm
  <1> QED BY <1>1, <1>2, StopCases

(* Every step keeps it.                                                    *)
LEMMA StepFound ==
    ASSUME TypeOK, Launched, OwnerInv, FoundInv, [Next]_vars
    PROVE  FoundInv'
  <1>1. CASE Launch
    BY <1>1 DEF Launch, FoundInv
  <1>2. CASE Killed
    BY <1>2 DEF Killed, Exit, FoundInv
  <1>3. CASE Terminated
    BY <1>3 DEF Terminated, FoundInv
  <1>4. CASE TimePasses
    BY <1>4, SameFound DEF TimePasses
  <1>5. CASE Observe
    BY <1>5, SameFound DEF Observe
  <1>6. CASE Prepare
    BY <1>6 DEF Prepare, FoundInv
  <1>7. CASE CheckSocket
    <2>1. CASE Missing
      BY <1>7, <2>1 DEF CheckSocket, FoundInv
    <2>2. CASE ~Missing
      <3>1. launch \in Launches /\ vmm[launch] = NoVmm /\ socket \in Launches
        BY <1>7, <2>2 DEF CheckSocket, Launched, OwnerInv, NotSpawned, Before, Missing,
           Nobody, TypeOK, Launches
      <3>2. socket # launch
        BY <3>1 DEF OwnerInv, FileHasOwner, NoVmm
      <3>3. vmm[launch].vm = "none"
        BY <3>1 DEF NoVmm
      <3> QED BY <1>7, <2>2, <3>2, <3>3 DEF CheckSocket, FoundInv, Missing
    <2> QED BY <2>1, <2>2
  <1>8. CASE StopFound
    <2>1. CASE main = "exited"
      BY <1>8, <2>1 DEF StopFound, FoundInv
    <2>2. PICK failed \in BOOLEAN : StopHypervisor(FALSE, failed)
      BY <1>8 DEF StopFound
    <2> QED BY <1>8, <2>1, <2>2, StopKeepsFound DEF StopFound
  <1>9. CASE StartHypervisor
    <2>1. CASE vmm' = vmm
      BY <1>9, <2>1 DEF StartHypervisor, StartReturns, FoundInv
    <2>2. CASE /\ start' = "ping" /\ vmm' = [vmm EXCEPT ![launch].process = "starting"]
      <3>1. launch \in Launches
        BY <1>9 DEF StartHypervisor, Launched
      <3>2. vmm'[launch].vm = vmm[launch].vm
        BY <2>2, <3>1 DEF TypeOK
      <3>3. /\ UNCHANGED <<launch, main, socket, ramfs>> /\ start = "spawn"
            /\ "found" \in seen' <=> "found" \in seen
        BY <1>9 DEF StartHypervisor
      <3> QED BY <2>2, <3>2, <3>3 DEF FoundInv
    <2> QED BY <1>9, <2>1, <2>2 DEF StartHypervisor
  <1>10. CASE Ping
    <2>1. UNCHANGED <<launch, main, seen, ramfs>> /\ start = "ping"
      BY <1>10, Zenon DEF Ping
    <2>2. CASE start' = "create" /\ UNCHANGED <<vmm, socket>>
      BY <2>1, <2>2, SameFound
    <2>3. CASE start' = "failed" /\ vmm' = Dead({launch})
      <3>1. launch \in Launches
        BY <2>1 DEF Launched
      <3>2. vmm'[launch] = vmm[launch] \/ vmm'[launch] = DeadVmm
        BY <2>3, <3>1, DeadType
      <3> QED BY <2>1, <2>3, <3>2 DEF FoundInv, DeadVmm
    <2> QED BY <1>10, <2>2, <2>3 DEF Ping, StartReturns
  <1>11. CASE CreateVM
    <2>1. UNCHANGED <<launch, main, seen, socket, ramfs>> /\ start = "create"
      BY <1>11, Zenon DEF CreateVM
    <2>2. CASE start' = "failed" /\ vmm' = vmm
      BY <2>1, <2>2, SameFound
    <2>3. CASE /\ Answers /\ start' = "boot"
               /\ vmm' = [vmm EXCEPT ![socket].vm = IF @ = "none" THEN "created" ELSE @]
      <3>1. socket \in Launches /\ launch \in Launches
        BY <2>1, <2>3 DEF Answers, Missing, Nobody, TypeOK, Launched, Launches
      <3>2. vmm'[launch].vm = vmm[launch].vm \/ vmm'[launch].vm = "created"
        BY <2>3, <3>1 DEF TypeOK
      <3> QED BY <2>1, <2>3, <3>2 DEF FoundInv
    <2> QED BY <1>11, <2>2, <2>3 DEF CreateVM, StartReturns
  <1>12. CASE BootVM
    <2>1. UNCHANGED <<launch, main, seen, socket, ramfs>> /\ start = "boot"
      BY <1>12, Zenon DEF BootVM
    <2>2. CASE start' = "failed" /\ vmm' = vmm
      BY <2>1, <2>2, SameFound
    <2>3. CASE ramfs /\ start' = "wait" /\ vmm' = [vmm EXCEPT ![socket].vm = "running"]
      <3>1. socket # launch => vmm'[launch] = vmm[launch]
        BY <2>1, <2>3 DEF TypeOK, Launched
      <3> QED BY <2>1, <2>3, <3>1 DEF FoundInv
    <2> QED BY <1>12, <2>2, <2>3 DEF BootVM, StartReturns
  <1>13. CASE WaitHypervisor
    BY <1>13, SameFound DEF WaitHypervisor, StartReturns
  <1>14. CASE SeesReturn
    BY <1>14 DEF SeesReturn, Exit, FoundInv
  <1>15. CASE ShutdownServer
    BY <1>15 DEF ShutdownServer, GoOn, FoundInv
  <1>16. CASE TerminateVM
    <2>1. CASE Exit(1)
      BY <2>1 DEF Exit, FoundInv
    <2>2. CASE GoOn("force") /\ vmm' = [vmm EXCEPT ![socket].vm = "none"]
      <3>1. UNCHANGED <<launch, seen, socket, ramfs, start>> /\ main # "exited"
        BY <1>16, <2>2 DEF TerminateVM, GoOn
      <3>2. vmm'[launch].vm = vmm[launch].vm \/ vmm'[launch].vm = "none"
        BY <2>2, <3>1 DEF TypeOK, Launched
      <3> QED BY <3>1, <3>2 DEF FoundInv
    <2> QED BY <1>16, <2>1, <2>2 DEF TerminateVM
  <1>17. CASE ForceStop
    <2>1. PICK failed \in BOOLEAN :
            /\ StopHypervisor(expired, failed)
            /\ IF failed THEN Exit(1)
               ELSE IF start \in {"server", "unserved", "logManager"} THEN Exit(2)
               ELSE GoOn("logs")
      BY <1>17 DEF ForceStop
    <2>2. CASE Exit(1) \/ Exit(2)
      BY <2>2 DEF Exit, FoundInv
    <2>3. CASE GoOn("logs")
      <3>1. expired \in BOOLEAN
        BY DEF TypeOK
      <3> QED BY <1>17, <2>1, <2>3, <3>1, StopKeepsFound DEF ForceStop, GoOn
    <2> QED BY <2>1, <2>2, <2>3
  <1>18. CASE StopLogs
    BY <1>18 DEF StopLogs, Exit, FoundInv
  <1>19. CASE Dial \/ DialerStops
    BY <1>19, SameFound DEF Dial, DialerStops
  <1>20. ASSUME NEW h \in Launches, Bind(h) PROVE FoundInv'
    <2>1. UNCHANGED <<launch, main, seen, ramfs, start>>
      BY <1>20 DEF Bind
    <2>2. \A g \in Launches : vmm'[g].vm = vmm[g].vm
      BY <1>20 DEF Bind, TypeOK
    <2>3. socket' = IF Missing THEN h ELSE socket
      BY <1>20 DEF Bind
    <2>4. main # "exited" => vmm'[launch].vm = vmm[launch].vm
      BY <2>2 DEF Launched
    <2> QED BY <2>1, <2>3, <2>4 DEF FoundInv, Missing
  <1>21. ASSUME NEW h \in Launches, VmmDies(h) PROVE FoundInv'
    <2>1. UNCHANGED <<launch, main, seen, ramfs, start, socket>>
      BY <1>21 DEF VmmDies
    <2>2. \A g \in Launches : vmm'[g].vm = vmm[g].vm \/ vmm'[g].vm = "none"
      BY <1>21 DEF VmmDies, TypeOK
    <2>3. main # "exited" => vmm'[launch].vm \in {vmm[launch].vm, "none"}
      BY <2>2 DEF Launched
    <2> QED BY <2>1, <2>3 DEF FoundInv
  <1>22. CASE UNCHANGED vars
    BY <1>22 DEF vars, FoundInv
  <1> QED BY StepCases, <1>1, <1>2, <1>3, <1>4, <1>5, <1>6, <1>7, <1>8, <1>9, <1>10,
     <1>11, <1>12, <1>13, <1>14, <1>15, <1>16, <1>17, <1>18, <1>19, <1>20, <1>21, <1>22

(* A launch that found a hypervisor in its place never gets its machine to *)
(* run: either that one keeps the socket, or stopping it took the          *)
(* initramfs away, which is not built again (vmm.go:141).                  *)
THEOREM FoundCorrect == Spec => []FoundNeverRuns
  <1> DEFINE Inv == TypeOK /\ Launched /\ OwnerInv /\ FoundInv
  <1>1. Init => Inv
    BY InitialType, InitialOwner DEF Init, FoundInv
  <1>2. Inv /\ [Next]_vars => Inv'
    BY StepType, StepOwner, StepFound
  <1>3. Inv => FoundNeverRuns
    BY DEF FoundInv, FoundNeverRuns
  <1> QED BY <1>1, <1>2, <1>3, PTL DEF Spec
================================================================================
