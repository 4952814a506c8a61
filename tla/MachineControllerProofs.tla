------------------------ MODULE MachineControllerProofs ------------------------
(***************************************************************************)
(* Proofs about MachineController, for any number of goroutines and any    *)
(* bounds: its type invariant, then the safety theorems.                   *)
(*                                                                         *)
(* Most steps of the controller leave alone what the safety theorems speak *)
(* of: the pointers in c.state, the goroutines they stand for, and the     *)
(* columns of the row.  Undisturbed says so of a step, and the lemmas that *)
(* follow it establish it; what is left are the steps that start or end a  *)
(* goroutine, install a copy, or restart the agent.                        *)
(***************************************************************************)
EXTENDS MachineController, TLAPS, FiniteSetTheorems

-------------------------------------------------------------------------------
(* Messages and the bus.                                                   *)

LEMMA MessageTypes ==
    /\ Assess \in Message /\ Connected \in Message /\ Disconnected \in Message
    /\ \A d \in DesiredState : DesiredMsg(d) \in Message
    /\ \A s \in MachineState : StateMsg(s) \in Message
BY DEF Message

(* Sending a message to the bus, or receiving one that is there, leaves a  *)
(* bag of messages.                                                        *)
LEMMA PublishType ==
    ASSUME NEW b \in [Message -> Nat], NEW m \in Message
    PROVE  PublishEvent(b, m) \in [Message -> Nat]
BY DEF PublishEvent

LEMMA PublishIfType ==
    ASSUME NEW b \in [Message -> Nat], NEW m \in Message, NEW cond
    PROVE  PublishIf(cond, b, m) \in [Message -> Nat]
BY PublishType DEF PublishIf

LEMMA RestType ==
    ASSUME TypeOK, NEW m \in Message, Handles(m)
    PROVE  Rest(m) \in [Message -> Nat]
<1>1. CASE Receives(m)
  <2>1. bus[m] \in Nat /\ bus[m] > 0 /\ disp.pc = "idle"
    BY <1>1 DEF Receives, TypeOK, DispatcherAt
  <2>2. bus[m] - 1 \in Nat
    BY <2>1
  <2>. QED BY <2>1, <2>2 DEF Rest, TypeOK
<1>2. CASE DispatcherAt("handle")
  BY <1>2 DEF Rest, TypeOK, DispatcherAt
<1>. QED BY <1>1, <1>2 DEF Handles

LEMMA LatestType ==
    ASSUME TypeOK, NEW copy \in ControllerState \cup {None}
    PROVE  Latest(copy) \in ControllerState
BY DEF Latest, TypeOK

LEMMA FreshType ==
    ASSUME NEW r \in Row
    PROVE  Fresh(r) \in ControllerState
BY DEF Fresh, ControllerState, Row

-------------------------------------------------------------------------------
(* Type correctness.                                                       *)

LEMMA TypeInit == ASSUME ConstantsAssumption, Init PROVE TypeOK
<1>. PICK d \in InitialDesired : row = [State |-> "pending", DesiredState |-> d]
  BY DEF Init
<1>1. row \in Row
  BY DEF ConstantsAssumption, MachineState, Row
<1>2. state \in ControllerState
  BY <1>1, FreshType DEF Init
<1>3. bus \in [Message -> Nat]
  BY MessageTypes, PublishType DEF Init, EmptyBus
<1>4. disp \in Dispatcher
  BY MessageTypes DEF Init, Idle, Dispatcher
<1>5. ctl \in Control
  BY DEF Init, NewController, Control
<1>6. NoReconciliation \in Reconciler /\ NoListener \in Listener
  BY DEF NoReconciliation, NoListener, Reconciler, ReconcilerPC, Listener
<1>7. runtime \in Process /\ res \in Resources /\ used \in Usage
  BY DEF Init, Process, Resources, Stamps, NoStamps, Usage
<1>. QED BY <1>1, <1>2, <1>3, <1>4, <1>5, <1>6, <1>7 DEF Init, TypeOK

(* The budgets, and the notes about the past.                              *)
LEMMA UsageTypes ==
    ASSUME used \in Usage
    PROVE  /\ \A n \in {0, 1} : [used EXCEPT !.failures = @ + n] \in Usage
           /\ \A n \in {0, 1} : [used EXCEPT !.staleWrites = @ + n] \in Usage
           /\ [used EXCEPT !.requests = @ + 1] \in Usage
           /\ [used EXCEPT !.ticks = @ + 1] \in Usage
           /\ [used EXCEPT !.restarts = @ + 1] \in Usage
BY DEF Usage

LEMMA ChargeType ==
    ASSUME used \in Usage, NEW failed, Charge(failed)
    PROVE  used' \in Usage
BY UsageTypes DEF Charge

LEMMA InstallType ==
    ASSUME used \in Usage, NEW copy, NEW updated \in ControllerState,
           Install(copy, updated)
    PROVE  state' \in ControllerState /\ used' \in Usage
BY UsageTypes DEF Install

LEMMA TypeAgent ==
    ASSUME TypeOK, ConstantsAssumption,
           Register \/ Restart \/ \E d \in Requestable : UpdateDesiredState(d)
    PROVE  TypeOK'
<1>1. CASE Register
  <2>1. ctl' \in Control
    BY <1>1 DEF Register, TypeOK, Control
  <2>. QED BY <1>1, <2>1 DEF Register, TypeOK
<1>2. CASE Restart
  <2>1. state' \in ControllerState
    BY <1>2, FreshType DEF Restart, TypeOK, Row
  <2>2. bus' \in [Message -> Nat]
    BY <1>2, MessageTypes, PublishIfType DEF Restart, EmptyBus
  <2>3. disp' \in Dispatcher
    BY <1>2, MessageTypes DEF Restart, Idle, Dispatcher
  <2>4. used' \in Usage
    BY <1>2, UsageTypes DEF Restart, TypeOK
  <2>5. ctl' \in Control
    BY <1>2 DEF Restart, NewController, Control
  <2>6. NoReconciliation \in Reconciler /\ NoListener \in Listener
    BY DEF NoReconciliation, NoListener, Reconciler, ReconcilerPC, Listener
  <2>7. runtime' \in Process
    BY <1>2 DEF Restart, TypeOK, Process
  <2>8. res' \in Resources
    BY <1>2 DEF Restart, TypeOK, Resources
  <2>. QED BY <1>2, <2>1, <2>2, <2>3, <2>4, <2>5, <2>6, <2>7, <2>8 DEF Restart, TypeOK
<1>3. ASSUME NEW d \in Requestable, UpdateDesiredState(d)
      PROVE  TypeOK'
  <2>1. bus' \in [Message -> Nat]
    BY <1>3, MessageTypes, PublishType DEF UpdateDesiredState, TypeOK, ConstantsAssumption
  <2>2. used' \in Usage
    BY <1>3, UsageTypes DEF UpdateDesiredState, TypeOK
  <2>. QED BY <1>3, <2>1, <2>2 DEF UpdateDesiredState, TypeOK
<1>. QED BY <1>1, <1>2, <1>3

LEMMA CallStopType ==
    ASSUME TypeOK, NEW m, CallStop(m)
    PROVE  ctl' \in Control
BY DEF CallStop, StopOn, TypeOK, Control

LEMMA IdleType ==
    ASSUME NEW pc \in {"idle", "handle", "startListener", "countErrors", "returned"}
    PROVE  Idle \in Dispatcher /\ [Idle EXCEPT !.pc = pc] \in Dispatcher
BY MessageTypes DEF Idle, Dispatcher

LEMMA ConsiderListenerType ==
    ASSUME TypeOK, NEW snap \in ControllerState, ConsiderListener(snap)
    PROVE  /\ disp' \in Dispatcher
           /\ listen' \in [Listeners -> Listener]
           /\ seen' \subseteq History
<1>1. disp' \in Dispatcher
  BY IdleType DEF ConsiderListener
<1>2. snap.RuntimeListener # None => snap.RuntimeListener \in Listeners
  BY DEF ControllerState
<1>3. \A l \in Listeners : [listen[l] EXCEPT !.cancelled = TRUE] \in Listener
  BY DEF TypeOK, Listener
<1>. QED BY <1>1, <1>2, <1>3 DEF ConsiderListener, TypeOK, History

LEMMA TypeAssess ==
    ASSUME TypeOK, ConstantsAssumption,
           AssessOnly \/ \E r \in Reconcilers : Reconcile(r)
    PROVE  TypeOK'
<1>1. CASE AssessOnly
  <2>1. bus' \in [Message -> Nat]
    BY <1>1, RestType, MessageTypes DEF AssessOnly, Handles
  <2>2. skipped' \in BOOLEAN
    BY <1>1 DEF AssessOnly, NeedsReconcile, shouldReconcile
  <2>. QED BY <1>1, <2>1, <2>2, ConsiderListenerType DEF AssessOnly, TypeOK
<1>2. ASSUME NEW r \in Reconcilers, Reconcile(r)
      PROVE  TypeOK'
  <2>. DEFINE snap == Latest(disp.copy)
              machine == [State |-> snap.State, DesiredState |-> snap.DesiredState]
              starts == snap.DesiredState = "running"
  <2>1. snap \in ControllerState
    BY LatestType DEF TypeOK, Dispatcher
  <2>2. machine \in Row
    BY <2>1 DEF ControllerState, Row
  <2>3. [snap EXCEPT !.Reconciliation = r] \in ControllerState
    BY <2>1 DEF ControllerState
  <2>4. state' \in ControllerState /\ used' \in Usage
    BY <1>2, <2>3, InstallType DEF Reconcile, TypeOK
  <2>5. recon' \in [Reconcilers -> Reconciler]
    <3>1. [NoReconciliation EXCEPT
             !.machine = machine,
             !.pc = IF starts /\ snap.State # "error" THEN "prepare" ELSE "probe"]
            \in Reconciler
      BY <2>2 DEF NoReconciliation, Reconciler, ReconcilerPC
    <3>. QED BY <1>2, <3>1 DEF Reconcile, TypeOK
  <2>6. bus' \in [Message -> Nat]
    <3>1. Rest(Assess) \in [Message -> Nat]
      BY <1>2, RestType, MessageTypes DEF Reconcile
    <3>2. StateMsg("starting") \in Message
      BY MessageTypes DEF MachineState
    <3>. QED BY <1>2, <3>1, <3>2, PublishIfType DEF Reconcile
  <2>7. disp' \in Dispatcher /\ listen' \in [Listeners -> Listener]
        /\ seen' \subseteq History
    BY <1>2, <2>1, ConsiderListenerType DEF Reconcile
  <2>. QED BY <1>2, <2>4, <2>5, <2>6, <2>7 DEF Reconcile, TypeOK
<1>. QED BY <1>1, <1>2

LEMMA TypeSaveColumn ==
    ASSUME TypeOK, NEW m \in Message, NEW column \in {"State", "DesiredState"},
           column = "State" => m.to \in MachineState,
           column = "DesiredState" => m.to \in DesiredState,
           NEW events \in SUBSET History, SaveColumn(m, column, events)
    PROVE  TypeOK'
<1>. DEFINE updated == [Latest(disp.copy) EXCEPT ![column] = m.to]
<1>1. updated \in ControllerState
  <2>1. Latest(disp.copy) \in ControllerState
    BY LatestType DEF TypeOK, Dispatcher
  <2>2. CASE column = "State"
    BY <2>1, <2>2 DEF ControllerState
  <2>3. CASE column = "DesiredState"
    BY <2>1, <2>3 DEF ControllerState
  <2>. QED BY <2>2, <2>3
<1>2. [row EXCEPT ![column] = m.to] \in Row
  <2>1. CASE column = "State"
    BY <2>1 DEF TypeOK, Row
  <2>2. CASE column = "DesiredState"
    BY <2>2 DEF TypeOK, Row
  <2>. QED BY <2>1, <2>2
<1>3. state' \in ControllerState /\ row' \in Row /\ used' \in Usage
      /\ seen' \subseteq History
  <2>1. CASE Install(disp.copy, updated) /\ row' = [row EXCEPT ![column] = m.to]
             /\ seen' = seen \cup events
    BY <1>1, <1>2, <2>1, InstallType DEF TypeOK
  <2>2. CASE Charge(~ctl.cancelled) /\ SaveError(updated)
             /\ seen' = seen \cup events \cup Note("unrecorded", Stops(m))
    <3>1. Note("unrecorded", Stops(m)) \subseteq History
      BY DEF Note, History
    <3>. QED BY <2>2, <3>1, ChargeType DEF TypeOK, SaveError
  <2>. QED BY <2>1, <2>2 DEF SaveColumn
<1>4. bus' \in [Message -> Nat]
  BY RestType, MessageTypes, PublishType DEF SaveColumn, AfterSave
<1>5. disp' \in Dispatcher /\ ctl' \in Control
  BY IdleType, CallStopType DEF SaveColumn
<1>. QED BY <1>3, <1>4, <1>5 DEF SaveColumn, TypeOK

LEMMA TypeDispatch ==
    ASSUME TypeOK, ConstantsAssumption, Dispatch
    PROVE  TypeOK'
<1>1. ASSUME NEW m \in Message, HoldCopy(m)
      PROVE  TypeOK'
  <2>1. bus' \in [Message -> Nat]
    BY <1>1, RestType DEF HoldCopy, Handles
  <2>2. disp' \in Dispatcher
    BY <1>1 DEF HoldCopy, TypeOK, Dispatcher
  <2>. QED BY <1>1, <2>1, <2>2, CallStopType DEF HoldCopy, TypeOK
<1>2. CASE AssessOnly \/ \E r \in Reconcilers : Reconcile(r)
  BY <1>2, TypeAssess
<1>3. CASE HoldCopyForListener
  <2>1. disp' \in Dispatcher
    BY <1>3 DEF HoldCopyForListener, TypeOK, Dispatcher
  <2>. QED BY <1>3, <2>1 DEF HoldCopyForListener, TypeOK
<1>4. ASSUME NEW l \in Listeners, startRuntimeListener(l)
      PROVE  TypeOK'
  <2>1. Latest(disp.copy) \in ControllerState
    BY LatestType DEF TypeOK, Dispatcher
  <2>2. [Latest(disp.copy) EXCEPT !.RuntimeListener = l, !.ConsecutiveErrorCount = 0]
          \in ControllerState
    BY <2>1 DEF ControllerState
  <2>3. state' \in ControllerState /\ used' \in Usage
    BY <1>4, <2>2, InstallType DEF startRuntimeListener, TypeOK
  <2>4. [NoListener EXCEPT !.pc = "loop"] \in Listener
    BY DEF NoListener, Listener
  <2>. QED BY <1>4, <2>3, <2>4, IdleType DEF startRuntimeListener, TypeOK
<1>5. ASSUME NEW d \in DesiredState, DesiredStateChanged(d)
      PROVE  TypeOK'
  <2>1. DesiredMsg(d) \in Message /\ DesiredMsg(d).to = d
    BY MessageTypes DEF DesiredMsg
  <2>2. ASSUME NEW cond PROVE Note("resurrected", cond) \in SUBSET History
    BY DEF Note, History
  <2>. QED BY <1>5, <2>1, <2>2, TypeSaveColumn DEF DesiredStateChanged
<1>6. ASSUME NEW s \in MachineState, StateChanged(s)
      PROVE  TypeOK'
  <2>1. StateMsg(s) \in Message /\ StateMsg(s).to = s
    BY MessageTypes DEF StateMsg
  <2>. QED BY <1>6, <2>1, TypeSaveColumn DEF StateChanged
<1>7. CASE ListenerConnected
  <2>. DEFINE current == Latest(disp.copy)
  <2>1. current \in ControllerState
    BY LatestType DEF TypeOK, Dispatcher
  <2>2. bus' \in [Message -> Nat]
    <3>1. Rest(Connected) \in [Message -> Nat] /\ StateMsg("running") \in Message
      BY <1>7, RestType, MessageTypes DEF ListenerConnected, MachineState
    <3>. QED BY <1>7, <3>1, PublishIfType DEF ListenerConnected
  <2>3. ctl' \in Control
    BY <1>7 DEF ListenerConnected, TypeOK, Control
  <2>4. [current EXCEPT !.ConsecutiveErrorCount = 0] \in ControllerState
    BY <2>1 DEF ControllerState
  <2>5. state' \in ControllerState /\ used' \in Usage
    BY <1>7, <2>4, InstallType DEF ListenerConnected, TypeOK
  <2>. QED BY <1>7, <2>2, <2>3, <2>5, IdleType DEF ListenerConnected, TypeOK
<1>8. CASE ListenerDisconnected
  <2>. DEFINE current == Latest(disp.copy)
              updated == [current EXCEPT !.ConsecutiveErrorCount =
                            IF current.RuntimeListener = None THEN @ ELSE @ + 1]
  <2>1. current \in ControllerState
    BY LatestType DEF TypeOK, Dispatcher
  <2>2. updated \in ControllerState
    BY <2>1 DEF ControllerState
  <2>3. state' \in ControllerState /\ used' \in Usage
    BY <1>8, <2>2, InstallType DEF ListenerDisconnected, TypeOK
  <2>4. bus' \in [Message -> Nat]
    BY <1>8, RestType, MessageTypes DEF ListenerDisconnected
  <2>. QED BY <1>8, <2>3, <2>4, IdleType DEF ListenerDisconnected, TypeOK
<1>9. CASE CountErrors
  <2>1. StateMsg("error") \in Message /\ StateMsg("degraded") \in Message
    BY MessageTypes DEF MachineState
  <2>2. bus' \in [Message -> Nat]
    BY <1>9, <2>1, PublishType, PublishIfType DEF CountErrors, TypeOK
  <2>. QED BY <1>9, <2>2, IdleType DEF CountErrors, TypeOK
<1>10. CASE DispatcherReturns
  BY <1>10, IdleType DEF DispatcherReturns, TypeOK
<1>. QED BY <1>1, <1>2, <1>3, <1>4, <1>5, <1>6, <1>7, <1>8, <1>9, <1>10 DEF Dispatch

LEMMA TypeStop ==
    ASSUME TypeOK, Stop
    PROVE  TypeOK'
<1>1. CASE StopBegins
  <2>1. ctl' \in Control
    BY <1>1 DEF StopBegins, TypeOK, Control, ControllerState
  <2>2. listen' \in [Listeners -> Listener]
    <3>1. \A l \in Listeners : [listen[l] EXCEPT !.cancelled = TRUE] \in Listener
      BY DEF TypeOK, Listener
    <3>2. state.RuntimeListener # None => state.RuntimeListener \in Listeners
      BY DEF TypeOK, ControllerState
    <3>. QED BY <1>1, <3>1, <3>2 DEF StopBegins, TypeOK
  <2>3. seen' \subseteq History
    BY <1>1 DEF StopBegins, TypeOK, Note, History
  <2>. QED BY <1>1, <2>1, <2>2, <2>3 DEF StopBegins, TypeOK
<1>2. CASE StopTimesOut
  <2>1. ctl' \in Control
    BY <1>2 DEF StopTimesOut, TypeOK, Control
  <2>2. \A r \in Reconcilers : \A b \in BOOLEAN :
          [recon[r] EXCEPT !.cancelled = b] \in Reconciler
    BY DEF TypeOK, Reconciler
  <2>3. \A r \in Reconcilers :
          (recon[r].cancelled \/ (r = ctl.toCancel /\ recon[r].pc # "none")) \in BOOLEAN
    OBVIOUS
  <2>4. recon' \in [Reconcilers -> Reconciler]
    BY <1>2, <2>2, <2>3 DEF StopTimesOut
  <2>. QED BY <1>2, <2>1, <2>4 DEF StopTimesOut, TypeOK
<1>. QED BY <1>1, <1>2 DEF Stop

(* What the steps of a reconciliation are made of: its pc, its result, the *)
(* probe of the runtime.                                                   *)
LEMMA GotoType ==
    ASSUME recon \in [Reconcilers -> Reconciler], NEW r \in Reconcilers,
           NEW pc \in ReconcilerPC, Goto(r, pc)
    PROVE  recon' \in [Reconcilers -> Reconciler]
<1>1. [recon[r] EXCEPT !.pc = pc] \in Reconciler
  BY DEF Reconciler
<1>. QED BY <1>1 DEF Goto

LEMMA FinishType ==
    ASSUME TypeOK, NEW r \in Reconcilers, NEW new \in MachineState, Finish(r, new)
    PROVE  recon' \in [Reconcilers -> Reconciler] /\ bus' \in [Message -> Nat]
<1>1. "clear" \in ReconcilerPC
  BY DEF ReconcilerPC
<1>. QED BY <1>1, GotoType, MessageTypes, PublishType DEF Finish, TypeOK

LEMMA ContinueType ==
    ASSUME TypeOK, NEW r \in Reconcilers, NEW pc \in ReconcilerPC, Continue(r, pc)
    PROVE  recon' \in [Reconcilers -> Reconciler] /\ bus' \in [Message -> Nat]
BY GotoType DEF Continue, TypeOK

LEMMA AfterRuntimeType ==
    ASSUME NEW r PROVE AfterRuntime(r) \in ReconcilerPC
BY DEF AfterRuntime, ReconcilerPC

LEMMA ProbeAnswerType ==
    ASSUME TypeOK, NEW r, NEW answer, IsMachineRuntimeStarted(r, answer)
    PROVE  used' \in Usage /\ seen' \subseteq History
<1>1. used' \in Usage
  BY ChargeType DEF IsMachineRuntimeStarted, TypeOK
<1>2. Note("blindProbe", ~answer /\ runtime.status # "absent") \subseteq History
  BY DEF Note, History
<1>. QED BY <1>1, <1>2 DEF IsMachineRuntimeStarted, TypeOK

(* A timestamp that is set, in memory or in the row too.                   *)
LEMMA StampType ==
    ASSUME NEW r \in Resources, NEW saves \in BOOLEAN,
           NEW column \in {"nicReleased", "allocated", "released"}
    PROVE  Stamp(r, column, saves) \in Resources
<1>1. r.memory \in Stamps /\ r.saved \in Stamps
  BY DEF Resources
<1>2. [r.memory EXCEPT ![column] = TRUE] \in Stamps
  BY <1>1 DEF Stamps
<1>3. [r.saved EXCEPT ![column] = @ \/ (saves /\ ~r.memory[column])] \in Stamps
  BY <1>1 DEF Stamps
<1>4. Stamp(r, column, saves) =
        [[r EXCEPT !.memory = [r.memory EXCEPT ![column] = TRUE]] EXCEPT
           !.saved = [r.saved EXCEPT ![column] = @ \/ (saves /\ ~r.memory[column])]]
  BY DEF Stamp, Resources
<1>. QED BY <1>2, <1>3, <1>4 DEF Resources

LEMMA TypeReconciliation ==
    ASSUME TypeOK, NEW r \in Reconcilers, Reconciliation(r)
    PROVE  TypeOK'
<1>. USE DEF TypeOK
<1>1. CASE Probe(r)
  <2>. PICK started \in BOOLEAN :
         /\ IsMachineRuntimeStarted(r, started)
         /\ \E cond \in BOOLEAN : bus' = PublishIf(cond, bus, StateMsg("terminating"))
         /\ Goto(r, IF started THEN "terminate" ELSE AfterRuntime(r))
    BY <1>1 DEF Probe
  <2>1. (IF started THEN "terminate" ELSE AfterRuntime(r)) \in ReconcilerPC
    BY AfterRuntimeType DEF ReconcilerPC
  <2>2. recon' \in [Reconcilers -> Reconciler]
    BY <2>1, GotoType
  <2>3. bus' \in [Message -> Nat]
    BY MessageTypes, PublishIfType DEF MachineState
  <2>. QED BY <1>1, <2>2, <2>3, ProbeAnswerType DEF Probe
<1>2. CASE Terminate(r)
  <2>1. "await" \in ReconcilerPC /\ "error" \in MachineState
    BY DEF ReconcilerPC, MachineState
  <2>2. recon' \in [Reconcilers -> Reconciler] /\ bus' \in [Message -> Nat]
    BY <1>2, <2>1, FinishType, ContinueType DEF Terminate
  <2>3. runtime' \in Process
    BY <1>2 DEF Terminate, Process
  <2>4. used' \in Usage
    BY <1>2, ChargeType DEF Terminate
  <2>. QED BY <1>2, <2>2, <2>3, <2>4 DEF Terminate
<1>3. CASE AwaitExit(r)
  <2>1. recon' \in [Reconcilers -> Reconciler] /\ bus' \in [Message -> Nat]
    BY <1>3, AfterRuntimeType, ContinueType DEF AwaitExit
  <2>2. runtime' \in Process
    BY <1>3 DEF AwaitExit, Process
  <2>. QED BY <1>3, <2>1, <2>2 DEF AwaitExit
<1>4. CASE Prepare(r)
  <2>1. "probeStart" \in ReconcilerPC /\ "error" \in MachineState
        /\ "pending" \in MachineState
    BY DEF ReconcilerPC, MachineState
  <2>2. \/ Finish(r, "error") \/ Finish(r, "pending")
        \/ Continue(r, "probeStart")
    BY <1>4 DEF Prepare
  <2>3. recon' \in [Reconcilers -> Reconciler] /\ bus' \in [Message -> Nat]
    BY <2>1, <2>2, FinishType, ContinueType
  <2>4. res' \in Resources
    <3>1. [res EXCEPT !.volume = TRUE] \in Resources
      BY DEF Resources
    <3>2. \E after \in Resources, link \in BOOLEAN :
            res' = [after EXCEPT !.link = link]
      BY <1>4, <3>1, StampType DEF Prepare
    <3>. QED BY <3>2 DEF Resources
  <2>5. used' \in Usage
    BY <1>4, ChargeType DEF Prepare
  <2>6. seen' \subseteq History
    BY <1>4 DEF Prepare, TypeOK
  <2>. QED BY <1>4, <2>3, <2>4, <2>5, <2>6 DEF Prepare
<1>5. CASE ProbeStart(r)
  <2>1. "start" \in ReconcilerPC /\ "error" \in MachineState
        /\ "running" \in MachineState
    BY DEF ReconcilerPC, MachineState
  <2>2. \/ Finish(r, "error") \/ Finish(r, "running") \/ Continue(r, "start")
    BY <1>5 DEF ProbeStart
  <2>3. recon' \in [Reconcilers -> Reconciler] /\ bus' \in [Message -> Nat]
    BY <2>1, <2>2, FinishType, ContinueType
  <2>4. used' \in Usage /\ seen' \subseteq History
    BY <1>5, ProbeAnswerType DEF ProbeStart
  <2>. QED BY <1>5, <2>3, <2>4 DEF ProbeStart
<1>6. CASE StartRuntime(r)
  <2>1. "error" \in MachineState /\ "running" \in MachineState
    BY DEF MachineState
  <2>2. recon' \in [Reconcilers -> Reconciler] /\ bus' \in [Message -> Nat]
    BY <1>6, <2>1, FinishType DEF StartRuntime
  <2>3. runtime' \in Process
    <3>1. \/ runtime' = [status |-> "up", child |-> TRUE]
          \/ runtime' = [status |-> "booting", child |-> TRUE]
          \/ runtime' = runtime
      BY <1>6 DEF StartRuntime
    <3>2. /\ [status |-> "up", child |-> TRUE] \in Process
          /\ [status |-> "booting", child |-> TRUE] \in Process
      BY DEF Process
    <3>. QED BY <3>1, <3>2
  <2>4. used' \in Usage
    BY <1>6, ChargeType DEF StartRuntime
  <2>5. seen' \subseteq History
    BY <1>6 DEF StartRuntime, Note, History
  <2>. QED BY <1>6, <2>2, <2>3, <2>4, <2>5 DEF StartRuntime
<1>7. CASE ReleaseInterface(r)
  <2>1. "releaseVolumes" \in ReconcilerPC /\ "error" \in MachineState
    BY DEF ReconcilerPC, MachineState
  <2>2. recon' \in [Reconcilers -> Reconciler] /\ bus' \in [Message -> Nat]
    BY <1>7, <2>1, FinishType, ContinueType DEF ReleaseInterface
  <2>3. res' \in Resources
    <3>1. [res EXCEPT !.link = FALSE] \in Resources
      BY DEF Resources
    <3>. QED BY <1>7, <3>1, StampType DEF ReleaseInterface
  <2>4. used' \in Usage
    BY <1>7, ChargeType DEF ReleaseInterface
  <2>. QED BY <1>7, <2>2, <2>3, <2>4 DEF ReleaseInterface
<1>8. CASE ReleaseVolumes(r)
  <2>1. "terminated" \in MachineState /\ "error" \in MachineState
    BY DEF MachineState
  <2>2. recon' \in [Reconcilers -> Reconciler] /\ bus' \in [Message -> Nat]
    BY <1>8, <2>1, FinishType DEF ReleaseVolumes
  <2>3. res' \in Resources
    <3>1. [res EXCEPT !.volume = @ /\ res.memory.released] \in Resources
      BY DEF Resources, Stamps
    <3>. QED BY <1>8, <3>1, StampType DEF ReleaseVolumes
  <2>4. used' \in Usage
    BY <1>8, ChargeType DEF ReleaseVolumes
  <2>. QED BY <1>8, <2>2, <2>3, <2>4 DEF ReleaseVolumes
<1>9. CASE HoldCopyToClear(r)
  <2>1. [recon[r] EXCEPT !.copy = state] \in Reconciler
    BY DEF Reconciler
  <2>. QED BY <1>9, <2>1 DEF HoldCopyToClear
<1>10. CASE ClearReconciliation(r)
  <2>1. Latest(recon[r].copy) \in ControllerState
    BY LatestType DEF Reconciler
  <2>2. [Latest(recon[r].copy) EXCEPT !.Reconciliation = None] \in ControllerState
    BY <2>1 DEF ControllerState
  <2>3. state' \in ControllerState /\ used' \in Usage
    BY <1>10, <2>2, InstallType DEF ClearReconciliation
  <2>4. NoReconciliation \in Reconciler
    BY DEF NoReconciliation, Reconciler, ReconcilerPC
  <2>. QED BY <1>10, <2>3, <2>4 DEF ClearReconciliation
<1>. QED BY <1>1, <1>2, <1>3, <1>4, <1>5, <1>6, <1>7, <1>8, <1>9, <1>10
         DEF Reconciliation

LEMMA TypeListener ==
    ASSUME TypeOK, NEW l \in Listeners, RuntimeListener(l)
    PROVE  TypeOK'
<1>. USE DEF TypeOK
<1>1. CASE Connect(l)
  <2>1. used' \in Usage
    BY <1>1, UsageTypes DEF Connect
  <2>2. bus' \in [Message -> Nat]
    BY <1>1, MessageTypes, PublishType DEF Connect
  <2>3. [listen[l] EXCEPT !.pc = "connected"] \in Listener
    BY DEF Listener
  <2>. QED BY <1>1, <2>1, <2>2, <2>3 DEF Connect
<1>2. CASE Disconnect(l)
  <2>1. bus' \in [Message -> Nat]
    BY <1>2, MessageTypes, PublishType DEF Disconnect
  <2>2. [listen[l] EXCEPT !.pc = "loop"] \in Listener
    BY DEF Listener
  <2>. QED BY <1>2, <2>1, <2>2 DEF Disconnect
<1>3. CASE HoldCopyToExit(l)
  <2>1. [[listen[l] EXCEPT !.pc = "exit"] EXCEPT !.copy = state] \in Listener
    BY DEF Listener
  <2>2. listen' = [listen EXCEPT ![l] =
                     [[listen[l] EXCEPT !.pc = "exit"] EXCEPT !.copy = state]]
    BY <1>3 DEF HoldCopyToExit
  <2>. QED BY <1>3, <2>1, <2>2 DEF HoldCopyToExit
<1>4. CASE ClearListener(l)
  <2>1. Latest(listen[l].copy) \in ControllerState
    BY LatestType DEF Listener
  <2>2. [Latest(listen[l].copy) EXCEPT !.RuntimeListener = None,
                                       !.ConsecutiveErrorCount = 0] \in ControllerState
    BY <2>1 DEF ControllerState
  <2>3. state' \in ControllerState /\ used' \in Usage
    BY <1>4, <2>2, InstallType DEF ClearListener
  <2>4. NoListener \in Listener
    BY DEF NoListener, Listener
  <2>. QED BY <1>4, <2>3, <2>4 DEF ClearListener
<1>. QED BY <1>1, <1>2, <1>3, <1>4 DEF RuntimeListener

LEMMA TypeRuntime ==
    ASSUME TypeOK, Runtime
    PROVE  TypeOK'
<1>. USE DEF TypeOK
<1>1. CASE RuntimeReachable
  BY <1>1 DEF RuntimeReachable, Process
<1>2. CASE RuntimeExits
  BY <1>2 DEF RuntimeExits, Process
<1>3. CASE RuntimeCrashes
  <2>1. used' \in Usage
    BY <1>3, ChargeType DEF RuntimeCrashes
  <2>. QED BY <1>3, <2>1 DEF RuntimeCrashes, Process
<1>. QED BY <1>1, <1>2, <1>3 DEF Runtime

LEMMA TypeNext ==
    ASSUME TypeOK, ConstantsAssumption, [Next]_vars
    PROVE  TypeOK'
<1>1. CASE UNCHANGED vars
  BY <1>1 DEF vars, TypeOK
<1>2. CASE Next
  BY <1>2, TypeAgent, TypeDispatch, TypeStop, TypeReconciliation, TypeListener,
     TypeRuntime DEF Next
<1>. QED BY <1>1, <1>2

(* Whatever the number of goroutines and the bounds, every variable keeps  *)
(* to its type: no message is received that was not sent, and pointers     *)
(* point at goroutines that exist.                                         *)
THEOREM TypeCorrect == Spec => []TypeOK
<1>1. Init => TypeOK
  BY TypeInit, ConstantsAssumption
<1>2. TypeOK /\ [Next]_vars => TypeOK'
  BY TypeNext, ConstantsAssumption
<1>. QED BY <1>1, <1>2, PTL DEF Spec

-------------------------------------------------------------------------------
(* Pointers, goroutines and the row.                                       *)

Listening(l) == listen[l].pc # "none"

(* When startRuntimeListener is about to run there is no listener.         *)
ListenerFreeToStart ==
    NoStaleWrite /\ disp.pc = "startListener" => state.RuntimeListener = None

IInv ==
    /\ TypeOK
    /\ PointersMatchGoroutines
    /\ MemoryMatchesRow
    /\ ListenerFreeToStart

KeepsGoroutines ==
    /\ \A r \in Reconcilers : Active(r)' <=> Active(r)
    /\ \A l \in Listeners : Listening(l)' <=> Listening(l)

KeepsState == state' = state /\ used'.staleWrites = used.staleWrites

Undisturbed ==
    /\ KeepsGoroutines /\ KeepsState /\ row' = row
    /\ disp'.pc = "startListener" =>
         disp.pc = "startListener" \/ state.RuntimeListener = None

-------------------------------------------------------------------------------
(* Steps that leave pointers and goroutines alone.                         *)

LEMMA ChargeKeeps ==
    ASSUME used \in Usage, NEW failed, Charge(failed)
    PROVE  used'.staleWrites = used.staleWrites
BY DEF Charge, Usage

(* A step that installs a copy and leaves staleWrites at zero installed an *)
(* up-to-date one.                                                         *)
LEMMA InstallCurrent ==
    ASSUME used \in Usage, NEW copy, NEW updated, Install(copy, updated),
           NoStaleWrite'
    PROVE  NoStaleWrite /\ Latest(copy) = state /\ state' = updated
<1>1. used.staleWrites \in Nat /\ used'.staleWrites = 0
  BY DEF Usage, NoStaleWrite
<1>2. used'.staleWrites =
        used.staleWrites + IF Latest(copy) = state THEN 0 ELSE 1
  BY DEF Install, Usage
<1>. QED BY <1>1, <1>2 DEF NoStaleWrite, Install

LEMMA GotoKeeps ==
    ASSUME recon \in [Reconcilers -> Reconciler], NEW r \in Reconcilers, NEW pc,
           Active(r), pc # "none", Goto(r, pc)
    PROVE  \A q \in Reconcilers : Active(q)' <=> Active(q)
BY DEF Goto, Active, Reconciler

LEMMA ReconciliationUndisturbed ==
    ASSUME TypeOK, NEW r \in Reconcilers, Reconciliation(r), ~ClearReconciliation(r)
    PROVE  Undisturbed
<1>1. /\ state' = state /\ row' = row /\ listen' = listen
      /\ disp' = disp
  BY DEF Reconciliation, Probe, Terminate, AwaitExit, Prepare, ProbeStart,
     StartRuntime, ReleaseInterface, ReleaseVolumes, HoldCopyToClear
<1>2. used'.staleWrites = used.staleWrites
  <2>1. \/ used' = used \/ \E failed \in BOOLEAN : Charge(failed)
    BY DEF Reconciliation, Probe, Terminate, AwaitExit, Prepare, ProbeStart,
       StartRuntime, ReleaseInterface, ReleaseVolumes, HoldCopyToClear,
       IsMachineRuntimeStarted
  <2>. QED BY <2>1, ChargeKeeps DEF TypeOK
<1>3. \A q \in Reconcilers : Active(q)' <=> Active(q)
  <2>1. CASE HoldCopyToClear(r)
    BY <2>1 DEF HoldCopyToClear, Active, TypeOK, Reconciler
  <2>2. CASE ~HoldCopyToClear(r)
    <3>1. Active(r)
      BY <2>2 DEF Active, Reconciliation, Probe, Terminate, AwaitExit, Prepare,
         ProbeStart, StartRuntime, ReleaseInterface, ReleaseVolumes, Reaches
    <3>2. AfterRuntime(r) # "none"
      BY DEF AfterRuntime
    <3>3. \E pc : pc # "none" /\ Goto(r, pc)
      BY <2>2, <3>2 DEF Reconciliation, Probe, Terminate, AwaitExit, Prepare,
         ProbeStart, StartRuntime, ReleaseInterface, ReleaseVolumes, Finish,
         Continue
    <3>. QED BY <3>1, <3>3, GotoKeeps DEF TypeOK
  <2>. QED BY <2>1, <2>2
<1>. QED BY <1>1, <1>2, <1>3
         DEF Undisturbed, KeepsGoroutines, KeepsState, Listening

LEMMA ListenerUndisturbed ==
    ASSUME TypeOK, NEW l \in Listeners, RuntimeListener(l), ~ClearListener(l)
    PROVE  Undisturbed
<1>1. state' = state /\ row' = row /\ recon' = recon /\ disp' = disp
  BY DEF RuntimeListener, Connect, Disconnect, HoldCopyToExit
<1>2. used'.staleWrites = used.staleWrites
  BY DEF RuntimeListener, Connect, Disconnect, HoldCopyToExit, TypeOK, Usage
<1>3. \A k \in Listeners : Listening(k)' <=> Listening(k)
  BY DEF RuntimeListener, Connect, Disconnect, HoldCopyToExit, Listens,
     Listening, TypeOK, Listener
<1>. QED BY <1>1, <1>2, <1>3 DEF Undisturbed, KeepsGoroutines, KeepsState, Active

LEMMA StopUndisturbed ==
    ASSUME TypeOK, Stop
    PROVE  Undisturbed
<1>1. /\ state' = state /\ row' = row /\ disp' = disp /\ used' = used
  BY DEF Stop, StopBegins, StopTimesOut
<1>2. \A r \in Reconcilers : Active(r)' <=> Active(r)
  BY DEF Stop, StopBegins, StopTimesOut, Active, TypeOK, Reconciler
<1>3. \A l \in Listeners : Listening(l)' <=> Listening(l)
  BY DEF Stop, StopBegins, StopTimesOut, Listening, TypeOK, Listener
<1>. QED BY <1>1, <1>2, <1>3 DEF Undisturbed, KeepsGoroutines, KeepsState

LEMMA RuntimeUndisturbed ==
    ASSUME TypeOK, Runtime
    PROVE  Undisturbed
<1>1. /\ state' = state /\ row' = row /\ disp' = disp /\ recon' = recon
      /\ listen' = listen
  BY DEF Runtime, RuntimeReachable, RuntimeExits, RuntimeCrashes
<1>2. used'.staleWrites = used.staleWrites
  BY ChargeKeeps DEF Runtime, RuntimeReachable, RuntimeExits, RuntimeCrashes, TypeOK
<1>. QED BY <1>1, <1>2 DEF Undisturbed, KeepsGoroutines, KeepsState, Active, Listening

LEMMA AgentUndisturbed ==
    ASSUME TypeOK, Register \/ \E d \in Requestable : UpdateDesiredState(d)
    PROVE  Undisturbed
<1>1. /\ state' = state /\ row' = row /\ disp' = disp /\ recon' = recon
      /\ listen' = listen
  BY DEF Register, UpdateDesiredState
<1>2. used'.staleWrites = used.staleWrites
  BY DEF Register, UpdateDesiredState, TypeOK, Usage
<1>. QED BY <1>1, <1>2 DEF Undisturbed, KeepsGoroutines, KeepsState, Active, Listening

(* The second half of Assess may cancel a listener, never end it, and      *)
(* starts one only if the snapshot has none.                               *)
LEMMA ConsiderListenerKeeps ==
    ASSUME TypeOK, NEW snap, ConsiderListener(snap)
    PROVE  /\ \A l \in Listeners : Listening(l)' <=> Listening(l)
           /\ disp'.pc = "startListener" => snap.RuntimeListener = None
<1>1. \A l \in Listeners : Listening(l)' <=> Listening(l)
  BY DEF ConsiderListener, Listening, TypeOK, Listener
<1>2. disp'.pc = "startListener" => snap.RuntimeListener = None
  BY DEF ConsiderListener, Idle
<1>. QED BY <1>1, <1>2

(* Steps of the dispatcher that install nothing and start nothing.         *)
LEMMA DispatchUndisturbed ==
    ASSUME TypeOK,
           \/ \E m \in Message : HoldCopy(m)
           \/ AssessOnly \/ HoldCopyForListener \/ CountErrors \/ DispatcherReturns
    PROVE  Undisturbed
<1>1. CASE AssessOnly
  <2>1. /\ state' = state /\ row' = row /\ used' = used /\ recon' = recon
    BY <1>1 DEF AssessOnly
  <2>2. /\ \A l \in Listeners : Listening(l)' <=> Listening(l)
        /\ disp'.pc = "startListener" => state.RuntimeListener = None
    BY <1>1, ConsiderListenerKeeps DEF AssessOnly
  <2>. QED BY <2>1, <2>2 DEF Undisturbed, KeepsGoroutines, KeepsState, Active
<1>2. CASE \/ \E m \in Message : HoldCopy(m)
           \/ HoldCopyForListener \/ CountErrors \/ DispatcherReturns
  <2>1. /\ state' = state /\ row' = row /\ used' = used /\ recon' = recon
        /\ listen' = listen
    BY <1>2 DEF HoldCopy, HoldCopyForListener, CountErrors, DispatcherReturns
  <2>2. disp'.pc = "startListener" => disp.pc = "startListener"
    BY <1>2 DEF HoldCopy, HoldCopyForListener, CountErrors, DispatcherReturns,
       Idle, DispatcherAt
  <2>. QED BY <2>1, <2>2 DEF Undisturbed, KeepsGoroutines, KeepsState, Active,
           Listening
<1>. QED BY <1>1, <1>2

-------------------------------------------------------------------------------
(* Steps that install a copy in c.state.                                   *)

(* An update that is not about pointers.                                   *)
SamePointers(s, t) == /\ s.Reconciliation = t.Reconciliation
                      /\ s.RuntimeListener = t.RuntimeListener

(* Handlers that update a column or the error count, or fail to.           *)
Updates ==
    /\ KeepsGoroutines /\ disp'.pc # "startListener"
    /\ \/ KeepsState /\ row' = row
       \/ \E copy, updated \in ControllerState \cup {None} :
            /\ Install(copy, updated)
            /\ SamePointers(updated, Latest(copy))
            /\ \/ /\ row' = row /\ updated.State = Latest(copy).State
                  /\ updated.DesiredState = Latest(copy).DesiredState
               \/ /\ row' = [row EXCEPT !.State = updated.State]
                  /\ updated.DesiredState = Latest(copy).DesiredState
               \/ /\ row' = [row EXCEPT !.DesiredState = updated.DesiredState]
                  /\ updated.State = Latest(copy).State

LEMMA SaveColumnUpdates ==
    ASSUME TypeOK, NEW m \in Message, NEW column \in {"State", "DesiredState"},
           column = "State" => m.to \in MachineState,
           column = "DesiredState" => m.to \in DesiredState,
           NEW events, SaveColumn(m, column, events)
    PROVE  Updates
<1>. DEFINE copy == disp.copy
            updated == [Latest(copy) EXCEPT ![column] = m.to]
<1>1. KeepsGoroutines /\ disp'.pc # "startListener"
  BY DEF SaveColumn, Idle, KeepsGoroutines, Active, Listening
<1>2. copy \in ControllerState \cup {None} /\ Latest(copy) \in ControllerState
  BY LatestType DEF TypeOK, Dispatcher
<1>3. CASE Install(copy, updated) /\ row' = [row EXCEPT ![column] = m.to]
  <2>1. CASE column = "State"
    <3>1. updated \in ControllerState /\ SamePointers(updated, Latest(copy))
          /\ updated.State = m.to /\ updated.DesiredState = Latest(copy).DesiredState
      BY <1>2, <2>1 DEF ControllerState, SamePointers
    <3>2. row' = [row EXCEPT !.State = updated.State]
      BY <1>3, <2>1, <3>1
    <3>. QED BY <1>1, <1>2, <1>3, <3>1, <3>2 DEF Updates
  <2>2. CASE column = "DesiredState"
    <3>1. updated \in ControllerState /\ SamePointers(updated, Latest(copy))
          /\ updated.DesiredState = m.to /\ updated.State = Latest(copy).State
      BY <1>2, <2>2 DEF ControllerState, SamePointers
    <3>2. row' = [row EXCEPT !.DesiredState = updated.DesiredState]
      BY <1>3, <2>2, <3>1
    <3>. QED BY <1>1, <1>2, <1>3, <3>1, <3>2 DEF Updates
  <2>. QED BY <2>1, <2>2
<1>4. CASE Charge(~ctl.cancelled) /\ SaveError(updated)
  BY <1>1, <1>4, ChargeKeeps DEF SaveError, Updates, KeepsState, TypeOK
<1>. QED BY <1>3, <1>4 DEF SaveColumn

LEMMA HandlersUpdate ==
    ASSUME TypeOK,
           \/ \E d \in DesiredState : DesiredStateChanged(d)
           \/ \E s \in MachineState : StateChanged(s)
           \/ ListenerConnected \/ ListenerDisconnected
    PROVE  Updates
<1>1. ASSUME NEW d \in DesiredState, DesiredStateChanged(d)
      PROVE  Updates
  <2>1. DesiredMsg(d) \in Message /\ DesiredMsg(d).to = d
    BY MessageTypes DEF DesiredMsg
  <2>. QED BY <1>1, <2>1, SaveColumnUpdates DEF DesiredStateChanged
<1>2. ASSUME NEW s \in MachineState, StateChanged(s)
      PROVE  Updates
  <2>1. StateMsg(s) \in Message /\ StateMsg(s).to = s
    BY MessageTypes DEF StateMsg
  <2>. QED BY <1>2, <2>1, SaveColumnUpdates DEF StateChanged
<1>. DEFINE copy == disp.copy
            current == Latest(copy)
<1>3. copy \in ControllerState \cup {None} /\ current \in ControllerState
  BY LatestType DEF TypeOK, Dispatcher
<1>4. ASSUME NEW n \in Nat, Install(copy, [current EXCEPT !.ConsecutiveErrorCount = n]),
             row' = row, KeepsGoroutines, disp'.pc # "startListener"
      PROVE  Updates
  <2>. DEFINE updated == [current EXCEPT !.ConsecutiveErrorCount = n]
  <2>1. /\ updated \in ControllerState /\ SamePointers(updated, current)
        /\ updated.State = current.State
        /\ updated.DesiredState = current.DesiredState
    BY <1>3 DEF ControllerState, SamePointers
  <2>. QED BY <1>3, <1>4, <2>1 DEF Updates
<1>5. CASE ListenerConnected
  <2>1. KeepsGoroutines /\ disp'.pc # "startListener" /\ row' = row
    BY <1>5 DEF ListenerConnected, Idle, KeepsGoroutines, Active, Listening
  <2>2. CASE current.RuntimeListener = None
    BY <1>5, <2>1, <2>2 DEF ListenerConnected, Updates, KeepsState
  <2>3. CASE current.RuntimeListener # None
    BY <1>4, <1>5, <2>1, <2>3 DEF ListenerConnected
  <2>. QED BY <2>2, <2>3
<1>6. CASE ListenerDisconnected
  <2>1. KeepsGoroutines /\ disp'.pc # "startListener" /\ row' = row
    BY <1>6 DEF ListenerDisconnected, Idle, KeepsGoroutines, Active, Listening
  <2>. DEFINE n == IF current.RuntimeListener = None
                   THEN current.ConsecutiveErrorCount
                   ELSE current.ConsecutiveErrorCount + 1
  <2>2. n \in Nat
    BY <1>3 DEF ControllerState
  <2>3. Install(copy, [current EXCEPT !.ConsecutiveErrorCount = n])
    BY <1>6 DEF ListenerDisconnected
  <2>. QED BY <1>4, <2>1, <2>2, <2>3
<1>. QED BY <1>1, <1>2, <1>5, <1>6

-------------------------------------------------------------------------------
(* The invariant behind PointersMatchGoroutines and MemoryMatchesRow.      *)

LEMMA SafetyInit == ASSUME TypeOK, Init PROVE IInv
<1>1. \A r \in Reconcilers : ~Active(r)
  BY DEF Init, Active, NoReconciliation
<1>2. \A l \in Listeners : ~Listening(l)
  BY DEF Init, Listening, NoListener
<1>3. /\ state.Reconciliation = None /\ state.RuntimeListener = None
      /\ state.State = row.State /\ state.DesiredState = row.DesiredState
  BY DEF Init, Fresh
<1>4. None \notin Reconcilers \cup Listeners
  BY ConstantsAssumption DEF ConstantsAssumption
<1>. QED BY <1>1, <1>2, <1>3, <1>4
         DEF IInv, PointersMatchGoroutines, Listening, MemoryMatchesRow,
             ListenerFreeToStart

LEMMA SafetyUndisturbed ==
    ASSUME IInv, TypeOK', Undisturbed
    PROVE  IInv'
<1>1. NoStaleWrite' => NoStaleWrite
  BY DEF NoStaleWrite, Undisturbed, KeepsState
<1>2. PointersMatchGoroutines'
  BY <1>1 DEF IInv, PointersMatchGoroutines, Undisturbed, KeepsState,
     KeepsGoroutines, Listening
<1>3. MemoryMatchesRow'
  BY <1>1 DEF IInv, MemoryMatchesRow, Undisturbed, KeepsState
<1>4. ListenerFreeToStart'
  BY <1>1 DEF IInv, ListenerFreeToStart, Undisturbed, KeepsState
<1>. QED BY <1>2, <1>3, <1>4 DEF IInv

LEMMA SafetyUpdates ==
    ASSUME IInv, TypeOK', Updates
    PROVE  IInv'
<1>1. CASE KeepsState /\ row' = row
  <2>1. Undisturbed
    BY <1>1 DEF Updates, Undisturbed
  <2>. QED BY <2>1, SafetyUndisturbed
<1>2. ASSUME NEW copy \in ControllerState \cup {None},
             NEW updated \in ControllerState \cup {None},
             Install(copy, updated), SamePointers(updated, Latest(copy)),
             \/ /\ row' = row /\ updated.State = Latest(copy).State
                /\ updated.DesiredState = Latest(copy).DesiredState
             \/ /\ row' = [row EXCEPT !.State = updated.State]
                /\ updated.DesiredState = Latest(copy).DesiredState
             \/ /\ row' = [row EXCEPT !.DesiredState = updated.DesiredState]
                /\ updated.State = Latest(copy).State
      PROVE  IInv'
  <2>1. ASSUME NoStaleWrite'
        PROVE  /\ NoStaleWrite /\ Latest(copy) = state /\ state' = updated
    BY <1>2, <2>1, InstallCurrent DEF IInv, TypeOK
  <2>2. PointersMatchGoroutines'
    <3>1. ASSUME NoStaleWrite'
          PROVE  /\ state'.Reconciliation = state.Reconciliation
                 /\ state'.RuntimeListener = state.RuntimeListener
      BY <1>2, <2>1, <3>1 DEF SamePointers
    <3>. QED BY <2>1, <3>1 DEF IInv, Updates, PointersMatchGoroutines,
             KeepsGoroutines, Listening
  <2>3. MemoryMatchesRow'
    BY <1>2, <2>1 DEF IInv, TypeOK, Row, MemoryMatchesRow
  <2>4. ListenerFreeToStart'
    BY DEF Updates, ListenerFreeToStart
  <2>. QED BY <2>2, <2>3, <2>4 DEF IInv
<1>. QED BY <1>1, <1>2 DEF Updates

LEMMA SafetyRestart ==
    ASSUME IInv, TypeOK', Restart
    PROVE  IInv'
<1>1. \A r \in Reconcilers : ~Active(r)'
  BY DEF Restart, Active, NoReconciliation
<1>2. \A l \in Listeners : ~Listening(l)'
  BY DEF Restart, Listening, NoListener
<1>3. /\ state'.Reconciliation = None /\ state'.RuntimeListener = None
      /\ state'.State = row'.State /\ state'.DesiredState = row'.DesiredState
  BY DEF Restart, Fresh
<1>4. None \notin Reconcilers \cup Listeners
  BY ConstantsAssumption DEF ConstantsAssumption
<1>. QED BY <1>1, <1>2, <1>3, <1>4
         DEF IInv, PointersMatchGoroutines, Listening, MemoryMatchesRow,
             ListenerFreeToStart

(* A reconciliation begins only where the copy had none, so where c.state  *)
(* has none.                                                               *)
LEMMA SafetyReconcile ==
    ASSUME IInv, TypeOK', NEW r \in Reconcilers, Reconcile(r)
    PROVE  IInv'
<1>. DEFINE snap == Latest(disp.copy)
            updated == [snap EXCEPT !.Reconciliation = r]
<1>1. snap \in ControllerState /\ snap.Reconciliation = None
  BY LatestType DEF IInv, TypeOK, Dispatcher, Reconcile, Busy
<1>2. /\ updated.Reconciliation = r
      /\ updated.RuntimeListener = snap.RuntimeListener
      /\ updated.State = snap.State /\ updated.DesiredState = snap.DesiredState
  BY <1>1 DEF ControllerState
<1>3. ASSUME NoStaleWrite'
      PROVE  /\ NoStaleWrite /\ snap = state /\ state' = updated
  BY <1>3, InstallCurrent DEF IInv, TypeOK, Reconcile
<1>4. /\ \A l \in Listeners : Listening(l)' <=> Listening(l)
      /\ disp'.pc = "startListener" => snap.RuntimeListener = None
  BY ConsiderListenerKeeps DEF Reconcile, IInv
<1>5. \A q \in Reconcilers : Active(q)' <=> q = r \/ Active(q)
  BY DEF Reconcile, Active, NoReconciliation, IInv, TypeOK
<1>6. PointersMatchGoroutines'
  <2>1. ASSUME NoStaleWrite', NEW q \in Reconcilers
        PROVE  (Active(q) <=> state.Reconciliation = q)'
    <3>1. ~Active(q)
      BY <1>1, <1>3, <2>1, ConstantsAssumption
         DEF IInv, PointersMatchGoroutines, ConstantsAssumption
    <3>. QED BY <1>2, <1>3, <1>5, <2>1, <3>1
  <2>2. ASSUME NoStaleWrite', NEW l \in Listeners
        PROVE  (listen[l].pc # "none" <=> state.RuntimeListener = l)'
    BY <1>2, <1>3, <1>4, <2>2 DEF IInv, PointersMatchGoroutines, Listening
  <2>. QED BY <2>1, <2>2 DEF PointersMatchGoroutines
<1>7. MemoryMatchesRow'
  BY <1>2, <1>3 DEF IInv, MemoryMatchesRow, Reconcile
<1>8. ListenerFreeToStart'
  BY <1>2, <1>3, <1>4 DEF ListenerFreeToStart
<1>. QED BY <1>6, <1>7, <1>8 DEF IInv

LEMMA SafetyStartListener ==
    ASSUME IInv, TypeOK', NEW l \in Listeners, startRuntimeListener(l)
    PROVE  IInv'
<1>. DEFINE snap == Latest(disp.copy)
            updated == [snap EXCEPT !.RuntimeListener = l,
                                    !.ConsecutiveErrorCount = 0]
<1>1. snap \in ControllerState
  BY LatestType DEF IInv, TypeOK, Dispatcher
<1>2. /\ updated.Reconciliation = snap.Reconciliation
      /\ updated.RuntimeListener = l
      /\ updated.State = snap.State /\ updated.DesiredState = snap.DesiredState
  BY <1>1 DEF ControllerState
<1>3. ASSUME NoStaleWrite'
      PROVE  /\ NoStaleWrite /\ snap = state /\ state' = updated
  BY <1>3, InstallCurrent DEF IInv, TypeOK, startRuntimeListener
<1>4. \A k \in Listeners : Listening(k)' <=> k = l \/ Listening(k)
  BY DEF startRuntimeListener, Listening, NoListener, IInv, TypeOK
<1>5. \A q \in Reconcilers : Active(q)' <=> Active(q)
  BY DEF startRuntimeListener, Active
<1>6. PointersMatchGoroutines'
  <2>1. ASSUME NoStaleWrite', NEW k \in Listeners
        PROVE  (listen[k].pc # "none" <=> state.RuntimeListener = k)'
    <3>1. state.RuntimeListener = None
      BY <1>3, <2>1 DEF IInv, ListenerFreeToStart, startRuntimeListener, DispatcherAt
    <3>2. ~Listening(k)
      BY <1>3, <2>1, <3>1, ConstantsAssumption
         DEF IInv, PointersMatchGoroutines, ConstantsAssumption, Listening
    <3>. QED BY <1>2, <1>3, <1>4, <2>1, <3>2 DEF Listening
  <2>2. ASSUME NoStaleWrite', NEW q \in Reconcilers
        PROVE  (Active(q) <=> state.Reconciliation = q)'
    BY <1>2, <1>3, <1>5, <2>2 DEF IInv, PointersMatchGoroutines
  <2>. QED BY <2>1, <2>2 DEF PointersMatchGoroutines
<1>7. MemoryMatchesRow'
  BY <1>2, <1>3 DEF IInv, MemoryMatchesRow, startRuntimeListener
<1>8. ListenerFreeToStart'
  BY DEF startRuntimeListener, ListenerFreeToStart, Idle
<1>. QED BY <1>6, <1>7, <1>8 DEF IInv

LEMMA SafetyClearReconciliation ==
    ASSUME IInv, TypeOK', NEW r \in Reconcilers, ClearReconciliation(r)
    PROVE  IInv'
<1>. DEFINE snap == Latest(recon[r].copy)
            updated == [snap EXCEPT !.Reconciliation = None]
<1>1. snap \in ControllerState /\ Active(r)
  BY LatestType DEF IInv, TypeOK, Reconciler, ClearReconciliation, Reaches, Active
<1>2. /\ updated.Reconciliation = None
      /\ updated.RuntimeListener = snap.RuntimeListener
      /\ updated.State = snap.State /\ updated.DesiredState = snap.DesiredState
  BY <1>1 DEF ControllerState
<1>3. ASSUME NoStaleWrite'
      PROVE  /\ NoStaleWrite /\ snap = state /\ state' = updated
  BY <1>3, InstallCurrent DEF IInv, TypeOK, ClearReconciliation
<1>4. \A q \in Reconcilers : Active(q)' <=> q # r /\ Active(q)
  BY DEF ClearReconciliation, Active, NoReconciliation, IInv, TypeOK
<1>5. \A l \in Listeners : Listening(l)' <=> Listening(l)
  BY DEF ClearReconciliation, Listening
<1>6. PointersMatchGoroutines'
  <2>1. ASSUME NoStaleWrite', NEW q \in Reconcilers
        PROVE  (Active(q) <=> state.Reconciliation = q)'
    <3>1. ~Active(q)'
      BY <1>1, <1>3, <1>4, <2>1 DEF IInv, PointersMatchGoroutines
    <3>. QED BY <1>2, <1>3, <2>1, <3>1, ConstantsAssumption DEF ConstantsAssumption
  <2>2. ASSUME NoStaleWrite', NEW l \in Listeners
        PROVE  (listen[l].pc # "none" <=> state.RuntimeListener = l)'
    BY <1>2, <1>3, <1>5, <2>2 DEF IInv, PointersMatchGoroutines, Listening
  <2>. QED BY <2>1, <2>2 DEF PointersMatchGoroutines
<1>7. MemoryMatchesRow'
  BY <1>2, <1>3 DEF IInv, MemoryMatchesRow, ClearReconciliation
<1>8. ListenerFreeToStart'
  BY <1>2, <1>3 DEF IInv, ListenerFreeToStart, ClearReconciliation
<1>. QED BY <1>6, <1>7, <1>8 DEF IInv

LEMMA SafetyClearListener ==
    ASSUME IInv, TypeOK', NEW l \in Listeners, ClearListener(l)
    PROVE  IInv'
<1>. DEFINE snap == Latest(listen[l].copy)
            updated == [snap EXCEPT !.RuntimeListener = None,
                                    !.ConsecutiveErrorCount = 0]
<1>1. snap \in ControllerState /\ Listening(l)
  BY LatestType DEF IInv, TypeOK, Listener, ClearListener, Listens, Listening
<1>2. /\ updated.Reconciliation = snap.Reconciliation
      /\ updated.RuntimeListener = None
      /\ updated.State = snap.State /\ updated.DesiredState = snap.DesiredState
  BY <1>1 DEF ControllerState
<1>3. ASSUME NoStaleWrite'
      PROVE  /\ NoStaleWrite /\ snap = state /\ state' = updated
  BY <1>3, InstallCurrent DEF IInv, TypeOK, ClearListener
<1>4. \A k \in Listeners : Listening(k)' <=> k # l /\ Listening(k)
  BY DEF ClearListener, Listening, NoListener, IInv, TypeOK
<1>5. \A q \in Reconcilers : Active(q)' <=> Active(q)
  BY DEF ClearListener, Active
<1>6. PointersMatchGoroutines'
  <2>1. ASSUME NoStaleWrite', NEW k \in Listeners
        PROVE  (listen[k].pc # "none" <=> state.RuntimeListener = k)'
    <3>1. ~Listening(k)'
      BY <1>1, <1>3, <1>4, <2>1 DEF IInv, PointersMatchGoroutines, Listening
    <3>. QED BY <1>2, <1>3, <2>1, <3>1, ConstantsAssumption
             DEF ConstantsAssumption, Listening
  <2>2. ASSUME NoStaleWrite', NEW q \in Reconcilers
        PROVE  (Active(q) <=> state.Reconciliation = q)'
    BY <1>2, <1>3, <1>5, <2>2 DEF IInv, PointersMatchGoroutines
  <2>. QED BY <2>1, <2>2 DEF PointersMatchGoroutines
<1>7. MemoryMatchesRow'
  BY <1>2, <1>3 DEF IInv, MemoryMatchesRow, ClearListener
<1>8. ListenerFreeToStart'
  BY <1>2, <1>3 DEF IInv, ListenerFreeToStart, ClearListener
<1>. QED BY <1>6, <1>7, <1>8 DEF IInv

(* Every step is one of those above.                                       *)
LEMMA StepKinds ==
    ASSUME TypeOK, Next
    PROVE  \/ Undisturbed \/ Updates \/ Restart
           \/ \E r \in Reconcilers : Reconcile(r) \/ ClearReconciliation(r)
           \/ \E l \in Listeners : startRuntimeListener(l) \/ ClearListener(l)
<1>1. CASE Register \/ \E d \in Requestable : UpdateDesiredState(d)
  BY <1>1, AgentUndisturbed
<1>2. CASE Dispatch
  BY <1>2, DispatchUndisturbed, HandlersUpdate DEF Dispatch
<1>3. CASE Stop \/ Runtime
  BY <1>3, StopUndisturbed, RuntimeUndisturbed
<1>4. CASE \E r \in Reconcilers : Reconciliation(r)
  BY <1>4, ReconciliationUndisturbed
<1>5. CASE \E l \in Listeners : RuntimeListener(l)
  BY <1>5, ListenerUndisturbed
<1>. QED BY <1>1, <1>2, <1>3, <1>4, <1>5 DEF Next

LEMMA SafetyNext ==
    ASSUME IInv, [Next]_vars
    PROVE  IInv'
<1>1. TypeOK /\ TypeOK'
  BY TypeNext, ConstantsAssumption DEF IInv
<1>2. CASE UNCHANGED vars
  <2>1. Undisturbed
    BY <1>2 DEF vars, Undisturbed, KeepsGoroutines, KeepsState, Active, Listening
  <2>. QED BY <1>1, <2>1, SafetyUndisturbed
<1>3. CASE Next
  BY <1>1, <1>3, StepKinds, SafetyUndisturbed, SafetyUpdates, SafetyRestart,
     SafetyReconcile, SafetyStartListener, SafetyClearReconciliation,
     SafetyClearListener
<1>. QED BY <1>2, <1>3

LEMMA SafetyInvariant == Spec => []IInv
<1>1. Init => IInv
  BY TypeInit, SafetyInit, ConstantsAssumption
<1>2. IInv /\ [Next]_vars => IInv'
  BY SafetyNext
<1>. QED BY <1>1, <1>2, PTL DEF Spec

(* As long as no SetState installed an outdated copy, c.state points at    *)
(* every running reconciliation and listener: there is never a second one, *)
(* and none is left running that nothing can cancel.                       *)
THEOREM PointersCorrect == Spec => []PointersMatchGoroutines
<1>1. IInv => PointersMatchGoroutines
  BY DEF IInv
<1>. QED BY <1>1, SafetyInvariant, PTL

(* Under the same condition c.state and the machine's row agree, whichever *)
(* saves failed and however often the agent restarted.                     *)
THEOREM MemoryCorrect == Spec => []MemoryMatchesRow
<1>1. IInv => MemoryMatchesRow
  BY DEF IInv
<1>. QED BY <1>1, SafetyInvariant, PTL

(* Once Stop was called no reconciliation begins in this controller: the   *)
(* check of `stopping' is made in the dispatcher, after every other        *)
(* decision.                                                               *)
THEOREM StoppedCorrect == Spec => StoppedBeginsNothing
<1>. DEFINE A == ctl.stopping /\ ctl'.stopping =>
                   \A r \in Reconcilers : ~Active(r) => ~Active(r)'
<1>1. ASSUME TypeOK, [Next]_vars PROVE [A]_vars
  <2>1. CASE UNCHANGED vars
    BY <2>1
  <2>2. ASSUME Next, KeepsGoroutines PROVE A
    BY <2>2 DEF KeepsGoroutines
  <2>3. CASE Restart
    BY <2>3 DEF Restart, NewController
  <2>4. CASE \E r \in Reconcilers : Reconcile(r)
    BY <2>4 DEF Reconcile, Busy
  <2>5. CASE \E r \in Reconcilers : ClearReconciliation(r)
    BY <2>5 DEF ClearReconciliation, Active, NoReconciliation, TypeOK
  <2>6. CASE \E l \in Listeners : startRuntimeListener(l) \/ ClearListener(l)
    BY <2>6 DEF startRuntimeListener, ClearListener, Active
  <2>. QED BY <1>1, <2>1, <2>2, <2>3, <2>4, <2>5, <2>6, StepKinds
           DEF Undisturbed, Updates
<1>. QED BY <1>1, TypeCorrect, PTL DEF Spec, StoppedBeginsNothing

-------------------------------------------------------------------------------
(* Outdated copies and overlapping reconciliations.                        *)

Running == {r \in Reconcilers : Active(r)}

(* The reconciliations c.state has lost sight of: each of them cost the    *)
(* controller an outdated copy.                                            *)
OverlapInv ==
    /\ TypeOK
    /\ IsFiniteSet(Running)
    /\ Cardinality(Running \ {state.Reconciliation}) <= used.staleWrites

LEMMA RunningSizes ==
    ASSUME IsFiniteSet(Running), NEW x
    PROVE  /\ IsFiniteSet(Running \ {x})
           /\ Cardinality(Running) \in Nat /\ Cardinality(Running \ {x}) \in Nat
           /\ x \in Running => Cardinality(Running \ {x}) = Cardinality(Running) - 1
           /\ x \notin Running => Cardinality(Running \ {x}) = Cardinality(Running)
BY FS_RemoveElement, FS_CardinalityType

(* All of them, the one c.state points at included.                        *)
LEMMA AllRunning ==
    ASSUME OverlapInv
    PROVE  /\ Cardinality(Running) \in Nat /\ used.staleWrites \in Nat
           /\ Cardinality(Running) <= used.staleWrites + 1
           /\ state.Reconciliation \notin Running =>
                Cardinality(Running) <= used.staleWrites
<1>. DEFINE x == state.Reconciliation
            n == Cardinality(Running)
            k == Cardinality(Running \ {x})
<1>1. used.staleWrites \in Nat /\ k <= used.staleWrites
  BY DEF OverlapInv, TypeOK, Usage
<1>2. /\ n \in Nat /\ k \in Nat
      /\ x \in Running => k = n - 1
      /\ x \notin Running => k = n
  BY RunningSizes DEF OverlapInv
<1>. HIDE DEF n, k
<1>3. n <= used.staleWrites + 1 /\ (x \notin Running => n <= used.staleWrites)
  BY <1>1, <1>2
<1>. QED BY <1>1, <1>2, <1>3 DEF n

(* What an installed copy may do to the sum: an up-to-date one that keeps  *)
(* the pointer nothing, an outdated one is paid for.                       *)
LEMMA OverlapInstall ==
    ASSUME OverlapInv, TypeOK', NEW copy, NEW updated, Install(copy, updated),
           updated.Reconciliation = Latest(copy).Reconciliation, Running' = Running
    PROVE  OverlapInv'
<1>1. used.staleWrites \in Nat /\ state' = updated
      /\ used'.staleWrites = used.staleWrites + IF Latest(copy) = state THEN 0 ELSE 1
  BY DEF OverlapInv, TypeOK, Usage, Install
<1>2. CASE Latest(copy) = state
  BY <1>1, <1>2 DEF OverlapInv
<1>3. CASE Latest(copy) # state
  <2>. DEFINE x == state'.Reconciliation
              n == Cardinality(Running)
              k == Cardinality(Running \ {x})
  <2>1. n \in Nat /\ n <= used.staleWrites + 1
    BY AllRunning
  <2>2. k \in Nat /\ (k = n - 1 \/ k = n)
    BY RunningSizes DEF OverlapInv
  <2>. HIDE DEF n, k
  <2>3. k <= used'.staleWrites
    BY <1>1, <1>3, <2>1, <2>2
  <2>. QED BY <2>3 DEF OverlapInv, k
<1>. QED BY <1>2, <1>3

LEMMA OverlapReconcile ==
    ASSUME OverlapInv, TypeOK', NEW r \in Reconcilers, Reconcile(r)
    PROVE  OverlapInv'
<1>. DEFINE snap == Latest(disp.copy)
            updated == [snap EXCEPT !.Reconciliation = r]
<1>1. snap \in ControllerState /\ snap.Reconciliation = None
  BY LatestType DEF OverlapInv, TypeOK, Dispatcher, Reconcile, Busy
<1>2. state'.Reconciliation = r /\ used.staleWrites \in Nat
      /\ used'.staleWrites = used.staleWrites + IF snap = state THEN 0 ELSE 1
  BY <1>1 DEF OverlapInv, TypeOK, Usage, Install, Reconcile, ControllerState
<1>3. Running' = Running \cup {r} /\ r \notin Running
  BY DEF Running, Reconcile, Active, NoReconciliation, OverlapInv, TypeOK
<1>4. IsFiniteSet(Running') /\ Running' \ {r} = Running
  BY <1>3, FS_AddElement DEF OverlapInv
<1>5. Cardinality(Running) <= used'.staleWrites
  <2>1. CASE snap = state
    <3>1. None \notin Running
      BY ConstantsAssumption DEF ConstantsAssumption, Running
    <3>. QED BY <1>1, <1>2, <2>1, <3>1, AllRunning
  <2>2. CASE snap # state
    BY <1>2, <2>2, AllRunning
  <2>. QED BY <2>1, <2>2
<1>. QED BY <1>2, <1>4, <1>5 DEF OverlapInv

LEMMA OverlapClear ==
    ASSUME OverlapInv, TypeOK', NEW r \in Reconcilers, ClearReconciliation(r)
    PROVE  OverlapInv'
<1>. DEFINE snap == Latest(recon[r].copy)
<1>1. snap \in ControllerState /\ r \in Running
  BY LatestType DEF OverlapInv, TypeOK, Reconciler, ClearReconciliation, Reaches,
     Active, Running
<1>2. state'.Reconciliation = None /\ used.staleWrites \in Nat
      /\ used'.staleWrites \in Nat /\ used'.staleWrites >= used.staleWrites
  BY <1>1 DEF OverlapInv, TypeOK, Usage, Install, ClearReconciliation, ControllerState
<1>3. Running' = Running \ {r}
  BY DEF Running, ClearReconciliation, Active, NoReconciliation, OverlapInv, TypeOK
<1>4. Running' \ {None} = Running'
  BY ConstantsAssumption DEF ConstantsAssumption, Running
<1>5. IsFiniteSet(Running') /\ Cardinality(Running') <= used.staleWrites
  <2>1. /\ IsFiniteSet(Running \ {r})
        /\ Cardinality(Running \ {r}) = Cardinality(Running) - 1
    BY <1>1, RunningSizes DEF OverlapInv
  <2>2. Cardinality(Running) \in Nat /\ Cardinality(Running) <= used.staleWrites + 1
    BY AllRunning
  <2>. QED BY <1>2, <1>3, <2>1, <2>2
<1>6. Cardinality(Running') \in Nat
  BY <1>5, FS_CardinalityType
<1>. QED BY <1>2, <1>4, <1>5, <1>6 DEF OverlapInv

LEMMA OverlapNext ==
    ASSUME OverlapInv, [Next]_vars
    PROVE  OverlapInv'
<1>1. TypeOK /\ TypeOK'
  BY TypeNext, ConstantsAssumption DEF OverlapInv
<1>2. ASSUME KeepsGoroutines PROVE Running' = Running
  BY <1>2 DEF KeepsGoroutines, Running
<1>3. ASSUME KeepsGoroutines, KeepsState PROVE OverlapInv'
  BY <1>1, <1>2, <1>3 DEF OverlapInv, KeepsState
<1>4. CASE UNCHANGED vars
  BY <1>3, <1>4 DEF vars, KeepsGoroutines, KeepsState, Active, Listening
<1>5. CASE Undisturbed
  BY <1>3, <1>5 DEF Undisturbed
<1>6. CASE Updates
  BY <1>1, <1>2, <1>3, <1>6, OverlapInstall DEF Updates, SamePointers
<1>7. CASE Restart
  <2>1. Running' = {}
    BY <1>7 DEF Restart, Running, Active, NoReconciliation
  <2>2. used'.staleWrites \in Nat
    BY <1>1 DEF TypeOK, Usage
  <2>. QED BY <1>1, <2>1, <2>2, FS_EmptySet DEF OverlapInv
<1>8. CASE \E l \in Listeners : startRuntimeListener(l) \/ ClearListener(l)
  <2>1. Running' = Running
    BY <1>8 DEF startRuntimeListener, ClearListener, Running, Active
  <2>2. ASSUME NEW l \in Listeners, startRuntimeListener(l) PROVE OverlapInv'
    <3>1. Latest(disp.copy) \in ControllerState
      BY <1>1, LatestType DEF TypeOK, Dispatcher
    <3>2. [Latest(disp.copy) EXCEPT !.RuntimeListener = l, !.ConsecutiveErrorCount = 0]
            .Reconciliation = Latest(disp.copy).Reconciliation
      BY <3>1 DEF ControllerState
    <3>. QED BY <1>1, <2>1, <2>2, <3>2, OverlapInstall DEF startRuntimeListener
  <2>3. ASSUME NEW l \in Listeners, ClearListener(l) PROVE OverlapInv'
    <3>1. Latest(listen[l].copy) \in ControllerState
      BY <1>1, LatestType DEF TypeOK, Listener
    <3>2. [Latest(listen[l].copy) EXCEPT !.RuntimeListener = None,
                                         !.ConsecutiveErrorCount = 0]
            .Reconciliation = Latest(listen[l].copy).Reconciliation
      BY <3>1 DEF ControllerState
    <3>. QED BY <1>1, <2>1, <2>3, <3>2, OverlapInstall DEF ClearListener
  <2>. QED BY <1>8, <2>2, <2>3
<1>9. CASE \E r \in Reconcilers : Reconcile(r) \/ ClearReconciliation(r)
  BY <1>1, <1>9, OverlapReconcile, OverlapClear
<1>. QED BY <1>1, <1>4, <1>5, <1>6, <1>7, <1>8, <1>9, StepKinds

(* Every reconciliation beyond the first that runs at the same time was    *)
(* let in by a SetState that installed an outdated copy: there are never   *)
(* more of them than such copies, however many goroutines there may be.    *)
THEOREM OverlapCorrect == Spec => []OverlapCostsStaleWrites
<1>1. Init => OverlapInv
  <2>1. ASSUME Init PROVE Running = {} /\ used.staleWrites = 0
    BY <2>1 DEF Init, Running, Active, NoReconciliation
  <2>. QED BY <2>1, TypeInit, ConstantsAssumption, FS_EmptySet DEF OverlapInv
<1>2. OverlapInv /\ [Next]_vars => OverlapInv'
  BY OverlapNext
<1>3. OverlapInv => OverlapCostsStaleWrites
  BY AllRunning DEF OverlapCostsStaleWrites, Running
<1>. QED BY <1>1, <1>2, <1>3, PTL DEF Spec
-------------------------------------------------------------------------------
(* The row of a stopped controller.                                        *)

LEMMA StepCases ==
    ASSUME Next
    PROVE  \/ Register \/ Restart \/ Stop \/ Runtime
           \/ \E d \in Requestable : UpdateDesiredState(d)
           \/ \E m \in Message : HoldCopy(m)
           \/ AssessOnly \/ HoldCopyForListener \/ CountErrors \/ DispatcherReturns
           \/ \E r \in Reconcilers : Reconcile(r)
           \/ \E l \in Listeners : startRuntimeListener(l)
           \/ \E d \in DesiredState : DesiredStateChanged(d)
           \/ \E s \in MachineState : StateChanged(s)
           \/ ListenerConnected \/ ListenerDisconnected
           \/ \E r \in Reconcilers : Reconciliation(r)
           \/ \E l \in Listeners : RuntimeListener(l)
BY DEF Next, Dispatch

(* Only a StateMsg is a message about that state.                          *)
LEMMA MessagesApart ==
    /\ \A s \in MachineState : StateMsg(s) \notin {Assess, Connected, Disconnected}
    /\ \A s \in MachineState, d \in DesiredState : StateMsg(s) # DesiredMsg(d)
    /\ \A s, t \in MachineState : s # t => StateMsg(s) # StateMsg(t)
<1>1. \A s : StateMsg(s).type = "StateChanged" /\ StateMsg(s).to = s
  BY DEF StateMsg
<1>2. /\ Assess.type = "Assess" /\ Connected.type = "Connected"
      /\ Disconnected.type = "Disconnected"
      /\ \A d : DesiredMsg(d).type = "DesiredStateChanged"
  BY DEF Assess, Connected, Disconnected, DesiredMsg
<1>. QED BY <1>1, <1>2

(* The dispatcher is about to save the state terminated.                   *)
HandlesEnd == disp.pc = "handle" /\ disp.msg = StateMsg("terminated")

(* How far Stop has come, and that it was called because of a message that *)
(* is still to be saved, was saved, or could not be.  Nothing is received  *)
(* while Stop is under way, and nothing is saved after it.                 *)
StopInv ==
    /\ ctl.stopping <=> ctl.stop \in {"waiting", "done"}
    /\ ctl.cancelled <=> ctl.stop = "done"
    /\ ctl.stop = "done" => ~ctl.registered
    /\ ctl.stop \in {"called", "waiting"} => disp.pc = "idle" \/ HandlesEnd
    /\ ctl.stop # "none" =>
         row.State = "terminated" \/ "unrecorded" \in seen \/ HandlesEnd

(* Whatever the dispatcher handles but that message comes when Stop is not *)
(* under way, and does not call it.                                        *)
LEMMA OtherMessages ==
    ASSUME TypeOK, StopInv, NEW m \in Message, m # StateMsg("terminated"), Handles(m)
    PROVE  /\ ctl.stop \notin {"called", "waiting"} /\ ~HandlesEnd
           /\ CallStop(m) => ctl' = ctl
<1>1. ctl.stop \notin {"called", "waiting"} /\ ~HandlesEnd
  BY DEF Handles, Receives, DispatcherAt, StopInv, HandlesEnd
<1>. QED BY <1>1 DEF CallStop, StopOn

LEMMA StopSaves ==
    ASSUME TypeOK, TypeOK', StopInv, NEW s \in MachineState, StateChanged(s)
    PROVE  StopInv'
<1>. DEFINE m == StateMsg(s)
<1>1. /\ m \in Message /\ m.to = s /\ Handles(m) /\ CallStop(m)
      /\ disp'.pc = "idle"
  BY MessageTypes DEF StateChanged, SaveColumn, StateMsg, Idle
<1>2. \/ ~ctl.cancelled /\ row'.State = s /\ seen \subseteq seen'
      \/ row' = row /\ seen' = seen \cup Note("unrecorded", Stops(m))
  BY <1>1 DEF StateChanged, SaveColumn, SaveError, TypeOK, Row
<1>3. CASE s # "terminated"
  <2>1. /\ ctl.stop \notin {"called", "waiting"} /\ ~HandlesEnd
        /\ ctl' = ctl
    BY <1>1, <1>3, OtherMessages, MessagesApart DEF MachineState
  <2>. QED BY <1>1, <1>2, <2>1 DEF StopInv, HandlesEnd, TypeOK, Control
<1>4. CASE s = "terminated"
  <2>1. ctl'.stop # "none" => row'.State = "terminated" \/ "unrecorded" \in seen'
    <3>1. CASE Stops(m)
      BY <1>2, <1>4, <3>1 DEF Note
    <3>2. CASE ~Stops(m) /\ ctl'.stop # "none"
      <4>1. ctl.stop = "done" /\ ~HandlesEnd
        BY <1>4, <3>2 DEF Stops, HandlesEnd
      <4>2. row.State = "terminated" \/ "unrecorded" \in seen
        BY <4>1 DEF StopInv
      <4>. QED BY <1>2, <1>4, <4>2
    <3>. QED BY <3>1, <3>2
  <2>2. CASE ctl' = ctl
    BY <1>1, <2>1, <2>2 DEF StopInv
  <2>3. CASE ctl' # ctl
    <3>1. /\ ctl' = [ctl EXCEPT !.stop = "called"] /\ ctl.registered
          /\ disp.pc = "idle"
      BY <1>1, <2>3 DEF CallStop, StopOn
    <3>2. ctl.stop \notin {"called", "waiting"}
      BY <1>1, <3>1 DEF Handles, Receives, DispatcherAt
    <3>3. ctl.stop = "none"
      BY <3>1, <3>2 DEF StopInv, TypeOK, Control
    <3>4. ctl'.stop = "called" /\ ctl'.stopping = ctl.stopping
          /\ ctl'.cancelled = ctl.cancelled
      BY <3>1 DEF TypeOK, Control
    <3>. QED BY <1>1, <2>1, <3>3, <3>4 DEF StopInv
  <2>. QED BY <2>2, <2>3
<1>. QED BY <1>3, <1>4

LEMMA StopHolds ==
    ASSUME TypeOK, TypeOK', StopInv, NEW m \in Message, HoldCopy(m)
    PROVE  StopInv'
<1>1. /\ disp.pc = "idle" /\ ctl.stop \notin {"called", "waiting"}
      /\ disp'.pc = "handle" /\ disp'.msg = m /\ row' = row /\ seen' = seen
      /\ CallStop(m)
  BY DEF HoldCopy, Receives, DispatcherAt
<1>2. CASE ctl' = ctl
  BY <1>1, <1>2 DEF StopInv, HandlesEnd
<1>3. CASE ctl' # ctl
  <2>1. /\ ctl' = [ctl EXCEPT !.stop = "called"] /\ ctl.registered
        /\ m = StateMsg("terminated")
    BY <1>1, <1>3 DEF CallStop, StopOn
  <2>2. ctl.stop = "none"
    BY <1>1, <2>1 DEF StopInv, TypeOK, Control
  <2>3. ctl'.stop = "called" /\ ctl'.stopping = ctl.stopping
        /\ ctl'.cancelled = ctl.cancelled
    BY <2>1 DEF TypeOK, Control
  <2>. QED BY <1>1, <2>1, <2>2, <2>3 DEF StopInv, HandlesEnd
<1>. QED BY <1>2, <1>3

LEMMA StopStays ==
    ASSUME TypeOK, TypeOK', StopInv, [Next]_vars
    PROVE  StopInv'
<1>1. ASSUME ctl' = ctl, disp' = disp, row' = row, seen \subseteq seen'
      PROVE  StopInv'
  BY <1>1 DEF StopInv, HandlesEnd
<1>2. CASE UNCHANGED vars
  BY <1>1, <1>2 DEF vars
<1>3. CASE (\E d \in Requestable : UpdateDesiredState(d)) \/ Runtime
  BY <1>1, <1>3 DEF UpdateDesiredState, Runtime, RuntimeReachable, RuntimeExits,
     RuntimeCrashes
<1>4. CASE \E r \in Reconcilers : Reconciliation(r)
  BY <1>1, <1>4 DEF Reconciliation, Probe, Terminate, AwaitExit, Prepare,
     ProbeStart, StartRuntime, ReleaseInterface, ReleaseVolumes, HoldCopyToClear,
     ClearReconciliation, IsMachineRuntimeStarted
<1>5. CASE \E l \in Listeners : RuntimeListener(l)
  BY <1>1, <1>5 DEF RuntimeListener, Connect, Disconnect, HoldCopyToExit,
     ClearListener
<1>6. CASE Register
  <2>1. /\ ctl'.stopping = ctl.stopping /\ ctl'.stop = ctl.stop
        /\ ctl'.cancelled = ctl.cancelled /\ ~ctl.stopping
    BY <1>6 DEF Register, TypeOK, Control
  <2>. QED BY <1>6, <2>1 DEF Register, StopInv, HandlesEnd
<1>7. CASE Restart
  BY <1>7 DEF Restart, NewController, StopInv, Idle
<1>8. ASSUME NEW m \in Message, m # StateMsg("terminated"), Handles(m),
             /\ ctl'.stopping = ctl.stopping /\ ctl'.stop = ctl.stop
             /\ ctl'.cancelled = ctl.cancelled /\ ctl'.registered = ctl.registered,
             row'.State = row.State, seen \subseteq seen'
      PROVE  StopInv'
  BY <1>8, OtherMessages DEF StopInv
<1>9. CASE AssessOnly \/ \E r \in Reconcilers : Reconcile(r)
  <2>1. /\ Handles(Assess) /\ ctl' = ctl /\ row' = row /\ seen \subseteq seen'
    BY <1>9 DEF AssessOnly, Reconcile, Handles, ConsiderListener
  <2>. QED BY <1>8, <2>1, MessageTypes, MessagesApart DEF MachineState
<1>10. CASE ListenerConnected
  <2>1. /\ Handles(Connected) /\ row' = row /\ seen' = seen
        /\ ctl'.stopping = ctl.stopping /\ ctl'.stop = ctl.stop
        /\ ctl'.cancelled = ctl.cancelled /\ ctl'.registered = ctl.registered
    BY <1>10 DEF ListenerConnected, TypeOK, Control
  <2>. QED BY <1>8, <2>1, MessageTypes, MessagesApart DEF MachineState
<1>11. CASE ListenerDisconnected
  <2>1. /\ Handles(Disconnected) /\ ctl' = ctl /\ row' = row /\ seen' = seen
    BY <1>11 DEF ListenerDisconnected
  <2>. QED BY <1>8, <2>1, MessageTypes, MessagesApart DEF MachineState
<1>12. ASSUME NEW d \in DesiredState, DesiredStateChanged(d) PROVE StopInv'
  <2>1. /\ Handles(DesiredMsg(d)) /\ CallStop(DesiredMsg(d))
        /\ row'.State = row.State /\ seen \subseteq seen'
    BY <1>12 DEF DesiredStateChanged, SaveColumn, SaveError, TypeOK, Row
  <2>2. DesiredMsg(d) \in Message /\ DesiredMsg(d) # StateMsg("terminated")
    BY MessageTypes, MessagesApart DEF MachineState
  <2>. QED BY <1>8, <2>1, <2>2, OtherMessages
<1>13. CASE HoldCopyForListener \/ CountErrors \/ \E l \in Listeners : startRuntimeListener(l)
  <2>1. /\ disp.pc \in {"startListener", "countErrors"} /\ ctl' = ctl /\ row' = row
        /\ seen' = seen
    BY <1>13 DEF HoldCopyForListener, CountErrors, startRuntimeListener, DispatcherAt
  <2>. QED BY <2>1 DEF StopInv, HandlesEnd
<1>14. CASE DispatcherReturns
  BY <1>14 DEF DispatcherReturns, DispatcherAt, StopInv, HandlesEnd
<1>15. CASE StopBegins
  <2>1. /\ ctl'.stopping /\ ctl'.stop = "waiting" /\ ctl.stop = "called"
        /\ ctl'.cancelled = ctl.cancelled /\ disp' = disp /\ row' = row
        /\ seen \subseteq seen'
    BY <1>15 DEF StopBegins, TypeOK, Control
  <2>. QED BY <2>1 DEF StopInv, HandlesEnd
<1>16. CASE StopTimesOut
  <2>1. /\ ctl'.stopping = ctl.stopping /\ ctl'.stop = "done" /\ ctl.stop = "waiting"
        /\ ctl'.cancelled /\ ~ctl'.registered /\ disp' = disp /\ row' = row
        /\ seen' = seen
    BY <1>16 DEF StopTimesOut, TypeOK, Control
  <2>. QED BY <2>1 DEF StopInv, HandlesEnd
<1>. QED BY <1>2, <1>3, <1>4, <1>5, <1>6, <1>7, <1>9, <1>10, <1>11, <1>12, <1>13,
         <1>14, <1>15, <1>16, StepCases, StopSaves, StopHolds DEF Stop

LEMMA StopInvariant == Spec => [](TypeOK /\ StopInv)
<1>1. Init => TypeOK /\ StopInv
  <2>1. Init => TypeOK
    BY TypeInit, ConstantsAssumption
  <2>2. ASSUME Init PROVE ctl = NewController
    BY <2>2 DEF Init
  <2>. QED BY <2>1, <2>2 DEF NewController, StopInv
<1>2. TypeOK /\ StopInv /\ [Next]_vars => TypeOK' /\ StopInv'
  BY TypeNext, StopStays, ConstantsAssumption
<1>. QED BY <1>1, <1>2, PTL DEF Spec

(* A stopped controller leaves a terminated row behind, unless the handler *)
(* that called Stop failed to save that state (event_handler.go:37): Stop  *)
(* is called while that message is handled, the dispatcher receives nothing *)
(* until Stop is done, and nothing is saved after it.                      *)
THEOREM StoppedRowCorrect == Spec => []StoppedMeansRecorded
<1>1. TypeOK /\ StopInv => StoppedMeansRecorded
  BY DEF StopInv, StoppedMeansRecorded, HandlesEnd
<1>. QED BY <1>1, StopInvariant, PTL

-------------------------------------------------------------------------------
(* Reconciliations and the runtime.                                        *)

(* Steps that take no reconciliation further and touch no resource.        *)
CalmStep ==
    \/ Register \/ Stop
    \/ \E d \in Requestable : UpdateDesiredState(d)
    \/ \E m \in Message : HoldCopy(m)
    \/ AssessOnly \/ HoldCopyForListener \/ CountErrors \/ DispatcherReturns
    \/ \E l \in Listeners : startRuntimeListener(l)
    \/ \E d \in DesiredState : DesiredStateChanged(d)
    \/ \E s \in MachineState : StateChanged(s)
    \/ ListenerConnected \/ ListenerDisconnected
    \/ \E l \in Listeners : RuntimeListener(l)

LEMMA CalmSteps ==
    ASSUME TypeOK, CalmStep
    PROVE  /\ runtime' = runtime /\ res' = res
           /\ \A r \in Reconcilers : /\ recon'[r].pc = recon[r].pc
                                     /\ recon'[r].machine = recon[r].machine
           /\ seen \subseteq seen'
           /\ \A e \in {"doubleStart", "blindProbe"} : e \in seen' => e \in seen
<1>1. runtime' = runtime /\ res' = res
  BY DEF CalmStep, Register, Stop, StopBegins, StopTimesOut, UpdateDesiredState,
     HoldCopy, AssessOnly, HoldCopyForListener, CountErrors, DispatcherReturns,
     startRuntimeListener, DesiredStateChanged, StateChanged, SaveColumn,
     ListenerConnected, ListenerDisconnected, RuntimeListener, Connect, Disconnect,
     HoldCopyToExit, ClearListener
<1>2. \A r \in Reconcilers : /\ recon'[r].pc = recon[r].pc
                             /\ recon'[r].machine = recon[r].machine
  <2>1. CASE StopTimesOut
    <3>1. ASSUME NEW r \in Reconcilers
          PROVE  recon'[r].pc = recon[r].pc /\ recon'[r].machine = recon[r].machine
      BY <2>1, <3>1 DEF StopTimesOut, TypeOK, Reconciler
    <3>. QED BY <3>1
  <2>2. CASE ~StopTimesOut
    <3>1. recon' = recon
      BY <2>2 DEF CalmStep, Register, Stop, StopBegins, UpdateDesiredState, HoldCopy,
         AssessOnly, HoldCopyForListener, CountErrors, DispatcherReturns,
         startRuntimeListener, DesiredStateChanged, StateChanged, SaveColumn,
         ListenerConnected, ListenerDisconnected, RuntimeListener, Connect,
         Disconnect, HoldCopyToExit, ClearListener
    <3>. QED BY <3>1
  <2>. QED BY <2>1, <2>2
<1>. DEFINE Grows == \/ seen' = seen \/ seen' = seen \cup {"listenerCancel"}
                     \/ seen' = seen \cup {"resurrected"} \/ seen' = seen \cup {"unrecorded"}
                     \/ seen' = seen \cup {"resurrected"} \cup {"unrecorded"}
<1>3. Grows
  <2>1. \A e, c : Note(e, c) = {} \/ Note(e, c) = {e}
    BY DEF Note
  <2>2. CASE Stop \/ AssessOnly
    BY <2>2 DEF Stop, StopBegins, StopTimesOut, AssessOnly, ConsiderListener, Note
  <2>3. ASSUME NEW s \in MachineState, StateChanged(s) PROVE Grows
    BY <2>1, <2>3 DEF StateChanged, SaveColumn
  <2>4. ASSUME NEW d \in DesiredState, DesiredStateChanged(d) PROVE Grows
    BY <2>1, <2>4 DEF DesiredStateChanged, SaveColumn
  <2>. QED BY <2>2, <2>3, <2>4
           DEF CalmStep, Register, UpdateDesiredState, HoldCopy, HoldCopyForListener,
               CountErrors, DispatcherReturns, startRuntimeListener,
               ListenerConnected, ListenerDisconnected, RuntimeListener, Connect,
               Disconnect, HoldCopyToExit, ClearListener
<1>. QED BY <1>1, <1>2, <1>3

LEMMA StepGroups ==
    ASSUME Next
    PROVE  \/ CalmStep \/ Restart \/ Runtime
           \/ \E r \in Reconcilers : Reconcile(r) \/ Reconciliation(r)
BY StepCases DEF CalmStep

(* A step of one reconciliation is not one of another, and what happened   *)
(* stays happened.                                                         *)
LEMMA ReconciliationSteps ==
    ASSUME TypeOK, NEW r \in Reconcilers, Reconciliation(r)
    PROVE  /\ Active(r) /\ Alive /\ recon[r].pc # "none"
           /\ \A q \in Reconcilers : q # r => recon'[q] = recon[q]
           /\ recon'[r].pc # "none" => recon'[r].machine = recon[r].machine
           /\ seen \subseteq seen'
<1>1. Active(r) /\ Alive
  BY DEF Reconciliation, Probe, Terminate, AwaitExit, Prepare, ProbeStart,
     StartRuntime, ReleaseInterface, ReleaseVolumes, HoldCopyToClear,
     ClearReconciliation, Reaches, Active
<1>2. \/ \E pc : Goto(r, pc)
      \/ HoldCopyToClear(r) \/ ClearReconciliation(r)
  BY DEF Reconciliation, Probe, Terminate, AwaitExit, Prepare, ProbeStart,
     StartRuntime, ReleaseInterface, ReleaseVolumes, Finish, Continue
<1>3. seen \subseteq seen'
  BY DEF Reconciliation, Probe, Terminate, AwaitExit, Prepare, ProbeStart,
     StartRuntime, ReleaseInterface, ReleaseVolumes, HoldCopyToClear,
     ClearReconciliation, IsMachineRuntimeStarted
<1>4. /\ \A q \in Reconcilers : q # r => recon'[q] = recon[q]
      /\ recon'[r].pc # "none" => recon'[r].machine = recon[r].machine
  <2>1. CASE \E pc : Goto(r, pc)
    BY <2>1 DEF Goto, TypeOK, Reconciler
  <2>2. CASE HoldCopyToClear(r) \/ ClearReconciliation(r)
    BY <2>2 DEF HoldCopyToClear, ClearReconciliation, NoReconciliation, TypeOK,
       Reconciler
  <2>. QED BY <1>2, <2>1, <2>2
<1>. QED BY <1>1, <1>3, <1>4 DEF Active

(* With no outdated copy installed there is one reconciliation at most.    *)
LEMMA Alone ==
    ASSUME IInv, NoStaleWrite, NEW r \in Reconcilers, Active(r),
           NEW q \in Reconcilers, q # r
    PROVE  recon[q].pc = "none"
BY DEF IInv, PointersMatchGoroutines, Active

LEMMA StaleStays ==
    ASSUME IInv, Next, NoStaleWrite'
    PROVE  NoStaleWrite
<1>1. ASSUME NEW copy, NEW updated, Install(copy, updated) PROVE NoStaleWrite
  BY <1>1, InstallCurrent DEF IInv, TypeOK
<1>2. CASE Undisturbed
  BY <1>2 DEF Undisturbed, KeepsState, NoStaleWrite
<1>3. CASE Updates
  BY <1>1, <1>3 DEF Updates, KeepsState, NoStaleWrite
<1>4. CASE Restart
  BY <1>4 DEF Restart, NoStaleWrite, IInv, TypeOK, Usage
<1>5. CASE \E r \in Reconcilers : Reconcile(r) \/ ClearReconciliation(r)
  BY <1>1, <1>5 DEF Reconcile, ClearReconciliation
<1>6. CASE \E l \in Listeners : startRuntimeListener(l) \/ ClearListener(l)
  BY <1>1, <1>6 DEF startRuntimeListener, ClearListener
<1>. QED BY <1>2, <1>3, <1>4, <1>5, <1>6, StepKinds DEF IInv

(* A reconciliation that is about to start the runtime has just asked and  *)
(* got no answer; unless that was a live runtime's silence there is none.  *)
ProbeInv ==
    NoStaleWrite /\ "blindProbe" \notin seen =>
      /\ "doubleStart" \notin seen
      /\ \A r \in Reconcilers : recon[r].pc = "start" => runtime.status = "absent"

(* Only ProbeStart leads to that point.                                    *)
LEMMA StartsAfterProbe ==
    ASSUME TypeOK, NEW r \in Reconcilers, Reconciliation(r), recon'[r].pc = "start"
    PROVE  ProbeStart(r)
<1>1. ASSUME NEW pc, Goto(r, pc) PROVE recon'[r].pc = pc
  BY <1>1 DEF Goto, TypeOK, Reconciler
<1>2. AfterRuntime(r) # "start"
  BY DEF AfterRuntime
<1>3. ~Probe(r) /\ ~Terminate(r) /\ ~AwaitExit(r) /\ ~Prepare(r)
  BY <1>1, <1>2 DEF Probe, Terminate, AwaitExit, Prepare, Continue, Finish
<1>4. ~StartRuntime(r) /\ ~ReleaseInterface(r) /\ ~ReleaseVolumes(r)
  BY <1>1 DEF StartRuntime, ReleaseInterface, ReleaseVolumes, Continue, Finish
<1>5. ~HoldCopyToClear(r) /\ ~ClearReconciliation(r)
  BY DEF HoldCopyToClear, ClearReconciliation, NoReconciliation, Reaches, TypeOK,
     Reconciler
<1>. QED BY <1>3, <1>4, <1>5 DEF Reconciliation

LEMMA ProbeStays ==
    ASSUME IInv, ProbeInv, Next
    PROVE  ProbeInv'
<1>. DEFINE Good == /\ "doubleStart" \notin seen'
                    /\ \A r \in Reconcilers :
                         recon'[r].pc = "start" => runtime'.status = "absent"
<1>. SUFFICES ASSUME NoStaleWrite', "blindProbe" \notin seen'
              PROVE  Good
  BY DEF ProbeInv
<1>1. NoStaleWrite /\ TypeOK
  BY StaleStays DEF IInv
<1>2. CASE CalmStep
  BY <1>1, <1>2, CalmSteps DEF ProbeInv
<1>3. CASE Restart
  BY <1>1, <1>3 DEF Restart, NoReconciliation, ProbeInv
<1>4. CASE Runtime
  BY <1>1, <1>4 DEF Runtime, RuntimeReachable, RuntimeExits, RuntimeCrashes, ProbeInv,
     TypeOK, Process
<1>5. ASSUME NEW r \in Reconcilers, Reconcile(r) PROVE Good
  <2>1. /\ \A q \in Reconcilers : q # r => recon'[q] = recon[q]
        /\ recon'[r].pc # "start" /\ runtime' = runtime
    BY <1>1, <1>5 DEF Reconcile, NoReconciliation, TypeOK
  <2>2. seen' = seen \/ seen' = seen \cup {"listenerCancel"}
    BY <1>5 DEF Reconcile, ConsiderListener
  <2>. QED BY <1>1, <2>1, <2>2 DEF ProbeInv
<1>6. ASSUME NEW r \in Reconcilers, Reconciliation(r) PROVE Good
  <2>1. \A q \in Reconcilers : q # r => recon'[q].pc = "none"
    BY <1>1, <1>6, Alone, ReconciliationSteps
  <2>2. "blindProbe" \notin seen
    BY <1>1, <1>6, ReconciliationSteps
  <2>3. ASSUME recon'[r].pc = "start" PROVE runtime'.status = "absent"
    BY <1>1, <1>6, <2>3, StartsAfterProbe DEF ProbeStart, IsMachineRuntimeStarted, Note,
       Continue, Finish, Goto, TypeOK, Reconciler
  <2>4. "doubleStart" \notin seen'
    <3>1. CASE StartRuntime(r)
      BY <1>1, <2>2, <3>1 DEF StartRuntime, Reaches, ProbeInv, Note
    <3>2. CASE ~StartRuntime(r)
      <4>1. seen' = seen \/ seen' = seen \cup {"blindProbe"}
        BY <1>6, <3>2 DEF Reconciliation, Probe, Terminate, AwaitExit, Prepare,
           ProbeStart, ReleaseInterface, ReleaseVolumes, HoldCopyToClear,
           ClearReconciliation, IsMachineRuntimeStarted, Note
      <4>. QED BY <1>1, <2>2, <4>1 DEF ProbeInv
    <3>. QED BY <3>1, <3>2
  <2>. QED BY <2>1, <2>3, <2>4
<1>. QED BY <1>2, <1>3, <1>4, <1>5, <1>6, StepGroups

(* A second runtime is started beside a live one only if that one did not  *)
(* answer (reconciliation.go): nobody starts a runtime between the probe   *)
(* and the start, for any number of goroutines and failures.               *)
THEOREM DoubleStartCorrect == Spec => []DoubleStartNeedsBlindProbe
<1>1. Init => IInv /\ ProbeInv
  <2>1. Init => IInv
    BY TypeInit, SafetyInit, ConstantsAssumption
  <2>2. ASSUME Init
        PROVE  seen = {} /\ \A r \in Reconcilers : recon[r].pc = "none"
    BY <2>2 DEF Init, NoReconciliation
  <2>. QED BY <2>1, <2>2 DEF ProbeInv
<1>2. IInv /\ ProbeInv /\ [Next]_vars => (IInv /\ ProbeInv)'
  <2>1. ASSUME ProbeInv, UNCHANGED vars PROVE ProbeInv'
    BY <2>1 DEF vars, ProbeInv, NoStaleWrite
  <2>. QED BY <2>1, SafetyNext, ProbeStays
<1>3. IInv /\ ProbeInv => DoubleStartNeedsBlindProbe
  BY DEF ProbeInv, DoubleStartNeedsBlindProbe
<1>. QED BY <1>1, <1>2, <1>3, PTL DEF Spec

-------------------------------------------------------------------------------
(* What a terminated machine has given up.                                 *)

LEMMA StampFields ==
    ASSUME NEW x \in Resources, NEW saves \in BOOLEAN,
           NEW column \in {"nicReleased", "allocated", "released"}
    PROVE  /\ Stamp(x, column, saves).link = x.link
           /\ Stamp(x, column, saves).volume = x.volume
           /\ column # "released" =>
                /\ Stamp(x, column, saves).memory.released = x.memory.released
                /\ Stamp(x, column, saves).saved.released = x.saved.released
<1>1. x.memory \in Stamps /\ x.saved \in Stamps
  BY DEF Resources
<1>2. Stamp(x, column, saves) =
        [[x EXCEPT !.memory = [x.memory EXCEPT ![column] = TRUE]] EXCEPT
           !.saved = [x.saved EXCEPT ![column] = @ \/ (saves /\ ~x.memory[column])]]
  BY DEF Stamp, Resources
<1>3. column # "released" =>
        /\ [x.memory EXCEPT ![column] = TRUE].released = x.memory.released
        /\ [x.saved EXCEPT ![column] = @ \/ (saves /\ ~x.memory[column])].released
             = x.saved.released
  BY <1>1 DEF Stamps
<1>. QED BY <1>2, <1>3 DEF Resources

Moves(r, from, to) == recon[r].pc = from /\ recon'[r].pc \in to
SameReleased == /\ res'.memory.released = res.memory.released
                /\ res'.saved.released = res.saved.released

(* One step of a reconciliation: where it goes, and what became of the     *)
(* runtime, the link and the volumes.                                      *)
CourseStep(r) ==
    \/ Moves(r, "probe", {"terminate"}) /\ res' = res /\ runtime' = runtime
    \/ /\ Moves(r, "probe", {AfterRuntime(r)}) /\ res' = res /\ runtime' = runtime
       /\ runtime.status = "absent" \/ "blindProbe" \in seen'
    \/ /\ Moves(r, "terminate", {"await"}) /\ res' = res
       /\ runtime'.status = "dying"
    \/ Moves(r, "terminate", {"clear"}) /\ res' = res /\ runtime' = runtime
    \/ /\ Moves(r, "await", {AfterRuntime(r)}) /\ res' = res
       /\ runtime'.status \in {runtime.status, "absent"}
    \/ Moves(r, "prepare", {"probeStart", "clear"}) /\ SameReleased /\ runtime' = runtime
    \/ /\ Moves(r, "probeStart", {"start", "clear"})
       /\ res' = res /\ runtime' = runtime
    \/ Moves(r, "start", {"clear"}) /\ res' = res
    \/ /\ Moves(r, "releaseNic", {"releaseVolumes"}) /\ runtime' = runtime
       /\ ~res'.link /\ res'.volume = res.volume /\ SameReleased
    \/ /\ Moves(r, "releaseNic", {"clear"}) /\ runtime' = runtime
       /\ (res'.link => res.link) /\ res'.volume = res.volume /\ SameReleased
    \/ /\ Moves(r, "releaseVolumes", {"clear"}) /\ runtime' = runtime
       /\ res'.link = res.link /\ (res'.volume => res.volume)
       /\ res' = res \/ res.memory.released \/ ~res'.volume
    \/ Moves(r, "clear", {"clear", "none"}) /\ res' = res /\ runtime' = runtime

LEMMA GotoMoves ==
    ASSUME TypeOK, NEW r \in Reconcilers, NEW pc
    PROVE  /\ Goto(r, pc) => recon'[r].pc = pc
           /\ Continue(r, pc) => recon'[r].pc = pc
           /\ \A new : Finish(r, new) => recon'[r].pc = "clear"
BY DEF Goto, Continue, Finish, TypeOK, Reconciler

LEMMA PrepareMoves ==
    ASSUME TypeOK, NEW r \in Reconcilers, Prepare(r)
    PROVE  CourseStep(r)
<1>1. PICK nicOk, volumeOk, link \in BOOLEAN :
        \E after \in {res, Stamp([res EXCEPT !.volume = TRUE], "allocated", FALSE),
                      Stamp([res EXCEPT !.volume = TRUE], "allocated", TRUE)} :
          res' = [after EXCEPT !.link = link]
  BY DEF Prepare
<1>2. PICK after \in {res, Stamp([res EXCEPT !.volume = TRUE], "allocated", FALSE),
                      Stamp([res EXCEPT !.volume = TRUE], "allocated", TRUE)} :
        res' = [after EXCEPT !.link = link]
  BY <1>1
<1>. DEFINE held == [res EXCEPT !.volume = TRUE]
<1>3. held \in Resources /\ held.memory = res.memory /\ held.saved = res.saved
  BY DEF TypeOK, Resources
<1>. HIDE DEF held
<1>4. /\ after \in Resources
      /\ after.memory.released = res.memory.released
      /\ after.saved.released = res.saved.released
  <2>1. CASE after = res
    BY <2>1 DEF TypeOK
  <2>2. ASSUME NEW saves \in BOOLEAN, after = Stamp(held, "allocated", saves)
        PROVE  /\ after \in Resources
               /\ after.memory.released = res.memory.released
               /\ after.saved.released = res.saved.released
    <3>1. Stamp(held, "allocated", saves) \in Resources
      BY <1>3, StampType
    <3>2. /\ Stamp(held, "allocated", saves).memory.released = held.memory.released
          /\ Stamp(held, "allocated", saves).saved.released = held.saved.released
      BY <1>3, StampFields
    <3>. QED BY <1>3, <2>2, <3>1, <3>2
  <2>. QED BY <1>2, <2>1, <2>2 DEF held
<1>5. SameReleased
  BY <1>2, <1>4 DEF SameReleased, Resources
<1>6. recon'[r].pc \in {"probeStart", "clear"}
  BY GotoMoves DEF Prepare
<1>. QED BY <1>5, <1>6 DEF CourseStep, Moves, Prepare, Reaches

LEMMA ReleaseMoves ==
    ASSUME TypeOK, NEW r \in Reconcilers, ReleaseInterface(r) \/ ReleaseVolumes(r)
    PROVE  CourseStep(r)
<1>1. CASE ReleaseInterface(r)
  <2>. DEFINE unlinked == [res EXCEPT !.link = FALSE]
              after(saves) == Stamp(unlinked, "nicReleased", saves)
  <2>1. /\ unlinked \in Resources /\ ~unlinked.link
        /\ unlinked.volume = res.volume
        /\ unlinked.memory = res.memory /\ unlinked.saved = res.saved
    BY DEF TypeOK, Resources
  <2>. HIDE DEF unlinked
  <2>2. ASSUME NEW saves \in BOOLEAN, res' = after(saves)
        PROVE  ~res'.link /\ res'.volume = res.volume /\ SameReleased
    BY <2>1, <2>2, StampFields DEF SameReleased
  <2>3. \/ /\ recon'[r].pc = "releaseVolumes" /\ res' = after(TRUE)
        \/ /\ recon'[r].pc = "clear" /\ (res' = res \/ res' = after(FALSE))
    BY <1>1, GotoMoves DEF ReleaseInterface, unlinked
  <2>4. /\ recon[r].pc = "releaseNic" /\ runtime' = runtime
        /\ res' = res => SameReleased
    BY <1>1 DEF ReleaseInterface, Reaches, SameReleased
  <2>. QED BY <2>2, <2>3, <2>4 DEF CourseStep, Moves
<1>2. CASE ReleaseVolumes(r)
  <2>. DEFINE removed == [res EXCEPT !.volume = @ /\ res.memory.released]
              after(saves) == Stamp(removed, "released", saves)
  <2>1. /\ removed \in Resources /\ removed.link = res.link
        /\ removed.volume <=> res.volume /\ res.memory.released
    BY DEF TypeOK, Resources, Stamps
  <2>. HIDE DEF removed
  <2>2. ASSUME NEW saves \in BOOLEAN, res' = after(saves)
        PROVE  /\ res'.link = res.link /\ (res'.volume => res.volume)
               /\ res.memory.released \/ ~res'.volume
    BY <2>1, <2>2, StampFields
  <2>3. recon'[r].pc = "clear" /\ (res' = res \/ res' = after(TRUE) \/ res' = after(FALSE))
    BY <1>2, GotoMoves DEF ReleaseVolumes, removed
  <2>4. recon[r].pc = "releaseVolumes" /\ runtime' = runtime
    BY <1>2 DEF ReleaseVolumes, Reaches
  <2>. QED BY <2>2, <2>3, <2>4 DEF CourseStep, Moves
<1>. QED BY <1>1, <1>2

LEMMA ReconciliationMoves ==
    ASSUME TypeOK, NEW r \in Reconcilers, Reconciliation(r)
    PROVE  CourseStep(r)
<1>1. CASE Probe(r)
  BY <1>1, GotoMoves DEF Probe, Reaches, IsMachineRuntimeStarted, Note, CourseStep, Moves
<1>2. CASE Terminate(r)
  BY <1>2, GotoMoves DEF Terminate, Reaches, CourseStep, Moves, TypeOK, Process
<1>3. CASE AwaitExit(r)
  BY <1>3, GotoMoves DEF AwaitExit, Reaches, CourseStep, Moves, TypeOK, Process
<1>4. CASE ProbeStart(r)
  BY <1>4, GotoMoves DEF ProbeStart, Reaches, CourseStep, Moves
<1>5. CASE StartRuntime(r)
  BY <1>5, GotoMoves DEF StartRuntime, Reaches, CourseStep, Moves
<1>6. CASE HoldCopyToClear(r)
  BY <1>6 DEF HoldCopyToClear, Reaches, CourseStep, Moves, TypeOK, Reconciler
<1>7. CASE ClearReconciliation(r)
  BY <1>7 DEF ClearReconciliation, NoReconciliation, Reaches, CourseStep, Moves, TypeOK
<1>. QED BY <1>1, <1>2, <1>3, <1>4, <1>5, <1>6, <1>7, PrepareMoves, ReleaseMoves
         DEF Reconciliation

(* The course of a reconciliation follows from the desired state it began  *)
(* with: only one that began with terminated releases, no such one starts. *)
CourseInv ==
    \A r \in Reconcilers :
      /\ recon[r].pc \in {"prepare", "probeStart", "start"} =>
           recon[r].machine.DesiredState # "terminated"
      /\ recon[r].pc \in {"releaseNic", "releaseVolumes"} =>
           recon[r].machine.DesiredState = "terminated"

LEMMA ReconcileBegins ==
    ASSUME TypeOK, NEW r \in Reconcilers, Reconcile(r)
    PROVE  /\ recon[r].pc = "none"
           /\ recon'[r].pc \in {"prepare", "probe"}
           /\ recon'[r].machine.DesiredState = Latest(disp.copy).DesiredState
           /\ recon'[r].pc = "prepare" => Latest(disp.copy).DesiredState = "running"
           /\ \A q \in Reconcilers : q # r => recon'[q] = recon[q]
           /\ runtime' = runtime /\ res' = res /\ row' = row /\ seen \subseteq seen'
BY DEF Reconcile, NoReconciliation, ConsiderListener, TypeOK

LEMMA CourseStays ==
    ASSUME TypeOK, CourseInv, Next
    PROVE  CourseInv'
<1>1. CASE CalmStep
  BY <1>1, CalmSteps DEF CourseInv
<1>2. CASE Restart \/ Runtime
  <2>1. CASE Runtime
    BY <2>1 DEF Runtime, RuntimeReachable, RuntimeExits, RuntimeCrashes, CourseInv
  <2>2. CASE Restart
    BY <2>2 DEF Restart, NoReconciliation, CourseInv
  <2>. QED BY <1>2, <2>1, <2>2
<1>3. ASSUME NEW r \in Reconcilers, Reconcile(r) PROVE CourseInv'
  BY <1>3, ReconcileBegins DEF CourseInv
<1>4. ASSUME NEW r \in Reconcilers, Reconciliation(r) PROVE CourseInv'
  BY <1>4, ReconciliationSteps, ReconciliationMoves
     DEF CourseInv, CourseStep, Moves, AfterRuntime
<1>. QED BY <1>1, <1>2, <1>3, <1>4, StepGroups

(* Only the two handlers change a column, and the one of the desired state *)
(* records when it takes terminated back.                                  *)
LEMMA StateColumns ==
    ASSUME IInv, Next, NoStaleWrite'
    PROVE  \/ state'.State = state.State /\ state'.DesiredState = state.DesiredState
           \/ \E d \in DesiredState :
                /\ DesiredStateChanged(d) /\ state'.State = state.State
                /\ state'.DesiredState = d
                /\ \/ d = "terminated" \/ state.DesiredState # "terminated"
                   \/ "resurrected" \in seen'
           \/ \E s \in MachineState :
                StateChanged(s) /\ state'.DesiredState = state.DesiredState
<1>. DEFINE Same == state'.State = state.State /\ state'.DesiredState = state.DesiredState
<1>1. TypeOK /\ TypeOK' /\ NoStaleWrite
  BY TypeNext, StaleStays, ConstantsAssumption DEF IInv
<1>2. ASSUME NEW copy, NEW updated, Install(copy, updated)
      PROVE  Latest(copy) = state /\ state' = updated
  BY <1>1, <1>2, InstallCurrent DEF TypeOK
<1>3. state \in ControllerState
  BY <1>1 DEF TypeOK
<1>4. CASE Undisturbed
  BY <1>4 DEF Undisturbed, KeepsState
<1>5. CASE Restart
  BY <1>1, <1>5 DEF Restart, Fresh, IInv, MemoryMatchesRow
<1>6. ASSUME NEW r \in Reconcilers, Reconcile(r) \/ ClearReconciliation(r) PROVE Same
  BY <1>2, <1>3, <1>6 DEF Reconcile, ClearReconciliation, ControllerState
<1>7. ASSUME NEW l \in Listeners, startRuntimeListener(l) \/ ClearListener(l) PROVE Same
  <2>2. CASE startRuntimeListener(l)
    <3>1. state' = [state EXCEPT !.RuntimeListener = l, !.ConsecutiveErrorCount = 0]
      BY <1>2, <2>2 DEF startRuntimeListener
    <3>. QED BY <1>3, <3>1 DEF ControllerState
  <2>3. CASE ClearListener(l)
    <3>1. state' = [state EXCEPT !.RuntimeListener = None, !.ConsecutiveErrorCount = 0]
      BY <1>2, <2>3 DEF ClearListener
    <3>. QED BY <1>3, <3>1 DEF ControllerState
  <2>. QED BY <1>7, <2>2, <2>3
<1>8. CASE ListenerConnected \/ ListenerDisconnected
  BY <1>2, <1>3, <1>8 DEF ListenerConnected, ListenerDisconnected, ControllerState
<1>9. ASSUME NEW s \in MachineState, StateChanged(s)
      PROVE  state'.DesiredState = state.DesiredState
  <2>1. \/ state' = state
        \/ Install(disp.copy, [Latest(disp.copy) EXCEPT !["State"] = StateMsg(s).to])
    BY <1>9 DEF StateChanged, SaveColumn, SaveError
  <2>. QED BY <1>2, <1>3, <2>1 DEF ControllerState
<1>10. ASSUME NEW d \in DesiredState, DesiredStateChanged(d)
       PROVE  \/ Same
              \/ /\ state'.State = state.State /\ state'.DesiredState = d
                 /\ \/ d = "terminated" \/ state.DesiredState # "terminated"
                    \/ "resurrected" \in seen'
  <2>. DEFINE back == /\ Latest(disp.copy).DesiredState = "terminated"
                      /\ d # "terminated"
  <2>1. CASE state' = state
    BY <2>1
  <2>2. CASE /\ Install(disp.copy, [Latest(disp.copy) EXCEPT
                                      !["DesiredState"] = DesiredMsg(d).to])
             /\ seen' = seen \cup Note("resurrected", back)
    <3>1. Latest(disp.copy) = state /\ DesiredMsg(d).to = d
      BY <1>2, <2>2 DEF DesiredMsg
    <3>2. state'.State = state.State /\ state'.DesiredState = d
      <4>1. state' = [state EXCEPT !.DesiredState = d]
        BY <1>2, <2>2, <3>1
      <4>. QED BY <1>3, <4>1 DEF ControllerState
    <3>. QED BY <2>2, <3>1, <3>2 DEF Note
  <2>. QED BY <1>10, <2>1, <2>2 DEF DesiredStateChanged, SaveColumn, SaveError
<1>11. CASE CalmStep
  <2>1. \/ Undisturbed \/ ListenerConnected \/ ListenerDisconnected
        \/ \E s \in MachineState : StateChanged(s)
        \/ \E d \in DesiredState : DesiredStateChanged(d)
        \/ \E l \in Listeners : startRuntimeListener(l) \/ ClearListener(l)
    BY <1>1, <1>11, AgentUndisturbed, DispatchUndisturbed, StopUndisturbed,
       ListenerUndisturbed DEF CalmStep
  <2>. QED BY <1>4, <1>7, <1>8, <1>9, <1>10, <2>1
<1>. QED BY <1>1, <1>4, <1>5, <1>6, <1>11, StepGroups, RuntimeUndisturbed,
         ReconciliationUndisturbed

(* What happened stays happened, except to a controller that is gone.      *)
LEMMA SeenGrows ==
    ASSUME TypeOK, Next
    PROVE  seen \ {"unrecorded"} \subseteq seen'
<1>1. CASE Restart \/ Runtime
  BY <1>1 DEF Restart, Runtime, RuntimeReachable, RuntimeExits, RuntimeCrashes
<1>. QED BY <1>1, CalmSteps, ReconcileBegins, ReconciliationSteps, StepGroups

LEMMA ReconcileFromState ==
    ASSUME IInv, NoStaleWrite', NEW r \in Reconcilers, Reconcile(r)
    PROVE  Latest(disp.copy) = state
BY InstallCurrent DEF Reconcile, IInv, TypeOK

LEMMA GivenUpStays ==
    ASSUME IInv, Next, NoStaleWrite', "resurrected" \notin seen', GivenUp
    PROVE  GivenUp'
<1>1. TypeOK /\ state'.DesiredState = "terminated"
  BY StateColumns DEF GivenUp, IInv
<1>2. CASE CalmStep
  BY <1>1, <1>2, CalmSteps DEF GivenUp, Active
<1>3. CASE Restart
  BY <1>1, <1>3 DEF Restart, NoReconciliation, GivenUp, Active
<1>4. CASE Runtime
  BY <1>1, <1>4 DEF Runtime, RuntimeReachable, RuntimeExits, RuntimeCrashes, GivenUp, Active
<1>5. ASSUME NEW r \in Reconcilers, Reconcile(r) PROVE GivenUp'
  BY <1>1, <1>5, ReconcileFromState, ReconcileBegins DEF GivenUp, Active
<1>6. ASSUME NEW r \in Reconcilers, Reconciliation(r) PROVE GivenUp'
  BY <1>1, <1>6, ReconciliationSteps DEF GivenUp, Active
<1>. QED BY <1>2, <1>3, <1>4, <1>5, <1>6, StepGroups

(* How many of a message there are after one was sent or received.         *)
LEMMA SentAt ==
    ASSUME NEW b \in [Message -> Nat], NEW m \in Message, NEW n \in Message, NEW cond
    PROVE  /\ PublishEvent(b, m)[n] = IF n = m THEN b[n] + 1 ELSE b[n]
           /\ n # m => PublishIf(cond, b, m)[n] = b[n]
           /\ PublishIf(cond, b, m)[n] >= b[n]
BY DEF PublishEvent, PublishIf

LEMMA RestAt ==
    ASSUME TypeOK, NEW m \in Message, NEW n \in Message
    PROVE  /\ n # m => Rest(m)[n] = bus[n]
           /\ Rest(m)[n] <= bus[n]
BY DEF Rest, TypeOK

(* The machine's end is on record, or on its way there.                    *)
Announced ==
    row.State = "terminated" \/ bus[StateMsg("terminated")] > 0 \/ HandlesEnd

(* It is announced by the reconciliation that released the volumes.        *)
Announces(r) == ReleaseVolumes(r) /\ (res.memory.released \/ ~res'.volume)

LEMMA EndMessage ==
    /\ StateMsg("terminated") \in Message
    /\ \A m \in Message : m \in {Assess, Connected, Disconnected} =>
         m # StateMsg("terminated")
    /\ \A d \in DesiredState : DesiredMsg(d) # StateMsg("terminated")
    /\ \A s \in MachineState : s # "terminated" => StateMsg(s) # StateMsg("terminated")
BY MessageTypes, MessagesApart DEF MachineState

(* Steps of a reconciliation that publish another result, or none.         *)
LEMMA AnnouncesAtEnd ==
    ASSUME TypeOK, NEW r \in Reconcilers, Reconciliation(r), Announced'
    PROVE  Announced \/ Announces(r)
<1>. DEFINE T == StateMsg("terminated")
<1>1. row' = row /\ disp' = disp
  BY DEF Reconciliation, Probe, Terminate, AwaitExit, Prepare, ProbeStart,
     StartRuntime, ReleaseInterface, ReleaseVolumes, HoldCopyToClear,
     ClearReconciliation
<1>2. bus \in [Message -> Nat] /\ T \in Message
  BY EndMessage DEF TypeOK
<1>3. ASSUME NEW s \in MachineState, s # "terminated", Finish(r, s)
      PROVE  bus'[T] = bus[T]
  BY <1>2, <1>3, SentAt, EndMessage, MessageTypes DEF Finish
<1>4. CASE Probe(r)
  <2>1. PICK cond : bus' = PublishIf(cond, bus, StateMsg("terminating"))
    BY <1>4 DEF Probe
  <2>2. StateMsg("terminating") # T /\ StateMsg("terminating") \in Message
    BY EndMessage, MessageTypes DEF MachineState
  <2>3. bus'[T] = bus[T]
    BY <1>2, <2>1, <2>2, SentAt
  <2>. QED BY <1>1, <2>3 DEF Announced, HandlesEnd
<1>5. CASE ReleaseVolumes(r)
  <2>1. CASE Finish(r, "error")
    BY <1>1, <1>3, <2>1 DEF Announced, HandlesEnd, MachineState
  <2>2. CASE ~Finish(r, "error")
    <3>. DEFINE removed == [res EXCEPT !.volume = @ /\ res.memory.released]
    <3>1. res' = Stamp(removed, "released", TRUE)
      BY <1>5, <2>2 DEF ReleaseVolumes
    <3>2. removed \in Resources /\ (removed.volume <=> res.volume /\ res.memory.released)
      BY DEF TypeOK, Resources, Stamps
    <3>. HIDE DEF removed
    <3>3. res'.volume = removed.volume
      BY <3>1, <3>2, StampFields
    <3>. QED BY <1>5, <3>2, <3>3 DEF Announces
  <2>. QED BY <2>1, <2>2
<1>6. CASE HoldCopyToClear(r) \/ ClearReconciliation(r)
  BY <1>1, <1>6 DEF HoldCopyToClear, ClearReconciliation, Announced, HandlesEnd
<1>7. CASE Terminate(r) \/ AwaitExit(r) \/ Prepare(r) \/ ProbeStart(r)
           \/ StartRuntime(r) \/ ReleaseInterface(r)
  <2>1. bus' = bus \/ \E s \in MachineState : s # "terminated" /\ Finish(r, s)
    BY <1>7 DEF Terminate, AwaitExit, Prepare, ProbeStart, StartRuntime,
       ReleaseInterface, Continue, MachineState
  <2>2. bus'[T] = bus[T]
    BY <1>3, <2>1
  <2>. QED BY <1>1, <2>2 DEF Announced, HandlesEnd
<1>. QED BY <1>4, <1>5, <1>6, <1>7 DEF Reconciliation

LEMMA AnnouncedBefore ==
    ASSUME TypeOK, TypeOK', CalmStep, Announced'
    PROVE  Announced
<1>. DEFINE T == StateMsg("terminated")
<1>1. bus \in [Message -> Nat] /\ T \in Message
  BY EndMessage DEF TypeOK
<1>2. ASSUME row'.State = "terminated" => row.State = "terminated",
             HandlesEnd' => HandlesEnd,
             bus'[T] <= bus[T]
      PROVE  Announced
  <2>1. bus'[T] > 0 => bus[T] > 0
    BY <1>1, <1>2 DEF TypeOK
  <2>. QED BY <1>2, <2>1 DEF Announced
<1>3. CASE Register \/ Stop
  BY <1>1, <1>2, <1>3 DEF Register, Stop, StopBegins, StopTimesOut, HandlesEnd
<1>4. ASSUME NEW d \in Requestable, UpdateDesiredState(d) PROVE Announced
  <2>1. d \in DesiredState
    BY ConstantsAssumption DEF ConstantsAssumption
  <2>2. bus'[T] = bus[T]
    BY <1>1, <1>4, <2>1, SentAt, EndMessage, MessageTypes DEF UpdateDesiredState
  <2>. QED BY <1>1, <1>2, <1>4, <2>2 DEF UpdateDesiredState, HandlesEnd
<1>5. ASSUME NEW m \in Message, HoldCopy(m) PROVE Announced
  <2>1. /\ bus'[T] <= bus[T] /\ row' = row
        /\ HandlesEnd' => m = T
    BY <1>1, <1>5, RestAt DEF HoldCopy, HandlesEnd
  <2>2. m = T => bus[T] > 0
    BY <1>5 DEF HoldCopy, Receives
  <2>. QED BY <1>2, <2>1, <2>2 DEF Announced
<1>6. CASE AssessOnly
  <2>1. bus'[T] = bus[T] /\ disp'.pc # "handle" /\ row' = row
    BY <1>1, <1>6, RestAt, EndMessage, MessageTypes
       DEF AssessOnly, ConsiderListener, Idle
  <2>. QED BY <1>1, <1>2, <2>1 DEF HandlesEnd
<1>7. CASE HoldCopyForListener \/ DispatcherReturns
           \/ \E l \in Listeners : startRuntimeListener(l)
  <2>1. bus' = bus /\ disp'.pc # "handle" /\ row' = row
    <3>1. CASE HoldCopyForListener
      BY <3>1 DEF HoldCopyForListener, DispatcherAt, TypeOK, Dispatcher
    <3>2. CASE DispatcherReturns
      BY <3>2 DEF DispatcherReturns, Idle
    <3>3. CASE \E l \in Listeners : startRuntimeListener(l)
      BY <3>3 DEF startRuntimeListener, Idle
    <3>. QED BY <1>7, <3>1, <3>2, <3>3
  <2>. QED BY <1>1, <1>2, <2>1 DEF HandlesEnd
<1>8. CASE CountErrors
  <2>1. /\ StateMsg("error") # T /\ StateMsg("error") \in Message
        /\ StateMsg("degraded") # T /\ StateMsg("degraded") \in Message
    BY EndMessage, MessageTypes DEF MachineState
  <2>2. bus'[T] = bus[T] /\ disp'.pc # "handle" /\ row' = row
    BY <1>1, <1>8, <2>1, SentAt DEF CountErrors, Idle
  <2>. QED BY <1>1, <1>2, <2>2 DEF HandlesEnd
<1>9. ASSUME NEW m \in Message, NEW column, NEW events, SaveColumn(m, column, events)
      PROVE  /\ disp'.pc # "handle" /\ bus'[T] <= bus[T]
             /\ m = T => Announced
  <2>1. Handles(m) /\ Rest(m) \in [Message -> Nat] /\ disp'.pc # "handle"
    BY <1>9, RestType DEF SaveColumn, Idle
  <2>2. bus' = PublishEvent(Rest(m), Assess) /\ Assess \in Message /\ Assess # T
    BY <1>9, EndMessage, MessageTypes DEF SaveColumn, AfterSave
  <2>3. bus'[T] = Rest(m)[T]
    BY <1>1, <2>1, <2>2, SentAt
  <2>4. m = T => Announced
    BY <2>1 DEF Handles, Receives, DispatcherAt, Announced, HandlesEnd
  <2>. QED BY <1>1, <2>1, <2>3, <2>4, RestAt
<1>10. ASSUME NEW s \in MachineState, StateChanged(s) PROVE Announced
  <2>1. StateMsg(s) \in Message /\ SaveColumn(StateMsg(s), "State", {})
        /\ StateMsg(s).to = s
    BY <1>10, MessageTypes DEF StateChanged, StateMsg
  <2>2. row'.State \in {row.State, s}
    BY <2>1 DEF SaveColumn, SaveError, TypeOK, Row
  <2>. QED BY <1>2, <1>9, <2>1, <2>2 DEF HandlesEnd, Announced
<1>11. ASSUME NEW d \in DesiredState, DesiredStateChanged(d) PROVE Announced
  <2>1. PICK events : SaveColumn(DesiredMsg(d), "DesiredState", events)
    BY <1>11 DEF DesiredStateChanged
  <2>2. row'.State = row.State
    BY <2>1 DEF SaveColumn, SaveError, TypeOK, Row
  <2>. QED BY <1>2, <1>9, <2>1, <2>2, MessageTypes DEF HandlesEnd
<1>12. CASE ListenerConnected
  <2>1. /\ Rest(Connected) \in [Message -> Nat] /\ Connected \in Message
        /\ StateMsg("running") # T /\ StateMsg("running") \in Message
    BY <1>12, RestType, EndMessage, MessageTypes DEF ListenerConnected, MachineState
  <2>2. PICK cond : bus' = PublishIf(cond, Rest(Connected), StateMsg("running"))
    BY <1>12 DEF ListenerConnected
  <2>3. bus'[T] <= bus[T] /\ disp'.pc # "handle" /\ row' = row
    BY <1>1, <1>12, <2>1, <2>2, SentAt, RestAt DEF ListenerConnected, Idle
  <2>. QED BY <1>2, <2>3 DEF HandlesEnd
<1>13. CASE ListenerDisconnected
  BY <1>1, <1>2, <1>13, RestAt, MessageTypes DEF ListenerDisconnected, HandlesEnd, Idle
<1>14. ASSUME NEW l \in Listeners, RuntimeListener(l) PROVE Announced
  <2>1. /\ Connected \in Message /\ Disconnected \in Message
        /\ Connected # T /\ Disconnected # T
    BY EndMessage, MessageTypes
  <2>2. bus'[T] = bus[T] /\ disp' = disp /\ row' = row
    BY <1>1, <1>14, <2>1, SentAt DEF RuntimeListener, Connect, Disconnect,
       HoldCopyToExit, ClearListener
  <2>. QED BY <1>1, <1>2, <2>2 DEF HandlesEnd
<1>. QED BY <1>3, <1>4, <1>5, <1>6, <1>7, <1>8, <1>10, <1>11, <1>12, <1>13, <1>14
         DEF CalmStep

(* The runtime is gone or about to go, or a probe did not see it.          *)
Ends == runtime.status \in {"absent", "dying"} \/ "blindProbe" \in seen

(* What a reconciliation that terminates relies on.                        *)
Duty ==
    \A r \in Reconcilers :
      /\ recon[r].pc \notin {"none", "clear"}
           /\ recon[r].machine.DesiredState = "terminated"
         => state.DesiredState = "terminated"
      /\ recon[r].pc \in {"await", "releaseNic", "releaseVolumes"} => Ends
      /\ recon[r].pc = "releaseVolumes" => ~res.link

(* A volume whose stamp says released is skipped by a later release: it    *)
(* must not come back.                                                     *)
StaysReleased ==
    res.memory.released \/ res.saved.released => GivenUp /\ ~res.volume

CleanEnd == Announced => GivenUp /\ ~res.link /\ ~res.volume /\ Ends

EndInv ==
    NoStaleWrite /\ "resurrected" \notin seen => Duty /\ StaysReleased /\ CleanEnd

LEMMA DutyGivesUp ==
    ASSUME IInv, NoStaleWrite, Duty, NEW r \in Reconcilers,
           recon[r].pc \notin {"none", "clear"},
           recon[r].machine.DesiredState = "terminated"
    PROVE  GivenUp
<1>1. \A q \in Reconcilers : q # r => recon[q].pc = "none"
  BY Alone DEF Active
<1>. QED BY <1>1 DEF Duty, GivenUp, Active

LEMMA EndsGrows ==
    ASSUME TypeOK, Next, Ends, runtime'.status \in {runtime.status, "absent", "dying"}
    PROVE  Ends'
BY SeenGrows DEF Ends

LEMMA EndStaysCalm ==
    ASSUME IInv, Next, NoStaleWrite', "resurrected" \notin seen',
           Duty, StaysReleased, CleanEnd, CalmStep
    PROVE  Duty' /\ StaysReleased' /\ CleanEnd'
<1>1. TypeOK /\ TypeOK'
  BY TypeNext, ConstantsAssumption DEF IInv
<1>2. /\ runtime' = runtime /\ res' = res
      /\ \A r \in Reconcilers : /\ recon'[r].pc = recon[r].pc
                                /\ recon'[r].machine = recon[r].machine
  BY <1>1, CalmSteps
<1>3. /\ state.DesiredState = "terminated" => state'.DesiredState = "terminated"
      /\ GivenUp => GivenUp'
  BY StateColumns, GivenUpStays
<1>4. Ends => Ends'
  BY <1>1, <1>2, EndsGrows
<1>5. Announced' => Announced
  BY <1>1, AnnouncedBefore
<1>. QED BY <1>2, <1>3, <1>4, <1>5 DEF Duty, StaysReleased, CleanEnd

LEMMA EndStaysRestart ==
    ASSUME IInv, Next, NoStaleWrite', "resurrected" \notin seen',
           Duty, StaysReleased, CleanEnd, Restart \/ Runtime
    PROVE  Duty' /\ StaysReleased' /\ CleanEnd'
<1>1. TypeOK /\ (GivenUp => GivenUp')
  BY GivenUpStays DEF IInv
<1>2. CASE Restart
  <2>1. \A r \in Reconcilers : recon'[r].pc = "none"
    BY <1>2 DEF Restart, NoReconciliation
  <2>2. /\ res'.link = res.link /\ res'.volume = res.volume
        /\ res'.memory = res.saved /\ res'.saved = res.saved
    BY <1>1, <1>2 DEF Restart, TypeOK, Resources
  <2>3. Ends => Ends'
    BY <1>1, <1>2, EndsGrows DEF Restart, TypeOK, Process
  <2>4. Announced' => Announced
    <3>1. bus'[StateMsg("terminated")] = 0
      BY <1>2, EndMessage, MessageTypes DEF Restart, PublishIf, PublishEvent, EmptyBus
    <3>2. ~HandlesEnd' /\ row' = row
      BY <1>2 DEF Restart, HandlesEnd, Idle
    <3>. QED BY <3>1, <3>2 DEF Announced
  <2>. QED BY <1>1, <2>1, <2>2, <2>3, <2>4 DEF Duty, StaysReleased, CleanEnd
<1>3. CASE Runtime
  <2>1. /\ res' = res /\ recon' = recon /\ state' = state /\ row' = row
        /\ bus' = bus /\ disp' = disp
    BY <1>3 DEF Runtime, RuntimeReachable, RuntimeExits, RuntimeCrashes
  <2>2. Ends => Ends'
    BY <1>1, <1>3, SeenGrows DEF Ends, Runtime, RuntimeReachable, RuntimeExits,
       RuntimeCrashes, TypeOK, Process
  <2>3. Announced' => Announced
    BY <2>1 DEF Announced, HandlesEnd
  <2>. QED BY <1>1, <2>1, <2>2, <2>3 DEF Duty, StaysReleased, CleanEnd
<1>. QED BY <1>2, <1>3

LEMMA EndStaysReconcile ==
    ASSUME IInv, Next, NoStaleWrite', "resurrected" \notin seen',
           Duty, StaysReleased, CleanEnd, NEW r \in Reconcilers, Reconcile(r)
    PROVE  Duty' /\ StaysReleased' /\ CleanEnd'
<1>. DEFINE T == StateMsg("terminated")
<1>1. TypeOK /\ (GivenUp => GivenUp')
  BY GivenUpStays DEF IInv
<1>2. /\ recon'[r].pc \in {"prepare", "probe"} /\ runtime' = runtime /\ res' = res
      /\ recon'[r].machine.DesiredState = state.DesiredState
      /\ \A q \in Reconcilers : q # r => recon'[q] = recon[q]
      /\ row' = row
  BY <1>1, ReconcileBegins, ReconcileFromState
<1>3. state.DesiredState = "terminated" => state'.DesiredState = "terminated"
  BY StateColumns
<1>4. Ends => Ends'
  BY <1>1, <1>2, EndsGrows
<1>5. Announced' => Announced
  <2>1. disp'.pc # "handle"
    BY DEF Reconcile, ConsiderListener, Idle
  <2>2. PICK cond : bus' = PublishIf(cond, Rest(Assess), StateMsg("starting"))
    BY DEF Reconcile
  <2>3. /\ Rest(Assess) \in [Message -> Nat] /\ Assess \in Message /\ Assess # T
        /\ T \in Message /\ StateMsg("starting") \in Message /\ StateMsg("starting") # T
    BY <1>1, RestType, EndMessage, MessageTypes DEF Reconcile, MachineState
  <2>4. bus'[T] = bus[T]
    BY <1>1, <2>2, <2>3, SentAt, RestAt
  <2>. QED BY <1>2, <2>1, <2>4 DEF Announced, HandlesEnd
<1>. QED BY <1>1, <1>2, <1>3, <1>4, <1>5 DEF Duty, StaysReleased, CleanEnd

LEMMA EndStaysReconciliation ==
    ASSUME IInv, CourseInv, Next, NoStaleWrite, NoStaleWrite', "resurrected" \notin seen',
           Duty, StaysReleased, CleanEnd, NEW r \in Reconcilers, Reconciliation(r)
    PROVE  Duty' /\ StaysReleased' /\ CleanEnd'
<1>. DEFINE Released == res.memory.released \/ res.saved.released
<1>1. TypeOK /\ (GivenUp => GivenUp')
  BY GivenUpStays DEF IInv
<1>2. /\ CourseStep(r) /\ Active(r)
      /\ recon'[r].pc # "none" => recon'[r].machine = recon[r].machine
      /\ seen \subseteq seen'
  BY <1>1, ReconciliationMoves, ReconciliationSteps
<1>3. \A q \in Reconcilers : q # r => recon'[q].pc = "none"
  BY <1>1, <1>2, Alone, ReconciliationSteps
<1>4. state.DesiredState = "terminated" => state'.DesiredState = "terminated"
  BY StateColumns
<1>5. recon[r].pc \in {"releaseNic", "releaseVolumes"} => GivenUp
  BY DutyGivesUp DEF CourseInv
<1>6. GivenUp => recon[r].pc \notin {"prepare", "probeStart", "start"}
  BY DEF GivenUp, Active, CourseInv
<1>7. recon[r].pc # "start" /\ Ends => Ends'
  BY <1>1, <1>2, EndsGrows DEF CourseStep, Moves
<1>8. Duty'
  <2>1. recon'[r].pc \notin {"none", "clear"} => recon[r].pc \notin {"none", "clear"}
    BY <1>2 DEF CourseStep, Moves, Active
  <2>2. recon'[r].pc \in {"await", "releaseNic", "releaseVolumes"} => Ends'
    <3>1. CASE recon[r].pc \in {"await", "releaseNic"}
      BY <1>7, <3>1 DEF Duty
    <3>2. CASE recon[r].pc \notin {"await", "releaseNic"}
      BY <1>2, <3>2 DEF CourseStep, Moves, Ends
    <3>. QED BY <3>1, <3>2
  <2>3. recon'[r].pc = "releaseVolumes" => ~res'.link
    BY <1>2 DEF CourseStep, Moves, AfterRuntime
  <2>. QED BY <1>2, <1>3, <1>4, <2>1, <2>2, <2>3 DEF Duty
<1>9. StaysReleased'
  <2>1. Released' => Released \/ recon[r].pc = "releaseVolumes"
    BY <1>2 DEF CourseStep, Moves, SameReleased
  <2>2. ASSUME Released' PROVE GivenUp
    BY <1>5, <2>1, <2>2 DEF StaysReleased
  <2>3. ASSUME Released' PROVE ~res'.volume
    <3>1. CASE Released
      BY <1>2, <1>6, <2>2, <2>3, <3>1 DEF StaysReleased, CourseStep, Moves
    <3>2. CASE ~Released
      BY <1>2, <2>1, <2>3, <3>2 DEF CourseStep, Moves
    <3>. QED BY <3>1, <3>2
  <2>. QED BY <1>1, <2>2, <2>3 DEF StaysReleased
<1>10. CleanEnd'
  <2>1. CASE Announced
    <3>1. GivenUp /\ ~res.link /\ ~res.volume /\ Ends
      BY <2>1 DEF CleanEnd
    <3>2. ~res'.link /\ ~res'.volume
      BY <1>2, <1>6, <3>1 DEF CourseStep, Moves
    <3>. QED BY <1>1, <1>6, <1>7, <3>1, <3>2 DEF CleanEnd
  <2>2. CASE Announces(r)
    <3>1. recon[r].pc = "releaseVolumes"
      BY <2>2 DEF Announces, ReleaseVolumes, Reaches
    <3>2. GivenUp /\ ~res.link /\ Ends
      BY <1>5, <3>1 DEF Duty
    <3>3. res'.link = res.link /\ (res'.volume => res.volume)
      BY <1>2, <3>1 DEF CourseStep, Moves
    <3>4. ~res'.volume
      BY <2>2, <3>3 DEF Announces, StaysReleased
    <3>. QED BY <1>1, <1>7, <3>1, <3>2, <3>3, <3>4 DEF CleanEnd
  <2>. QED BY <1>1, <2>1, <2>2, AnnouncesAtEnd DEF CleanEnd
<1>. QED BY <1>8, <1>9, <1>10

LEMMA EndStays ==
    ASSUME IInv, CourseInv, EndInv, Next
    PROVE  EndInv'
<1>. SUFFICES ASSUME NoStaleWrite', "resurrected" \notin seen'
              PROVE  Duty' /\ StaysReleased' /\ CleanEnd'
  BY DEF EndInv
<1>1. NoStaleWrite /\ "resurrected" \notin seen
  BY StaleStays, SeenGrows DEF IInv
<1>2. Duty /\ StaysReleased /\ CleanEnd
  BY <1>1 DEF EndInv
<1>. QED BY <1>1, <1>2, StepGroups, EndStaysCalm, EndStaysRestart, EndStaysReconcile,
         EndStaysReconciliation

(* A row that says terminated, for a machine nobody asked back, has given  *)
(* everything up: no tap, no volume, no runtime that is not exiting, but   *)
(* for one a probe did not see.  The result is published only after both   *)
(* releases (reconciliation.go), and what was released does not come back, *)
(* however often calls fail and the agent restarts.                        *)
THEOREM TerminatedCorrect == Spec => []TerminatedIsClean
<1>1. Init => IInv /\ CourseInv /\ EndInv
  <2>1. Init => IInv
    BY TypeInit, SafetyInit, ConstantsAssumption
  <2>2. ASSUME Init PROVE CourseInv /\ EndInv
    <3>1. /\ \A r \in Reconcilers : recon[r].pc = "none"
          /\ ~res.memory.released /\ ~res.saved.released
          /\ row.State = "pending" /\ disp.pc = "idle"
      BY <2>2 DEF Init, NoReconciliation, NoStamps, Idle
    <3>2. bus[StateMsg("terminated")] = 0
      BY <2>2, EndMessage, MessageTypes DEF Init, PublishEvent, EmptyBus
    <3>. QED BY <3>1, <3>2 DEF CourseInv, EndInv, Duty, StaysReleased, CleanEnd,
             Announced, HandlesEnd
  <2>. QED BY <2>1, <2>2
<1>2. IInv /\ CourseInv /\ EndInv /\ [Next]_vars => (IInv /\ CourseInv /\ EndInv)'
  <2>1. ASSUME CourseInv, EndInv, UNCHANGED vars PROVE CourseInv' /\ EndInv'
    BY <2>1 DEF vars, CourseInv, EndInv, NoStaleWrite, Duty, StaysReleased, CleanEnd,
       GivenUp, Active, Ends, Announced, HandlesEnd
  <2>2. ASSUME IInv, CourseInv, EndInv, Next PROVE CourseInv' /\ EndInv'
    BY <2>2, CourseStays, EndStays DEF IInv
  <2>. QED BY <2>1, <2>2, SafetyNext
<1>3. IInv /\ CourseInv /\ EndInv => TerminatedIsClean
  BY DEF EndInv, CleanEnd, Announced, Ends, TerminatedIsClean
<1>. QED BY <1>1, <1>2, <1>3, PTL DEF Spec

-------------------------------------------------------------------------------
(* The controller implements MachineLife.                                  *)

(* Volumes that are said to be allocated are there, unless the machine is  *)
(* leaving; and a runtime is about to be started only beside a link and    *)
(* volumes.                                                                *)
Allocated == res.memory.allocated \/ res.saved.allocated
ReadyInv ==
    ~Astray =>
      /\ Allocated => res.volume \/ GivenUp
      /\ \A r \in Reconcilers :
           recon[r].pc \in {"probeStart", "start"} => res.link /\ res.volume

LEMMA StampAllocates ==
    ASSUME NEW x \in Resources, NEW saves \in BOOLEAN,
           NEW column \in {"nicReleased", "released"}
    PROVE  /\ Stamp(x, column, saves).memory.allocated = x.memory.allocated
           /\ Stamp(x, column, saves).saved.allocated = x.saved.allocated
<1>1. x.memory \in Stamps /\ x.saved \in Stamps
  BY DEF Resources
<1>2. Stamp(x, column, saves) =
        [[x EXCEPT !.memory = [x.memory EXCEPT ![column] = TRUE]] EXCEPT
           !.saved = [x.saved EXCEPT ![column] = @ \/ (saves /\ ~x.memory[column])]]
  BY DEF Stamp, Resources
<1>3. /\ [x.memory EXCEPT ![column] = TRUE].allocated = x.memory.allocated
      /\ [x.saved EXCEPT ![column] = @ \/ (saves /\ ~x.memory[column])].allocated
           = x.saved.allocated
  BY <1>1 DEF Stamps
<1>. QED BY <1>2, <1>3 DEF Resources

(* A preparation loses no volume, allocates none that is not there, and    *)
(* succeeds with a link and with volumes that are allocated or there.      *)
LEMMA PrepareReadies ==
    ASSUME TypeOK, NEW r \in Reconcilers, Prepare(r)
    PROVE  /\ res.volume => res'.volume
           /\ Allocated' => Allocated \/ res'.volume
           /\ recon'[r].pc # "clear" =>
                res'.link /\ (res.memory.allocated \/ res'.volume)
<1>. DEFINE held == [res EXCEPT !.volume = TRUE]
            stamped(saves) == Stamp(held, "allocated", saves)
<1>1. PICK nicOk, volumeOk, link \in BOOLEAN :
        /\ nicOk => link
        /\ \E after \in {res, stamped(FALSE), stamped(TRUE)} :
             /\ AllocateVolume(recon[r].cancelled, volumeOk, after)
             /\ res' = [after EXCEPT !.link = link]
        /\ ~nicOk \/ ~volumeOk => Finish(r, "error")
  BY DEF Prepare, AnyFailed
<1>2. PICK after \in {res, stamped(FALSE), stamped(TRUE)} :
        /\ AllocateVolume(recon[r].cancelled, volumeOk, after)
        /\ res' = [after EXCEPT !.link = link]
  BY <1>1
<1>3. \/ after = res /\ (volumeOk => res.memory.allocated)
      \/ \E saves \in BOOLEAN : after = stamped(saves)
  BY <1>2 DEF AllocateVolume
<1>4. recon'[r].pc # "clear" => nicOk /\ volumeOk
  BY <1>1, GotoMoves
<1>. HIDE DEF stamped
<1>5. CASE after = res /\ (volumeOk => res.memory.allocated)
  <2>1. /\ res'.link = link /\ res'.volume = res.volume
        /\ res'.memory = res.memory /\ res'.saved = res.saved
    BY <1>2, <1>5 DEF TypeOK, Resources
  <2>. QED BY <1>1, <1>4, <1>5, <2>1 DEF Allocated
<1>6. ASSUME NEW saves \in BOOLEAN, after = stamped(saves)
      PROVE  res'.link = link /\ res'.volume
  <2>1. held \in Resources /\ held.volume
    BY DEF TypeOK, Resources
  <2>. HIDE DEF held
  <2>2. after \in Resources /\ after.volume
    BY <1>6, <2>1, StampType, StampFields DEF stamped
  <2>. QED BY <1>2, <2>2 DEF Resources
<1>. QED BY <1>1, <1>3, <1>4, <1>5, <1>6

LEMMA NotAstray ==
    ASSUME IInv, Next, ~Astray'
    PROVE  /\ NoStaleWrite /\ NoStaleWrite' /\ ~Astray /\ Astray' = Astray
           /\ "resurrected" \notin seen /\ "resurrected" \notin seen'
BY StaleStays, SeenGrows DEF Astray, IInv

LEMMA ReadyStays ==
    ASSUME IInv, CourseInv, EndInv, ReadyInv, Next
    PROVE  ReadyInv'
<1>. SUFFICES ASSUME ~Astray'
              PROVE  /\ Allocated' => res'.volume \/ GivenUp'
                     /\ \A r \in Reconcilers :
                          recon'[r].pc \in {"probeStart", "start"} =>
                            res'.link /\ res'.volume
  BY DEF ReadyInv
<1>1. /\ TypeOK /\ NoStaleWrite /\ (GivenUp => GivenUp')
      /\ Duty /\ StaysReleased /\ CleanEnd
      /\ Allocated => res.volume \/ GivenUp
      /\ \A r \in Reconcilers :
           recon[r].pc \in {"probeStart", "start"} => res.link /\ res.volume
  BY NotAstray, GivenUpStays DEF IInv, EndInv, ReadyInv
<1>2. CASE CalmStep
  BY <1>1, <1>2, CalmSteps DEF Allocated
<1>3. CASE Restart
  <2>1. /\ \A r \in Reconcilers : recon'[r].pc = "none"
        /\ res'.volume = res.volume
        /\ res'.memory = res.saved /\ res'.saved = res.saved
    BY <1>1, <1>3 DEF Restart, NoReconciliation, TypeOK, Resources
  <2>. QED BY <1>1, <2>1 DEF Allocated
<1>4. CASE Runtime
  BY <1>1, <1>4 DEF Runtime, RuntimeReachable, RuntimeExits, RuntimeCrashes, Allocated
<1>5. ASSUME NEW r \in Reconcilers, Reconcile(r)
      PROVE  /\ Allocated' => res'.volume \/ GivenUp'
             /\ \A q \in Reconcilers :
                  recon'[q].pc \in {"probeStart", "start"} => res'.link /\ res'.volume
  BY <1>1, <1>5, ReconcileBegins DEF Allocated
<1>6. ASSUME NEW r \in Reconcilers, Reconciliation(r)
      PROVE  /\ Allocated' => res'.volume \/ GivenUp'
             /\ \A q \in Reconcilers :
                  recon'[q].pc \in {"probeStart", "start"} => res'.link /\ res'.volume
  <2>1. /\ CourseStep(r) /\ Active(r)
        /\ \A q \in Reconcilers : q # r => recon'[q].pc = "none"
    BY <1>1, <1>6, ReconciliationMoves, ReconciliationSteps, Alone
  <2>2. CASE Prepare(r)
    <3>1. recon[r].pc = "prepare" /\ ~GivenUp
      BY <2>1, <2>2 DEF Prepare, Reaches, CourseInv, GivenUp
    <3>. QED BY <1>1, <2>1, <2>2, <3>1, PrepareReadies DEF Allocated
  <2>3. CASE ReleaseInterface(r)
    <3>1. /\ recon[r].pc = "releaseNic"
          /\ recon'[r].pc \in {"releaseVolumes", "clear"}
      BY <2>1, <2>3 DEF ReleaseInterface, Reaches, CourseStep, Moves
    <3>2. GivenUp
      BY <1>1, <3>1, DutyGivesUp DEF CourseInv
    <3>. QED BY <1>1, <2>1, <3>1, <3>2
  <2>4. CASE ReleaseVolumes(r)
    <3>1. recon[r].pc = "releaseVolumes" /\ recon'[r].pc = "clear"
      BY <2>1, <2>4 DEF ReleaseVolumes, Reaches, CourseStep, Moves
    <3>2. GivenUp
      BY <1>1, <3>1, DutyGivesUp DEF CourseInv
    <3>. QED BY <1>1, <2>1, <3>1, <3>2
  <2>5. CASE ~Prepare(r) /\ ~ReleaseInterface(r) /\ ~ReleaseVolumes(r)
    <3>1. res' = res
      BY <1>6, <2>5 DEF Reconciliation, Probe, Terminate, AwaitExit, ProbeStart,
         StartRuntime, HoldCopyToClear, ClearReconciliation
    <3>2. recon[r].pc # "prepare"
      BY <1>6, <2>5 DEF Reconciliation, Probe, Terminate, AwaitExit, ProbeStart,
         StartRuntime, HoldCopyToClear, ClearReconciliation, Reaches
    <3>3. recon'[r].pc \in {"probeStart", "start"} => recon[r].pc = "probeStart"
      BY <2>1, <3>2 DEF CourseStep, Moves, AfterRuntime
    <3>. QED BY <1>1, <2>1, <3>1, <3>3 DEF Allocated
  <2>. QED BY <2>2, <2>3, <2>4, <2>5
<1>. QED BY <1>2, <1>3, <1>4, <1>5, <1>6, StepGroups

LifeInv == IInv /\ ProbeInv /\ CourseInv /\ EndInv /\ ReadyInv

(* A step that leaves runtime, link and volumes alone, and records an end  *)
(* only that was announced, changes the phase at most, as MachineLife      *)
(* allows.                                                                 *)
Still ==
    /\ res'.link = res.link /\ res'.volume = res.volume
    /\ runtime'.status = runtime.status
    /\ "blindProbe" \in seen' => "blindProbe" \in seen
    /\ row'.State = "terminated" => Announced

LEMMA LifeStill ==
    ASSUME IInv, EndInv, Next, ~Astray', Still
    PROVE  [Life!Next]_(Life!life)
<1>1. /\ ~Astray /\ (GivenUp => GivenUp')
      /\ Announced => GivenUp /\ ~res.link /\ ~res.volume /\ Ends
  BY NotAstray, GivenUpStays DEF EndInv, CleanEnd
<1>2. row.State = "terminated" => Announced
  BY DEF Announced
<1>3. /\ Astray' = Astray
      /\ ("blindProbe" \in seen') = ("blindProbe" \in seen)
  BY NotAstray, SeenGrows DEF Still, IInv
<1>4. CASE Phase' = Phase
  BY <1>3, <1>4 DEF Still, Life!life
<1>5. CASE Phase = "kept" /\ Phase' = "leaving"
  BY <1>3, <1>5 DEF Still, Life!Next, Life!Leave
<1>6. CASE Phase = "leaving" /\ Phase' = "left"
  <2>1. Announced
    BY <1>6 DEF Phase, Still
  <2>. QED BY <1>1, <1>3, <1>6, <2>1 DEF Still, Life!Next, Life!HasLeft, Life!Ended, Ends
<1>7. CASE Phase = "left" /\ Phase' = "leaving"
  BY <1>3, <1>7 DEF Still, Life!Next, Life!Overtaken
<1>8. CASE Phase = "kept" /\ Phase' = "left"
  BY <1>1, <1>8 DEF Phase, Still
<1>9. CASE Phase # "kept" /\ Phase' = "kept"
  BY <1>1, <1>9 DEF Phase
<1>. QED BY <1>4, <1>5, <1>6, <1>7, <1>8, <1>9 DEF Phase

LEMMA LifeAround ==
    ASSUME IInv, EndInv, Next, ~Astray',
           \/ CalmStep \/ Restart
           \/ \E r \in Reconcilers :
                Reconcile(r) \/ HoldCopyToClear(r) \/ ClearReconciliation(r)
    PROVE  [Life!Next]_(Life!life)
<1>1. TypeOK /\ TypeOK'
  BY TypeNext, ConstantsAssumption DEF IInv
<1>2. CASE CalmStep
  <2>1. row'.State = "terminated" => Announced
    BY <1>1, <1>2, AnnouncedBefore DEF Announced
  <2>. QED BY <1>1, <1>2, <2>1, CalmSteps, LifeStill DEF Still
<1>3. CASE Restart
  BY <1>1, <1>3, LifeStill DEF Restart, TypeOK, Resources, Process, Still, Announced
<1>4. ASSUME NEW r \in Reconcilers, Reconcile(r) PROVE Still
  <2>1. "blindProbe" \in seen' => "blindProbe" \in seen
    BY <1>4 DEF Reconcile, ConsiderListener
  <2>. QED BY <1>1, <1>4, <2>1, ReconcileBegins DEF Still, Announced
<1>5. ASSUME NEW r \in Reconcilers, HoldCopyToClear(r) \/ ClearReconciliation(r)
      PROVE  Still
  BY <1>5 DEF HoldCopyToClear, ClearReconciliation, Still, Announced
<1>. QED BY <1>2, <1>3, <1>4, <1>5, LifeStill

LEMMA LifeRuntime ==
    ASSUME IInv, Next, ~Astray', Runtime
    PROVE  [Life!Next]_(Life!life)
<1>1. Astray' = Astray /\ TypeOK
  BY NotAstray DEF IInv
<1>2. /\ res' = res /\ seen' = seen
      /\ state' = state /\ row' = row /\ recon' = recon
      /\ <<runtime.status, runtime'.status>> \in
           {<<"booting", "up">>, <<"dying", "absent">>,
            <<"booting", "absent">>, <<"up", "absent">>}
  BY <1>1 DEF Runtime, RuntimeReachable, RuntimeExits, RuntimeCrashes, TypeOK, Process
<1>3. Phase' = Phase
  BY <1>2 DEF Phase, GivenUp, Active
<1>. QED BY <1>1, <1>2, <1>3 DEF Life!Next, Life!RuntimeMoves

(* Until it has published its result a reconciliation changes nothing that *)
(* the phase depends on.                                                   *)
LEMMA SamePhase ==
    ASSUME IInv, Next, ~Astray', NEW r \in Reconcilers, Reconciliation(r),
           ~HoldCopyToClear(r), ~ClearReconciliation(r)
    PROVE  Phase' = Phase /\ Astray' = Astray
<1>1. TypeOK /\ Astray' = Astray
  BY NotAstray DEF IInv
<1>2. state' = state /\ row' = row
  BY DEF Reconciliation, Probe, Terminate, AwaitExit, Prepare, ProbeStart,
     StartRuntime, ReleaseInterface, ReleaseVolumes
<1>3. Active(r) /\ recon'[r].pc # "none"
  <2>1. recon[r].pc # "clear"
    BY DEF Reconciliation, Probe, Terminate, AwaitExit, Prepare, ProbeStart,
       StartRuntime, ReleaseInterface, ReleaseVolumes, Reaches
  <2>. QED BY <1>1, <2>1, ReconciliationMoves, ReconciliationSteps
           DEF CourseStep, Moves, AfterRuntime
<1>. QED BY <1>1, <1>2, <1>3, ReconciliationSteps DEF Phase, GivenUp, Active

LEMMA LifeProbes ==
    ASSUME IInv, Next, ~Astray', NEW r \in Reconcilers, Probe(r) \/ ProbeStart(r)
    PROVE  [Life!Next]_(Life!life)
<1>1. Phase' = Phase /\ Astray' = Astray
  BY SamePhase DEF Reconciliation, Probe, ProbeStart, HoldCopyToClear,
     ClearReconciliation, Reaches
<1>2. res' = res /\ runtime' = runtime
  BY DEF Probe, ProbeStart
<1>3. seen \subseteq seen'
  BY DEF Probe, ProbeStart, IsMachineRuntimeStarted
<1>4. CASE "blindProbe" \in seen' /\ "blindProbe" \notin seen
  BY <1>1, <1>2, <1>4 DEF Life!Next, Life!Overlook
<1>5. CASE ("blindProbe" \in seen') = ("blindProbe" \in seen)
  BY <1>1, <1>2, <1>5 DEF Life!life
<1>. QED BY <1>3, <1>4, <1>5

LEMMA LifeTerminates ==
    ASSUME IInv, Next, ~Astray', NEW r \in Reconcilers, Terminate(r) \/ AwaitExit(r)
    PROVE  [Life!Next]_(Life!life)
<1>1. Phase' = Phase /\ Astray' = Astray
  BY SamePhase DEF Reconciliation, Terminate, AwaitExit, HoldCopyToClear,
     ClearReconciliation, Reaches
<1>2. /\ res' = res /\ seen' = seen
      /\ \/ runtime'.status = runtime.status
         \/ <<runtime.status, runtime'.status>> \in {<<"up", "dying">>, <<"dying", "absent">>}
  BY DEF Terminate, AwaitExit, IInv, TypeOK, Process
<1>3. CASE runtime'.status = runtime.status
  BY <1>1, <1>2, <1>3 DEF Life!life
<1>4. CASE runtime'.status # runtime.status
  BY <1>1, <1>2, <1>4 DEF Life!Next, Life!RuntimeMoves
<1>. QED BY <1>3, <1>4

LEMMA LifeSetsUp ==
    ASSUME LifeInv, Next, ~Astray', NEW r \in Reconcilers, Prepare(r) \/ StartRuntime(r)
    PROVE  [Life!Next]_(Life!life)
<1>1. /\ Phase' = Phase /\ Astray' = Astray /\ ~Astray /\ NoStaleWrite
      /\ TypeOK /\ TypeOK'
  BY SamePhase, NotAstray, TypeNext, ConstantsAssumption
     DEF Reconciliation, Prepare, StartRuntime, HoldCopyToClear,
         ClearReconciliation, Reaches, LifeInv, IInv
<1>2. Phase = "kept"
  BY DEF Prepare, StartRuntime, Reaches, LifeInv, CourseInv, GivenUp, Active, Phase
<1>3. CASE Prepare(r)
  <2>1. runtime' = runtime /\ seen' = seen
    BY <1>3 DEF Prepare
  <2>2. res.volume => res'.volume
    BY <1>1, <1>3, PrepareReadies
  <2>3. res'.link \in BOOLEAN /\ res.volume \in BOOLEAN /\ res'.volume \in BOOLEAN
    BY <1>1 DEF TypeOK, Resources
  <2>4. Life!SetUp
    BY <1>1, <1>2, <2>1, <2>2, <2>3 DEF Life!SetUp
  <2>. QED BY <1>1, <2>4 DEF Life!Next
<1>4. CASE StartRuntime(r)
  <2>. DEFINE started == IF runtime.status = "up" THEN "up" ELSE "booting"
              double == Note("doubleStart", runtime.status # "absent")
  <2>1. /\ res' = res /\ recon[r].pc = "start"
        /\ \/ runtime' = runtime /\ seen' = seen
           \/ runtime' = [status |-> started, child |-> TRUE] /\ seen' = seen \cup double
    BY <1>4 DEF StartRuntime, Reaches
  <2>2. /\ ("blindProbe" \in seen') = ("blindProbe" \in seen)
        /\ runtime' = runtime \/ runtime'.status = started
    <3>1. "blindProbe" \notin double
      BY DEF Note
    <3>. HIDE DEF started, double
    <3>. QED BY <2>1, <3>1
  <2>3. res.link /\ res.volume
    BY <1>1, <2>1 DEF LifeInv, ReadyInv
  <2>4. runtime.status = "absent" \/ "blindProbe" \in seen
    BY <1>1, <2>1 DEF LifeInv, ProbeInv
  <2>5. CASE runtime' = runtime
    BY <1>1, <2>1, <2>2, <2>5 DEF Life!life
  <2>6. CASE runtime'.status = started
    <3>1. Life!Start
      BY <1>1, <1>2, <2>1, <2>2, <2>3, <2>4, <2>6 DEF Life!Start
    <3>. QED BY <1>1, <3>1 DEF Life!Next
  <2>. QED BY <2>2, <2>5, <2>6
<1>. QED BY <1>3, <1>4

LEMMA LifeGivesUp ==
    ASSUME LifeInv, Next, ~Astray', NEW r \in Reconcilers,
           ReleaseInterface(r) \/ ReleaseVolumes(r)
    PROVE  [Life!Next]_(Life!life)
<1>1. /\ Phase' = Phase /\ Astray' = Astray /\ ~Astray /\ NoStaleWrite
      /\ TypeOK /\ TypeOK'
  BY SamePhase, NotAstray, TypeNext, ConstantsAssumption
     DEF Reconciliation, ReleaseInterface, ReleaseVolumes, HoldCopyToClear,
         ClearReconciliation, Reaches, LifeInv, IInv
<1>2. Duty /\ CleanEnd /\ runtime' = runtime /\ seen' = seen
  BY <1>1, NotAstray DEF ReleaseInterface, ReleaseVolumes, LifeInv, EndInv
<1>3. /\ CourseStep(r)
      /\ recon[r].pc \in {"releaseNic", "releaseVolumes"}
  BY <1>1, ReleaseMoves DEF ReleaseInterface, ReleaseVolumes, Reaches
<1>4. GivenUp /\ Life!Ended
  <2>1. GivenUp
    BY <1>1, <1>2, <1>3, DutyGivesUp DEF LifeInv, CourseInv
  <2>2. Ends
    BY <1>2, <1>3 DEF Duty
  <2>. QED BY <2>1, <2>2 DEF Ends, Life!Ended
<1>5. res'.link \in BOOLEAN /\ res'.volume \in BOOLEAN /\ res.link \in BOOLEAN
      /\ res.volume \in BOOLEAN
  BY <1>1 DEF TypeOK, Resources
<1>6. CASE recon[r].pc = "releaseNic"
  <2>1. res'.volume = res.volume /\ (res'.link => res.link)
    BY <1>3, <1>6 DEF CourseStep, Moves
  <2>2. CASE res'.link = res.link
    BY <1>1, <1>2, <2>1, <2>2 DEF Life!life
  <2>3. CASE res'.link # res.link
    <3>1. res.link /\ res'.link = FALSE
      BY <1>5, <2>1, <2>3
    <3>2. Phase = "leaving"
      BY <1>2, <1>4, <3>1 DEF Phase, CleanEnd, Announced
    <3>3. Life!GiveUpLink
      BY <1>1, <1>2, <1>4, <2>1, <3>1, <3>2 DEF Life!GiveUpLink
    <3>. QED BY <1>1, <3>3 DEF Life!Next
  <2>. QED BY <2>2, <2>3
<1>7. CASE recon[r].pc = "releaseVolumes"
  <2>1. res'.link = res.link /\ (res'.volume => res.volume) /\ ~res.link
    BY <1>2, <1>3, <1>7 DEF CourseStep, Moves, Duty
  <2>2. CASE res'.volume = res.volume
    BY <1>1, <1>2, <2>1, <2>2 DEF Life!life
  <2>3. CASE res'.volume # res.volume
    <3>1. res.volume /\ res'.volume = FALSE
      BY <1>5, <2>1, <2>3
    <3>2. Phase = "leaving"
      BY <1>2, <1>4, <3>1 DEF Phase, CleanEnd, Announced
    <3>3. Life!GiveUpVolumes
      BY <1>1, <1>2, <1>4, <2>1, <3>1, <3>2 DEF Life!GiveUpVolumes
    <3>. QED BY <1>1, <3>3 DEF Life!Next
  <2>. QED BY <2>2, <2>3
<1>. QED BY <1>3, <1>6, <1>7

LEMMA LifeStep ==
    ASSUME LifeInv, Next
    PROVE  [Life!Next]_(Life!life)
<1>1. CASE Astray'
  BY <1>1 DEF Life!Next
<1>2. CASE ~Astray'
  <2>1. ASSUME NEW r \in Reconcilers, Reconciliation(r)
        PROVE  [Life!Next]_(Life!life)
    BY <1>2, <2>1, LifeAround, LifeProbes, LifeTerminates, LifeSetsUp, LifeGivesUp
       DEF LifeInv, Reconciliation
  <2>. QED BY <1>2, <2>1, StepGroups, LifeAround, LifeRuntime DEF LifeInv
<1>. QED BY <1>1, <1>2

(* The controller (controller.go, event_handler.go, reconciliation.go)     *)
(* implements the life of a machine that MachineLife describes, for any    *)
(* number of goroutines, failing calls and restarts.  A release waits for  *)
(* the runtime's end, a start for link and volumes, the record of the end  *)
(* for both releases; what a leaving machine gave up does not come back.   *)
THEOREM LifeCorrect == Spec => LifeSpec
<1>1. Init => LifeInv /\ Life!Init
  <2>1. Init => IInv
    BY TypeInit, SafetyInit, ConstantsAssumption
  <2>2. ASSUME Init
        PROVE  ProbeInv /\ CourseInv /\ EndInv /\ ReadyInv /\ Life!Init
    <3>1. /\ \A r \in Reconcilers : recon[r].pc = "none"
          /\ ~res.memory.released /\ ~res.saved.released
          /\ ~res.memory.allocated /\ ~res.saved.allocated
          /\ res.link = FALSE /\ res.volume = FALSE
          /\ runtime.status = "absent" /\ seen = {} /\ used.staleWrites = 0
          /\ row.State = "pending" /\ disp.pc = "idle"
      BY <2>2 DEF Init, NoReconciliation, NoStamps, Idle
    <3>2. bus[StateMsg("terminated")] = 0
      BY <2>2, EndMessage, MessageTypes DEF Init, PublishEvent, EmptyBus
    <3>3. ProbeInv /\ CourseInv /\ EndInv /\ ReadyInv
      BY <3>1, <3>2 DEF ProbeInv, CourseInv, EndInv, Duty, StaysReleased, CleanEnd,
         Announced, HandlesEnd, ReadyInv, Allocated
    <3>4. /\ Phase \in {"kept", "leaving"} /\ Astray = FALSE
          /\ ("blindProbe" \in seen) = FALSE
      BY <3>1 DEF Astray, NoStaleWrite, Phase
    <3>. QED BY <3>1, <3>3, <3>4 DEF Life!Init
  <2>. QED BY <2>1, <2>2 DEF LifeInv
<1>2. LifeInv /\ [Next]_vars => LifeInv' /\ [Life!Next]_(Life!life)
  <2>1. ASSUME LifeInv, UNCHANGED vars PROVE LifeInv' /\ UNCHANGED Life!life
    <3>1. ProbeInv' /\ CourseInv' /\ EndInv' /\ ReadyInv'
      BY <2>1 DEF LifeInv, vars, ProbeInv, CourseInv, EndInv, ReadyInv, Astray,
         NoStaleWrite, Duty, StaysReleased, CleanEnd, GivenUp, Active, Ends, Announced,
         HandlesEnd, Allocated
    <3>2. UNCHANGED Life!life
      BY <2>1 DEF vars, Life!life, Phase, GivenUp, Active, Astray, NoStaleWrite
    <3>. QED BY <2>1, <3>1, <3>2, SafetyNext DEF LifeInv
  <2>2. ASSUME LifeInv, Next PROVE LifeInv' /\ [Life!Next]_(Life!life)
    BY <2>2, SafetyNext, ProbeStays, CourseStays, EndStays, ReadyStays, LifeStep
       DEF LifeInv, IInv
  <2>. QED BY <2>1, <2>2
<1>. QED BY <1>1, <1>2, PTL DEF Spec, LifeSpec, Life!Spec

-------------------------------------------------------------------------------
(* Nothing is forgotten: a state that asks for something has a message, or *)
(* a reconciliation, that will see to it.                                  *)

Lasting == Message \ {Connected, Disconnected}

(* A message that leads to an Assess, on its way or being handled.         *)
Due == \/ \E m \in Lasting : bus[m] > 0
       \/ disp.pc = "handle" /\ disp.msg \in Lasting

Working == \E r \in Reconcilers : recon[r].pc \notin {"none", "clear"}

IdleInv == disp.pc = "idle" => disp.copy = None

CancelInv ==
    \A l \in Listeners :
      listen[l].cancelled \/ listen[l].pc = "exit" => "listenerCancel" \in seen

Converges ==
    shouldReconcile(state) => Due \/ Working \/ skipped \/ ctl.stopping

Observes ==
    shouldStartRuntimeListener(state) =>
      \/ Due \/ disp.pc = "startListener"
      \/ state.RuntimeListener # None \/ "listenerCancel" \in seen

DueInv == Alive /\ NoStaleWrite => Converges /\ Observes

LEMMA LastingTypes ==
    /\ Assess \in Lasting
    /\ \A s \in MachineState : StateMsg(s) \in Lasting
    /\ \A m \in Lasting : m \in Message /\ m # Connected /\ m # Disconnected
<1>1. Assess # Connected /\ Assess # Disconnected
  <2>1. /\ Assess.type = "Assess" /\ Connected.type = "Connected"
        /\ Disconnected.type = "Disconnected"
    BY DEF Assess, Connected, Disconnected
  <2>. QED BY <2>1
<1>. QED BY <1>1, MessageTypes, MessagesApart DEF Lasting

(* Assessing is the only way to take such a message off the bus and send   *)
(* none in its place.                                                      *)
NoAssess == ~Restart /\ ~AssessOnly /\ \A r \in Reconcilers : ~Reconcile(r)

LEMMA DueByMessage ==
    ASSUME TypeOK', NEW m \in Lasting, NEW b \in [Message -> Nat], bus' = PublishEvent(b, m)
    PROVE  Due'
<1>1. b[m] \in Nat /\ bus'[m] = b[m] + 1
  BY LastingTypes, SentAt
<1>. QED BY <1>1 DEF Due

LEMMA SaveIsDue ==
    ASSUME TypeOK, TypeOK', NEW m \in Message, NEW column, NEW events,
           SaveColumn(m, column, events)
    PROVE  Due'
<1>1. bus' = PublishEvent(Rest(m), Assess) /\ Rest(m) \in [Message -> Nat]
  BY RestType DEF SaveColumn, AfterSave
<1>. QED BY <1>1, LastingTypes, DueByMessage

LEMMA HandlerIsDue ==
    ASSUME TypeOK, TypeOK',
           \/ \E d \in DesiredState : DesiredStateChanged(d)
           \/ \E s \in MachineState : StateChanged(s)
    PROVE  Due'
BY SaveIsDue, MessageTypes DEF DesiredStateChanged, StateChanged

LEMMA FinishIsDue ==
    ASSUME TypeOK, TypeOK', NEW r, NEW s \in MachineState, Finish(r, s)
    PROVE  Due'
BY LastingTypes, DueByMessage DEF Finish, TypeOK

(* A step of a reconciliation sends, and takes nothing off the bus.        *)
LEMMA ReconciliationSends ==
    ASSUME TypeOK, NEW r \in Reconcilers, Reconciliation(r)
    PROVE  /\ disp' = disp
           /\ \/ bus' = bus
              \/ \E s \in MachineState : Finish(r, s)
              \/ \E cond : bus' = PublishIf(cond, bus, StateMsg("terminating"))
<1>1. disp' = disp
  BY DEF Reconciliation, Probe, Terminate, AwaitExit, Prepare, ProbeStart,
     StartRuntime, ReleaseInterface, ReleaseVolumes, HoldCopyToClear,
     ClearReconciliation
<1>2. CASE Probe(r)
  BY <1>1, <1>2 DEF Probe
<1>3. CASE ~Probe(r)
  BY <1>1, <1>3 DEF Reconciliation, Terminate, AwaitExit, Prepare, ProbeStart,
     StartRuntime, ReleaseInterface, ReleaseVolumes, HoldCopyToClear,
     ClearReconciliation, Continue, MachineState
<1>. QED BY <1>2, <1>3

LEMMA DueStays ==
    ASSUME TypeOK, TypeOK', Next, NoAssess, Due
    PROVE  Due'
<1>. DEFINE Kept == \A n \in Lasting : bus[n] > 0 => bus'[n] > 0
<1>1. bus \in [Message -> Nat] /\ bus' \in [Message -> Nat]
  BY DEF TypeOK
<1>2. ASSUME Kept, disp' = disp \/ ~(disp.pc = "handle" /\ disp.msg \in Lasting)
      PROVE  Due'
  BY <1>2 DEF Due
<1>3. ASSUME NEW m \in Message, NEW cond, \/ bus' = PublishEvent(bus, m)
                                          \/ bus' = PublishIf(cond, bus, m)
      PROVE  Kept
  BY <1>1, <1>3, SentAt, LastingTypes
<1>4. CASE Register \/ Stop \/ Runtime
  BY <1>2, <1>4 DEF Register, Stop, StopBegins, StopTimesOut, Runtime,
     RuntimeReachable, RuntimeExits, RuntimeCrashes
<1>5. ASSUME NEW d \in Requestable, UpdateDesiredState(d) PROVE Due'
  <2>1. DesiredMsg(d) \in Message
    BY MessageTypes, ConstantsAssumption DEF ConstantsAssumption
  <2>. QED BY <1>2, <1>3, <1>5, <2>1 DEF UpdateDesiredState
<1>6. ASSUME NEW m \in Message, HoldCopy(m) PROVE Due'
  <2>1. /\ disp.pc = "idle" /\ disp'.pc = "handle" /\ disp'.msg = m /\ bus' = Rest(m)
    BY <1>6 DEF HoldCopy, Receives, DispatcherAt
  <2>2. CASE m \in Lasting
    BY <2>1, <2>2 DEF Due
  <2>3. CASE m \notin Lasting
    <3>1. Kept
      BY <2>1, <2>3, RestAt, LastingTypes
    <3>. QED BY <1>2, <2>1, <3>1
  <2>. QED BY <2>2, <2>3
<1>7. CASE HoldCopyForListener \/ DispatcherReturns
           \/ \E l \in Listeners : startRuntimeListener(l)
  <2>1. bus' = bus /\ disp.pc # "handle"
    BY <1>7 DEF HoldCopyForListener, DispatcherReturns, startRuntimeListener,
       DispatcherAt
  <2>. QED BY <1>2, <2>1
<1>8. CASE CountErrors
  <2>1. disp.pc # "handle" /\ \E m \in Message, cond \in BOOLEAN :
                                bus' = PublishEvent(bus, m) \/ bus' = PublishIf(cond, bus, m)
    <3>1. StateMsg("error") \in Message /\ StateMsg("degraded") \in Message
      BY MessageTypes DEF MachineState
    <3>. QED BY <1>8, <3>1 DEF CountErrors, DispatcherAt
  <2>. QED BY <1>2, <1>3, <2>1
<1>9. CASE ListenerConnected
  <2>1. /\ Rest(Connected) \in [Message -> Nat] /\ Connected \in Message
        /\ StateMsg("running") \in Message
    BY <1>9, RestType, MessageTypes DEF ListenerConnected, MachineState
  <2>2. PICK cond : bus' = PublishIf(cond, Rest(Connected), StateMsg("running"))
    BY <1>9 DEF ListenerConnected
  <2>3. \A n \in Lasting : Rest(Connected)[n] = bus[n]
    BY <2>1, RestAt, LastingTypes
  <2>4. \A n \in Lasting : bus'[n] >= Rest(Connected)[n]
    BY <2>1, <2>2, SentAt, LastingTypes
  <2>5. Kept
    BY <1>1, <2>3, <2>4, LastingTypes
  <2>6. ~(disp.pc = "handle" /\ disp.msg \in Lasting)
    BY <1>9, LastingTypes DEF ListenerConnected, Handles, Receives, DispatcherAt
  <2>. QED BY <1>2, <2>5, <2>6
<1>10. CASE ListenerDisconnected
  <2>1. Kept
    BY <1>10, RestAt, LastingTypes, MessageTypes DEF ListenerDisconnected
  <2>2. ~(disp.pc = "handle" /\ disp.msg \in Lasting)
    BY <1>10, LastingTypes DEF ListenerDisconnected, Handles, Receives, DispatcherAt
  <2>. QED BY <1>2, <2>1, <2>2
<1>11. ASSUME NEW r \in Reconcilers, Reconciliation(r) PROVE Due'
  <2>1. StateMsg("terminating") \in Message
    BY MessageTypes DEF MachineState
  <2>. QED BY <1>2, <1>3, <1>11, <2>1, ReconciliationSends, FinishIsDue
<1>12. ASSUME NEW l \in Listeners, RuntimeListener(l) PROVE Due'
  <2>1. /\ disp' = disp
        /\ \/ bus' = bus
           \/ \E m \in Message : bus' = PublishEvent(bus, m)
    BY <1>12, MessageTypes DEF RuntimeListener, Connect, Disconnect, HoldCopyToExit,
       ClearListener
  <2>. QED BY <1>2, <1>3, <2>1
<1>. QED BY <1>4, <1>5, <1>6, <1>7, <1>8, <1>9, <1>10, <1>11, <1>12, HandlerIsDue,
         StepCases DEF NoAssess

(* The rest of what a step other than an Assess leaves as it was.          *)
LEMMA NoAssessKeeps ==
    ASSUME TypeOK, Next, NoAssess
    PROVE  /\ skipped' = skipped
           /\ Alive' => Alive
           /\ ctl.stopping => ctl'.stopping
           /\ disp.pc = "startListener" =>
                disp'.pc = "startListener" \/ \E l \in Listeners : startRuntimeListener(l)
<1>. DEFINE Kept == /\ skipped' = skipped
                    /\ Alive' => Alive
                    /\ ctl.stopping => ctl'.stopping
                    /\ disp.pc = "startListener" => disp'.pc = "startListener"
<1>1. CASE Register \/ Stop
  BY <1>1 DEF Register, Stop, StopBegins, StopTimesOut, Alive, TypeOK, Control
<1>2. CASE (\E d \in Requestable : UpdateDesiredState(d)) \/ Runtime
  BY <1>2 DEF UpdateDesiredState, Runtime, RuntimeReachable, RuntimeExits,
     RuntimeCrashes, Alive
<1>3. ASSUME NEW m \in Message, Handles(m), Alive
      PROVE  disp.pc # "startListener" /\ (CallStop(m) => (ctl.stopping => ctl'.stopping))
  BY <1>3 DEF Handles, Receives, DispatcherAt, CallStop, StopOn, TypeOK, Control
<1>4. ASSUME NEW m \in Message, HoldCopy(m) PROVE Kept
  BY <1>3, <1>4 DEF HoldCopy, Handles, Receives, DispatcherAt
<1>5. ASSUME NEW m \in Message, NEW column, NEW events, SaveColumn(m, column, events)
      PROVE  Kept
  BY <1>3, <1>5 DEF SaveColumn, Handles, Receives, DispatcherAt
<1>6. ASSUME \/ \E s \in MachineState : StateChanged(s)
             \/ \E d \in DesiredState : DesiredStateChanged(d)
      PROVE  Kept
  <2>. HIDE DEF Kept
  <2>1. ASSUME NEW s \in MachineState, StateChanged(s) PROVE Kept
    BY <1>5, <2>1, MessageTypes DEF StateChanged
  <2>2. ASSUME NEW d \in DesiredState, DesiredStateChanged(d) PROVE Kept
    BY <1>5, <2>2, MessageTypes DEF DesiredStateChanged
  <2>. QED BY <1>6, <2>1, <2>2
<1>7. CASE ListenerConnected
  BY <1>7 DEF ListenerConnected, Handles, Receives, DispatcherAt, Alive, TypeOK, Control
<1>8. CASE ListenerDisconnected
  BY <1>8 DEF ListenerDisconnected, Handles, Receives, DispatcherAt, Alive
<1>9. CASE HoldCopyForListener \/ CountErrors \/ DispatcherReturns
  BY <1>9 DEF HoldCopyForListener, CountErrors, DispatcherReturns, DispatcherAt, Alive,
     TypeOK, Dispatcher
<1>10. ASSUME NEW l \in Listeners, startRuntimeListener(l)
       PROVE  skipped' = skipped /\ ctl' = ctl
  BY <1>10 DEF startRuntimeListener
<1>11. ASSUME NEW r \in Reconcilers, Reconciliation(r) PROVE Kept
  BY <1>11 DEF Reconciliation, Probe, Terminate, AwaitExit, Prepare, ProbeStart,
     StartRuntime, ReleaseInterface, ReleaseVolumes, HoldCopyToClear,
     ClearReconciliation, Alive
<1>12. ASSUME NEW l \in Listeners, RuntimeListener(l) PROVE Kept
  BY <1>12 DEF RuntimeListener, Connect, Disconnect, HoldCopyToExit, ClearListener, Alive
<1>13. CASE \E l \in Listeners : startRuntimeListener(l)
  BY <1>10, <1>13 DEF Alive
<1>14. CASE Kept
  BY <1>14
<1>. HIDE DEF Kept
<1>. QED BY <1>1, <1>2, <1>4, <1>6, <1>7, <1>8, <1>9, <1>11, <1>12, <1>13, <1>14,
         StepCases DEF NoAssess

(* Between two messages the dispatcher holds no copy.                      *)
LEMMA IdleStays ==
    ASSUME TypeOK, IdleInv, Next
    PROVE  IdleInv'
<1>1. CASE disp' = disp
  BY <1>1 DEF IdleInv
<1>2. CASE disp'.pc # "idle" \/ disp' = Idle
  BY <1>2 DEF IdleInv, Idle
<1>3. CASE Restart
  BY <1>2, <1>3 DEF Restart
<1>4. ASSUME NEW m \in Message, HoldCopy(m) PROVE disp'.pc # "idle"
  BY <1>4 DEF HoldCopy
<1>5. CASE HoldCopyForListener \/ CountErrors \/ DispatcherReturns
  <2>1. disp'.pc # "idle" \/ disp' = Idle
    BY <1>5 DEF HoldCopyForListener, CountErrors, DispatcherReturns, DispatcherAt,
       TypeOK, Dispatcher, Idle
  <2>. QED BY <1>2, <2>1
<1>6. ASSUME NEW snap, ConsiderListener(snap) PROVE disp'.pc # "idle" \/ disp' = Idle
  BY <1>6 DEF ConsiderListener, Idle
<1>7. CASE AssessOnly \/ \E r \in Reconcilers : Reconcile(r)
  <2>1. \E snap : ConsiderListener(snap)
    BY <1>7 DEF AssessOnly, Reconcile
  <2>. QED BY <1>2, <1>6, <2>1
<1>8. CASE \/ \E l \in Listeners : startRuntimeListener(l)
           \/ \E d \in DesiredState : DesiredStateChanged(d)
           \/ \E s \in MachineState : StateChanged(s)
           \/ ListenerConnected \/ ListenerDisconnected
  <2>1. disp'.pc # "idle" \/ disp' = Idle
    BY <1>8 DEF startRuntimeListener, DesiredStateChanged, StateChanged, SaveColumn,
       ListenerConnected, ListenerDisconnected, Idle
  <2>. QED BY <1>2, <2>1
<1>9. CASE \/ Register \/ Stop \/ Runtime
           \/ \E d \in Requestable : UpdateDesiredState(d)
           \/ \E l \in Listeners : RuntimeListener(l)
           \/ \E r \in Reconcilers : Reconciliation(r)
  <2>1. disp' = disp
    BY <1>9, ReconciliationSends
       DEF Register, Stop, StopBegins, StopTimesOut, Runtime, RuntimeReachable,
           RuntimeExits, RuntimeCrashes, UpdateDesiredState, RuntimeListener, Connect,
           Disconnect, HoldCopyToExit, ClearListener
  <2>. QED BY <1>1, <2>1
<1>. QED BY <1>2, <1>3, <1>4, <1>5, <1>7, <1>8, <1>9, StepCases

(* Whoever tells a listener to stop is recorded.                           *)
LEMMA CancelStays ==
    ASSUME TypeOK, CancelInv, Next
    PROVE  CancelInv'
<1>. DEFINE Told(l) == listen[l].cancelled \/ listen[l].pc = "exit"
<1>1. seen \ {"unrecorded"} \subseteq seen'
  BY SeenGrows
<1>2. ASSUME \A l \in Listeners : Told(l)' => Told(l) PROVE CancelInv'
  BY <1>1, <1>2 DEF CancelInv
<1>3. CASE listen' = listen
  BY <1>2, <1>3
<1>4. CASE Restart
  BY <1>4 DEF Restart, NoListener, CancelInv
<1>5. ASSUME NEW snap, ConsiderListener(snap) PROVE CancelInv'
  <2>1. listen' = listen \/ "listenerCancel" \in seen'
    BY <1>5 DEF ConsiderListener
  <2>. QED BY <1>3, <2>1 DEF CancelInv
<1>6. CASE AssessOnly \/ \E r \in Reconcilers : Reconcile(r)
  BY <1>5, <1>6 DEF AssessOnly, Reconcile
<1>7. CASE Stop
  <2>1. listen' = listen \/ "listenerCancel" \in seen'
    BY <1>7 DEF Stop, StopBegins, StopTimesOut, Note
  <2>. QED BY <1>3, <2>1 DEF CancelInv
<1>8. ASSUME NEW l \in Listeners, startRuntimeListener(l) PROVE CancelInv'
  <2>1. \A k \in Listeners : Told(k)' => Told(k)
    BY <1>8 DEF startRuntimeListener, NoListener, TypeOK
  <2>. QED BY <1>2, <2>1
<1>9. ASSUME NEW l \in Listeners, RuntimeListener(l) PROVE CancelInv'
  <2>1. \A k \in Listeners : k # l => listen'[k] = listen[k]
    BY <1>9 DEF RuntimeListener, Connect, Disconnect, HoldCopyToExit, ClearListener,
       TypeOK
  <2>2. Told(l)' => Told(l)
    BY <1>9 DEF RuntimeListener, Connect, Disconnect, HoldCopyToExit, ClearListener,
       Listens, Done, NoListener, TypeOK, Listener
  <2>. QED BY <1>2, <2>1, <2>2
<1>10. CASE \/ Register \/ Runtime
            \/ \E d \in Requestable : UpdateDesiredState(d)
            \/ \E m \in Message : HoldCopy(m)
            \/ HoldCopyForListener \/ CountErrors \/ DispatcherReturns
            \/ \E d \in DesiredState : DesiredStateChanged(d)
            \/ \E s \in MachineState : StateChanged(s)
            \/ ListenerConnected \/ ListenerDisconnected
            \/ \E r \in Reconcilers : Reconciliation(r)
  <2>1. listen' = listen
    BY <1>10 DEF Register, Runtime, RuntimeReachable, RuntimeExits, RuntimeCrashes,
       UpdateDesiredState, HoldCopy, HoldCopyForListener, CountErrors,
       DispatcherReturns, DesiredStateChanged, StateChanged, SaveColumn,
       ListenerConnected, ListenerDisconnected, Reconciliation, Probe, Terminate,
       AwaitExit, Prepare, ProbeStart, StartRuntime, ReleaseInterface, ReleaseVolumes,
       HoldCopyToClear, ClearReconciliation
  <2>. QED BY <1>3, <2>1
<1>. QED BY <1>4, <1>6, <1>7, <1>8, <1>9, <1>10, StepCases

(* An agent that restarts with a machine to look after assesses it first.  *)
LEMMA RestartIsDue ==
    ASSUME TypeOK', Restart, Alive'
    PROVE  Due'
<1>1. row.State # "terminated"
  BY DEF Restart, Alive, NewController
<1>2. EmptyBus \in [Message -> Nat]
  BY DEF EmptyBus
<1>. QED BY <1>1, <1>2, LastingTypes, DueByMessage DEF Restart, PublishIf

(* A pointer to a listener is cleared by that listener, at its end.        *)
LEMMA PointerCleared ==
    ASSUME IInv, Next, ~Restart, NoStaleWrite', state'.RuntimeListener = None
    PROVE  \/ state.RuntimeListener = None
           \/ \E l \in Listeners : ClearListener(l)
<1>1. state \in ControllerState
  BY DEF IInv, TypeOK
<1>2. ASSUME NEW copy, NEW updated, Install(copy, updated)
      PROVE  Latest(copy) = state /\ state' = updated
  BY <1>2, InstallCurrent DEF IInv, TypeOK
<1>3. CASE Undisturbed
  BY <1>3 DEF Undisturbed, KeepsState
<1>4. CASE Updates
  BY <1>2, <1>4 DEF Updates, KeepsState, SamePointers
<1>5. ASSUME NEW r \in Reconcilers, Reconcile(r) \/ ClearReconciliation(r)
      PROVE  state.RuntimeListener = None
  BY <1>1, <1>2, <1>5 DEF Reconcile, ClearReconciliation, ControllerState
<1>6. ASSUME NEW l \in Listeners, startRuntimeListener(l) PROVE FALSE
  <2>1. state' = [state EXCEPT !.RuntimeListener = l, !.ConsecutiveErrorCount = 0]
    BY <1>2, <1>6 DEF startRuntimeListener
  <2>. QED BY <1>1, <2>1, ConstantsAssumption DEF ControllerState, ConstantsAssumption
<1>. QED BY <1>3, <1>4, <1>5, <1>6, StepKinds DEF IInv

LEMMA ConvergesStays ==
    ASSUME IInv, IdleInv, DueInv, Next, Alive', NoStaleWrite'
    PROVE  Converges'
<1>1. TypeOK /\ TypeOK' /\ NoStaleWrite
  BY TypeNext, StaleStays, ConstantsAssumption DEF IInv
<1>2. CASE Restart
  BY <1>1, <1>2, RestartIsDue DEF Converges
<1>3. CASE AssessOnly
  <2>1. state' = state /\ skipped' = shouldReconcile(state)
    BY <1>3 DEF AssessOnly, NeedsReconcile, Receives, DispatcherAt, IdleInv, Latest
  <2>. QED BY <2>1 DEF Converges, shouldReconcile
<1>4. ASSUME NEW r \in Reconcilers, Reconcile(r) PROVE Converges'
  <2>1. recon'[r].pc \notin {"none", "clear"}
    BY <1>1, <1>4, ReconcileBegins
  <2>. QED BY <2>1 DEF Converges, Working
<1>5. ASSUME NoAssess, shouldReconcile(state'), ~skipped', ~ctl'.stopping
      PROVE  Due' \/ Working'
  <2>1. Alive /\ ~skipped /\ ~ctl.stopping
    BY <1>1, <1>5, NoAssessKeeps
  <2>2. CASE state'.State = state.State /\ state'.DesiredState = state.DesiredState
    <3>1. Due \/ Working
      BY <1>1, <1>5, <2>1, <2>2 DEF DueInv, Converges, shouldReconcile
    <3>2. CASE Due
      BY <1>1, <1>5, <3>2, DueStays
    <3>3. ASSUME NEW q \in Reconcilers, recon[q].pc \notin {"none", "clear"}
          PROVE  Due' \/ recon'[q].pc \notin {"none", "clear"}
      <4>1. CASE CalmStep
        BY <1>1, <3>3, <4>1, CalmSteps
      <4>2. CASE Runtime
        BY <3>3, <4>2 DEF Runtime, RuntimeReachable, RuntimeExits, RuntimeCrashes
      <4>3. ASSUME NEW r \in Reconcilers, Reconciliation(r), r # q
            PROVE  recon'[q].pc \notin {"none", "clear"}
        BY <1>1, <3>3, <4>3, ReconciliationSteps
      <4>4. CASE Reconciliation(q)
        <5>1. \/ \E s \in MachineState : Finish(q, s)
              \/ \E pc : pc \notin {"none", "clear"} /\ Goto(q, pc)
          BY <3>3, <4>4 DEF Reconciliation, Probe, Terminate, AwaitExit, Prepare,
             ProbeStart, StartRuntime, ReleaseInterface, ReleaseVolumes,
             HoldCopyToClear, ClearReconciliation, Reaches, Continue, AfterRuntime,
             MachineState
        <5>. QED BY <1>1, <5>1, FinishIsDue, GotoMoves
      <4>. QED BY <1>5, <4>1, <4>2, <4>3, <4>4, StepGroups DEF NoAssess
    <3>. QED BY <3>1, <3>2, <3>3 DEF Working
  <2>. QED BY <1>1, <2>2, StateColumns, HandlerIsDue
<1>. QED BY <1>2, <1>3, <1>4, <1>5 DEF NoAssess, Converges

LEMMA ObservesStays ==
    ASSUME IInv, IdleInv, CancelInv, DueInv, Next, Alive', NoStaleWrite'
    PROVE  Observes'
<1>1. TypeOK /\ TypeOK' /\ NoStaleWrite
  BY TypeNext, StaleStays, ConstantsAssumption DEF IInv
<1>2. CASE Restart
  BY <1>1, <1>2, RestartIsDue DEF Observes
<1>3. ASSUME ConsiderListener(state), state'.State = state.State,
             state'.RuntimeListener = state.RuntimeListener
      PROVE  Observes'
  <2>1. shouldStartRuntimeListener(state) /\ state.RuntimeListener = None =>
          disp'.pc = "startListener"
    BY <1>3 DEF ConsiderListener, Idle
  <2>. QED BY <1>3, <2>1 DEF Observes, shouldStartRuntimeListener
<1>4. CASE AssessOnly
  BY <1>3, <1>4 DEF AssessOnly
<1>5. ASSUME NEW r \in Reconcilers, Reconcile(r) PROVE Observes'
  <2>1. Latest(disp.copy) = state /\ state' = [state EXCEPT !.Reconciliation = r]
    BY <1>1, <1>5, InstallCurrent DEF Reconcile, TypeOK
  <2>2. /\ state'.State = state.State
        /\ state'.RuntimeListener = state.RuntimeListener
    BY <1>1, <2>1 DEF TypeOK, ControllerState
  <2>. QED BY <1>3, <1>5, <2>1, <2>2 DEF Reconcile
<1>6. ASSUME NoAssess, shouldStartRuntimeListener(state'),
             state'.RuntimeListener = None, "listenerCancel" \notin seen'
      PROVE  Due' \/ disp'.pc = "startListener"
  <2>1. Alive /\ "listenerCancel" \notin seen
    BY <1>1, <1>6, NoAssessKeeps, SeenGrows
  <2>2. ASSUME NEW l \in Listeners, ClearListener(l) PROVE FALSE
    BY <2>1, <2>2 DEF ClearListener, Listens, Done, CancelInv
  <2>3. state.RuntimeListener = None
    BY <1>6, <2>2, PointerCleared DEF NoAssess
  <2>4. ASSUME NEW l \in Listeners, startRuntimeListener(l) PROVE FALSE
    <3>1. state' = [state EXCEPT !.RuntimeListener = l, !.ConsecutiveErrorCount = 0]
      BY <1>1, <2>4, InstallCurrent DEF startRuntimeListener, TypeOK
    <3>. QED BY <1>1, <1>6, <3>1, ConstantsAssumption
             DEF TypeOK, ControllerState, ConstantsAssumption
  <2>5. CASE state'.State = state.State
    <3>1. Due \/ disp.pc = "startListener"
      BY <1>1, <1>6, <2>1, <2>3, <2>5 DEF DueInv, Observes, shouldStartRuntimeListener
    <3>2. CASE Due
      BY <1>1, <1>6, <3>2, DueStays
    <3>3. CASE disp.pc = "startListener"
      BY <1>1, <1>6, <2>4, <3>3, NoAssessKeeps
    <3>. QED BY <3>1, <3>2, <3>3
  <2>. QED BY <1>1, <2>5, StateColumns, HandlerIsDue
<1>. QED BY <1>2, <1>4, <1>5, <1>6 DEF NoAssess, Observes

QuietInv == IInv /\ IdleInv /\ CancelInv /\ DueInv

LEMMA QuietInvariant == Spec => []QuietInv
<1>1. Init => QuietInv
  <2>1. Init => IInv
    BY TypeInit, SafetyInit, ConstantsAssumption
  <2>2. ASSUME Init PROVE IdleInv /\ CancelInv /\ Due
    <3>1. disp = Idle /\ \A l \in Listeners : listen[l] = NoListener
      BY <2>2 DEF Init
    <3>2. bus[Assess] = 1 /\ Assess \in Lasting
      BY <2>2, LastingTypes, SentAt DEF Init, PublishEvent, EmptyBus
    <3>. QED BY <3>1, <3>2 DEF IdleInv, Idle, CancelInv, NoListener, Due
  <2>. QED BY <2>1, <2>2 DEF QuietInv, DueInv, Converges, Observes
<1>2. QuietInv /\ [Next]_vars => QuietInv'
  <2>1. ASSUME QuietInv, UNCHANGED vars PROVE IdleInv' /\ CancelInv' /\ DueInv'
    BY <2>1 DEF vars, QuietInv, IdleInv, CancelInv, DueInv, Alive, NoStaleWrite,
       Converges, Observes, Due, Working, shouldReconcile, shouldStartRuntimeListener
  <2>2. ASSUME QuietInv, Next PROVE IdleInv' /\ CancelInv' /\ DueInv'
    BY <2>2, IdleStays, CancelStays, ConvergesStays, ObservesStays
       DEF QuietInv, IInv, DueInv
  <2>. QED BY <2>1, <2>2, SafetyNext DEF QuietInv
<1>. QED BY <1>1, <1>2, PTL DEF Spec

LEMMA NothingDueWhenQuiet ==
    ASSUME Quiet
    PROVE  Alive /\ ~Due /\ ~Working /\ disp.pc = "idle"
<1>1. \A m \in Lasting : bus[m] = 0
  BY LastingTypes DEF Quiet, EmptyBus
<1>. QED BY <1>1 DEF Quiet, Due, Working, Active

(* A controller with nothing left to do has reached its desired state,     *)
(* unless the last Assess that had to reconcile met a reconciliation that  *)
(* still ran: each change of a column, saved or not, and each result is    *)
(* followed by an Assess (event_handler.go:30, 37).                        *)
THEOREM ConvergedCorrect == Spec => []ConvergedWhenQuiet
<1>1. QuietInv => ConvergedWhenQuiet
  BY NothingDueWhenQuiet DEF QuietInv, DueInv, Converges, ConvergedWhenQuiet
<1>. QED BY <1>1, QuietInvariant, PTL

(* A machine left running is listened to, unless a listener was told to    *)
(* stop and the machine ran again before that listener had ended.          *)
THEOREM ObservedCorrect == Spec => []ObservedWhenQuiet
<1>1. QuietInv => ObservedWhenQuiet
  BY NothingDueWhenQuiet DEF QuietInv, DueInv, Observes, ObservedWhenQuiet
<1>. QED BY <1>1, QuietInvariant, PTL

================================================================================
