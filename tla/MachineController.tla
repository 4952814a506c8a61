--------------------------- MODULE MachineController ---------------------------
(***************************************************************************)
(* One machine's controller (nodeagent/internal/machineservice/            *)
(* machinecontroller) with the bus that drives it, the goroutines it       *)
(* starts, its row in the database, and the runtime process it controls.   *)
(*                                                                         *)
(*   - The bus is a bag: PublishEvent starts a goroutine per message, and  *)
(*     the goroutines race to send, so messages are received in any order. *)
(*   - The dispatcher handles one message at a time.  A handler is split   *)
(*     where another goroutine can interleave: SetState copies the state   *)
(*     under the read lock, and only then takes the write lock, updates    *)
(*     the copy and installs it.                                           *)
(*   - A reconciliation and a runtime listener are goroutines with a pc.   *)
(*   - Interface, volumes and runtime are what the providers do to them,   *)
(*     as far as the controller can tell; each call may fail.              *)
(*   - A panic, or a crash, ends the agent; it restarts from the row.      *)
(*                                                                         *)
(* ReconciliationComplete and ContainerStateChanged are not modelled: no   *)
(* handler of the controller reacts to them.  `seen' and `skipped' are     *)
(* history, read by no action.                                             *)
(*                                                                         *)
(* CallStopEarly, BusyStoppingOnly, SaveErrorIgnored, AfterSaveQuietly,    *)
(* StopWaitsForAll, AfterRuntimeNoNic, LastToFail and DoneOnStreamEnd are  *)
(* wrong forms of the definitions that follow them: with one of them in    *)
(* its place some property below fails.                                    *)
(***************************************************************************)
EXTENDS Integers, FiniteSets

CONSTANTS
    Reconcilers,     \* reconciliation goroutines that may exist at once
    Listeners,       \* runtime listener goroutines that may exist at once
    None,            \* the nil pointer
    InitialDesired,  \* desired states a machine may be created with
    Requestable,     \* desired states the API may ask for
    MaxRequests,     \* bound: desired state changes asked for
    MaxFailures,     \* bound: calls that fail, and runtime crashes
    MaxTicks,        \* bound: connections the listeners attempt
    MaxRestarts,     \* bound: crashes of the agent that are not panics
    MaxDisturbances, \* bound: changes, failures and crashes together
    MaxStaleWrites,  \* bound: SetState calls that install an outdated copy
    MaxTicksHolding  \* bound: ticks up to which a copy may be held

DesiredState == {"pending", "running", "terminated", "unknown"}
MachineState == {"pending", "starting", "running", "degraded", "error",
                 "terminating", "terminated"}

ASSUME ConstantsAssumption ==
    /\ None \notin Reconcilers \cup Listeners
    /\ InitialDesired \subseteq DesiredState
    /\ Requestable \subseteq DesiredState
    /\ {MaxRequests, MaxFailures, MaxTicks, MaxRestarts,
        MaxDisturbances, MaxStaleWrites, MaxTicksHolding} \subseteq Nat

VARIABLES
    state,     \* c.state, guarded by c.stateLock
    row,       \* the columns of the machine's row the controller writes
    bus,       \* messages whose publisher goroutine has not yet sent
    disp,      \* the dispatcher goroutine, inside a handler
    recon,     \* reconciliation goroutines
    listen,    \* runtime listener goroutines
    ctl,       \* the controller's life, and the Stop that ends it
    runtime,   \* the vmruntime process
    res,       \* the tap link, the volumes, and their timestamps
    used,      \* how much of each bound is used up
    skipped,   \* history: the last needed reconciliation was skipped
    seen       \* history: which of the events below have happened

vars == <<state, row, bus, disp, recon, listen, ctl, runtime, res, used,
          skipped, seen>>

History ==
    {"blindProbe",      \* a live runtime was taken for stopped
     "doubleStart",     \* a runtime was started beside a live one
     "resurrected",     \* a desired state other than terminated followed it
     "listenerCancel",  \* a listener was told to stop
     "unrecorded"}      \* the handler that called Stop failed to save its state

-------------------------------------------------------------------------------
(* Messages and state.                                                     *)

Assess == [type |-> "Assess"]
Connected == [type |-> "Connected"]
Disconnected == [type |-> "Disconnected"]
DesiredMsg(d) == [type |-> "DesiredStateChanged", to |-> d]
StateMsg(s) == [type |-> "StateChanged", to |-> s]

Message == {Assess, Connected, Disconnected}
             \cup {DesiredMsg(d) : d \in DesiredState}
             \cup {StateMsg(s) : s \in MachineState}

EmptyBus == [m \in Message |-> 0]

(* PublishEvent: a goroutine per message, so nothing orders two of them.   *)
PublishEvent(b, m) == [b EXCEPT ![m] = @ + 1]
PublishIf(cond, b, m) == IF cond THEN PublishEvent(b, m) ELSE b

ControllerState ==
    [State : MachineState, DesiredState : DesiredState,
     Reconciliation : Reconcilers \cup {None},
     RuntimeListener : Listeners \cup {None},
     ConsecutiveErrorCount : Nat]

Fresh(r) == [State |-> r.State, DesiredState |-> r.DesiredState,
             Reconciliation |-> None, RuntimeListener |-> None,
             ConsecutiveErrorCount |-> 0]

shouldReconcile(s) ==
    \/ s.DesiredState = "pending" /\ s.State # "pending"
    \/ s.DesiredState = "running" /\ s.State \notin {"running", "degraded"}
    \/ s.DesiredState = "terminated" /\ s.State # "terminated"

shouldStartRuntimeListener(s) == s.State \in {"running", "degraded"}

Idle == [pc |-> "idle", msg |-> Assess, copy |-> None]
NoReconciliation == [pc |-> "none", machine |-> None, cancelled |-> FALSE,
                     copy |-> None]
NoListener == [pc |-> "none", cancelled |-> FALSE, copy |-> None]
NewController ==
    [life |-> "running",    \* gone: no controller; panicked: the agent died
     registered |-> FALSE,  \* in machineControllers, with Stop subscribed
     stopping |-> FALSE, cancelled |-> FALSE,
     stop |-> "none",       \* the Stop call the terminated handler makes
     toCancel |-> None]     \* the reconciliation Stop found in its snapshot

(* Timestamps of the interface and of a volume: the providers set those in *)
(* memory, which all reconciliations of a controller share, and save them. *)
Stamps == [nicReleased : BOOLEAN, allocated : BOOLEAN, released : BOOLEAN]
NoStamps == [nicReleased |-> FALSE, allocated |-> FALSE, released |-> FALSE]
Stamp(r, column, saves) ==
    [r EXCEPT !.memory[column] = TRUE,
              !.saved[column] = @ \/ (saves /\ ~r.memory[column])]

Alive == ctl.life = "running"
MayDisturb == used.requests + used.failures + used.restarts < MaxDisturbances
CanFail == used.failures < MaxFailures /\ MayDisturb
Charge(failed) ==
    used' = [used EXCEPT !.failures = @ + IF failed THEN 1 ELSE 0]
Note(event, cond) == IF cond THEN {event} ELSE {}

(* SetState: a goroutine may hold a copy taken earlier (until the bound on *)
(* outdated copies is used up), or it copies, updates and installs at once.*)
MayHold(copy) ==
    /\ copy = None
    /\ used.staleWrites < MaxStaleWrites /\ used.ticks <= MaxTicksHolding
Latest(copy) == IF copy = None THEN state ELSE copy
Install(copy, updated) ==
    /\ state' = updated
    /\ used' = [used EXCEPT !.staleWrites =
                  @ + IF Latest(copy) = state THEN 0 ELSE 1]

-------------------------------------------------------------------------------
(* The agent's life: New and loadMachines, UpdateDesiredState, a crash.    *)

Init ==
    /\ \E d \in InitialDesired :
         row = [State |-> "pending", DesiredState |-> d]
    /\ state = Fresh(row)
    /\ bus = PublishEvent(EmptyBus, Assess)
    /\ disp = Idle
    /\ recon = [r \in Reconcilers |-> NoReconciliation]
    /\ listen = [l \in Listeners |-> NoListener]
    /\ ctl = NewController
    /\ runtime = [status |-> "absent", child |-> FALSE]
    /\ res = [link |-> FALSE, volume |-> FALSE,
              memory |-> NoStamps, saved |-> NoStamps]
    /\ used = [requests |-> 0, failures |-> 0, ticks |-> 0, restarts |-> 0,
               staleWrites |-> 0]
    /\ skipped = FALSE
    /\ seen = {}

(* newMachineController subscribes the service's handlers and its callers  *)
(* enter the controller in machineControllers: after New returned, that is *)
(* with the dispatcher already running.                                    *)
Register ==
    /\ Alive /\ ~ctl.registered /\ ~ctl.stopping
    /\ ctl' = [ctl EXCEPT !.registered = TRUE]
    /\ UNCHANGED <<state, row, bus, disp, recon, listen, runtime, res, used,
                   skipped, seen>>

UpdateDesiredState(d) ==
    /\ Alive /\ ctl.registered
    /\ used.requests < MaxRequests /\ MayDisturb
    /\ used' = [used EXCEPT !.requests = @ + 1]
    /\ bus' = PublishEvent(bus, DesiredMsg(d))
    /\ UNCHANGED <<state, row, disp, recon, listen, ctl, runtime, res,
                   skipped, seen>>

(* The next agent loads the machine unless its row says terminated.  The   *)
(* runtime has its own process group and outlives the agent, no longer its *)
(* child.                                                                  *)
Restart ==
    /\ \/ ctl.life = "panicked" /\ used' = used
       \/ /\ ctl.life # "panicked" /\ used.restarts < MaxRestarts /\ MayDisturb
          /\ used' = [used EXCEPT !.restarts = @ + 1]
    /\ state' = Fresh(row)
    /\ bus' = PublishIf(row.State # "terminated", EmptyBus, Assess)
    /\ disp' = Idle
    /\ recon' = [r \in Reconcilers |-> NoReconciliation]
    /\ listen' = [l \in Listeners |-> NoListener]
    /\ ctl' = [NewController EXCEPT
                 !.life = IF row.State = "terminated" THEN "gone" ELSE "running"]
    /\ runtime' = [runtime EXCEPT !.child = FALSE]
    /\ res' = [res EXCEPT !.memory = res.saved]
    /\ skipped' = FALSE
    /\ seen' = seen \ {"unrecorded"}   \* of a controller that is gone
    /\ row' = row

-------------------------------------------------------------------------------
(* The dispatcher: one message at a time, eventHandler and the service's   *)
(* handlers at once.  The receive is a step of its own only for a SetState *)
(* that installs the copy it holds some time later.                        *)

DispatcherAt(pc) == Alive /\ disp.pc = pc

Receives(m) ==
    /\ DispatcherAt("idle") /\ bus[m] > 0
    /\ ctl.stop \notin {"called", "waiting"}   \* dispatchEvent waits for both
Handles(m) == Receives(m) \/ (DispatcherAt("handle") /\ disp.msg = m)
Rest(m) == IF disp.pc = "idle" THEN [bus EXCEPT ![m] = @ - 1] ELSE bus

(* On StateChanged(terminated) handleMachineTerminated calls Stop, if the  *)
(* controller is in machineControllers.                                    *)
StopOn(m, s) ==
    ctl' = IF /\ m = StateMsg(s) /\ ctl.registered /\ disp.pc = "idle"
           THEN [ctl EXCEPT !.stop = "called"] ELSE ctl
CallStopEarly(m) == StopOn(m, "terminating")
CallStop(m) == StopOn(m, "terminated")

NeedsReconcile == shouldReconcile(Latest(disp.copy))
BusyStoppingOnly == ctl.stopping
Busy == Latest(disp.copy).Reconciliation # None \/ ctl.stopping

HoldCopy(m) ==
    /\ Receives(m) /\ MayHold(disp.copy)
    /\ m = Assess => NeedsReconcile /\ ~Busy
    /\ bus' = Rest(m)
    /\ disp' = [pc |-> "handle", msg |-> m, copy |-> state]
    /\ CallStop(m)
    /\ UNCHANGED <<state, row, recon, listen, runtime, res, used, skipped, seen>>

(* The second half of Assess goes by the snapshot taken before reconcile().*)
ConsiderListener(snap) ==
    LET should == shouldStartRuntimeListener(snap)
        current == snap.RuntimeListener
    IN /\ disp' = IF should /\ current = None
                  THEN [Idle EXCEPT !.pc = "startListener"] ELSE Idle
       /\ IF ~should /\ current # None
          THEN /\ listen' = [listen EXCEPT ![current].cancelled = TRUE]
               /\ seen' = seen \cup {"listenerCancel"}
          ELSE UNCHANGED <<listen, seen>>

AssessOnly ==
    /\ Receives(Assess) /\ (NeedsReconcile => Busy)
    /\ skipped' = NeedsReconcile
    /\ bus' = Rest(Assess)
    /\ ConsiderListener(state)
    /\ UNCHANGED <<state, row, recon, ctl, runtime, res, used>>

(* The goroutine announces "starting" before its first call.               *)
Reconcile(r) ==
    /\ Handles(Assess) /\ NeedsReconcile /\ ~Busy
    /\ recon[r].pc = "none"
    /\ LET snap == Latest(disp.copy)
           starts == snap.DesiredState = "running"
       IN /\ Install(disp.copy, [snap EXCEPT !.Reconciliation = r])
          /\ recon' = [recon EXCEPT ![r] =
               [NoReconciliation EXCEPT
                  !.machine = [State |-> snap.State,
                               DesiredState |-> snap.DesiredState],
                  !.pc = IF starts /\ snap.State # "error"
                         THEN "prepare" ELSE "probe"]]
          /\ bus' = PublishIf(starts /\ snap.State # "starting", Rest(Assess),
                              StateMsg("starting"))
          /\ ConsiderListener(snap)
    /\ skipped' = FALSE
    /\ UNCHANGED <<row, ctl, runtime, res>>

HoldCopyForListener ==
    /\ DispatcherAt("startListener") /\ MayHold(disp.copy)
    /\ disp' = [disp EXCEPT !.copy = state]
    /\ UNCHANGED <<state, row, bus, recon, listen, ctl, runtime, res, used,
                   skipped, seen>>

startRuntimeListener(l) ==
    /\ DispatcherAt("startListener") /\ listen[l].pc = "none"
    /\ Install(disp.copy, [Latest(disp.copy) EXCEPT !.RuntimeListener = l,
                                                   !.ConsecutiveErrorCount = 0])
    /\ listen' = [listen EXCEPT ![l] = [NoListener EXCEPT !.pc = "loop"]]
    /\ disp' = Idle
    /\ UNCHANGED <<row, bus, recon, ctl, runtime, res, skipped, seen>>

(* DesiredStateChanged and StateChanged save one column of the copy, and   *)
(* only a copy that was saved is installed.  Assess follows in any case.   *)
(* Once Stop cancelled the dispatcher's context every save fails.          *)
SaveErrorIgnored(updated) == state' = updated /\ UNCHANGED row
SaveError(updated) == UNCHANGED <<state, row>>

AfterSaveQuietly(m) == bus' = Rest(m)
AfterSave(m) == bus' = PublishEvent(Rest(m), Assess)

(* The handler of the message that called Stop: it does so when it receives *)
(* it, and may save after Stop has cancelled its context.                  *)
Stops(m) == /\ m = StateMsg("terminated") /\ ctl'.stop # "none"
            /\ ctl.stop # "done" \/ disp.pc = "handle"

SaveColumn(m, column, events) ==
    /\ Handles(m)
    /\ CallStop(m)
    /\ LET updated == [Latest(disp.copy) EXCEPT ![column] = m.to]
       IN \/ /\ ~ctl.cancelled
             /\ Install(disp.copy, updated)
             /\ row' = [row EXCEPT ![column] = m.to]
             /\ seen' = seen \cup events
          \/ /\ ctl.cancelled \/ CanFail
             /\ Charge(~ctl.cancelled)
             /\ SaveError(updated)
             /\ seen' = seen \cup events \cup Note("unrecorded", Stops(m))
    /\ AfterSave(m)
    /\ disp' = Idle
    /\ UNCHANGED <<recon, listen, runtime, res, skipped>>

DesiredStateChanged(d) ==
    SaveColumn(DesiredMsg(d), "DesiredState",
               Note("resurrected",
                    /\ Latest(disp.copy).DesiredState = "terminated"
                    /\ d # "terminated"))

StateChanged(s) ==
    SaveColumn(StateMsg(s), "State", {})

(* The handler of Connected updates the listener without a nil check: the  *)
(* panic is passed on by the pool and ends the agent.                      *)
ListenerConnected ==
    /\ Handles(Connected)
    /\ LET current == Latest(disp.copy)
       IN /\ bus' = PublishIf(current.State # "running", Rest(Connected),
                              StateMsg("running"))
          /\ IF current.RuntimeListener = None
             THEN /\ ctl' = [ctl EXCEPT !.life = "panicked"]
                  /\ UNCHANGED <<state, used>>
             ELSE /\ Install(disp.copy, [current EXCEPT !.ConsecutiveErrorCount = 0])
                  /\ ctl' = ctl
    /\ disp' = Idle
    /\ UNCHANGED <<row, recon, listen, runtime, res, skipped, seen>>

(* Every end of a stream counts, an error or not.                          *)
ListenerDisconnected ==
    /\ Handles(Disconnected)
    /\ LET current == Latest(disp.copy)
       IN Install(disp.copy,
                  [current EXCEPT !.ConsecutiveErrorCount =
                     IF current.RuntimeListener = None THEN @ ELSE @ + 1])
    /\ bus' = Rest(Disconnected)
    /\ disp' = [Idle EXCEPT !.pc = "countErrors"]
    /\ UNCHANGED <<row, recon, listen, ctl, runtime, res, skipped, seen>>

CountErrors ==
    /\ DispatcherAt("countErrors")
    /\ LET count == IF state.RuntimeListener = None
                    THEN 0 ELSE state.ConsecutiveErrorCount
       IN bus' = IF count = 3 THEN PublishEvent(bus, StateMsg("error"))
                 ELSE PublishIf(count = 1, bus, StateMsg("degraded"))
    /\ disp' = Idle
    /\ UNCHANGED <<state, row, recon, listen, ctl, runtime, res, used, skipped,
                   seen>>

(* After Stop cancelled its context the dispatcher returns when its select *)
(* picks ctx.Done; until then it may still receive messages.               *)
DispatcherReturns ==
    /\ DispatcherAt("idle") /\ ctl.cancelled
    /\ disp' = [Idle EXCEPT !.pc = "returned"]
    /\ UNCHANGED <<state, row, bus, recon, listen, ctl, runtime, res, used,
                   skipped, seen>>

-------------------------------------------------------------------------------
(* Stop, called by handleMachineTerminated from within a dispatch.  Its    *)
(* WaitGroup counts the dispatcher, which waits for this very call: the    *)
(* wait always ends by its timeout, whatever the other goroutines did.     *)

StopBegins ==
    /\ Alive /\ ctl.stop = "called"
    /\ ctl' = [ctl EXCEPT !.stopping = TRUE, !.stop = "waiting",
                          !.toCancel = state.Reconciliation]
    /\ LET current == state.RuntimeListener
       IN /\ listen' = IF current = None THEN listen
                       ELSE [listen EXCEPT ![current].cancelled = TRUE]
          /\ seen' = seen \cup Note("listenerCancel", current # None)
    /\ UNCHANGED <<state, row, bus, disp, recon, runtime, res, used, skipped>>

StopWaitsForAll ==
    /\ Alive /\ ctl.stop = "waiting" /\ disp.pc = "returned"
    /\ ctl' = [ctl EXCEPT !.stop = "done", !.cancelled = TRUE,
                          !.registered = FALSE]
    /\ UNCHANGED <<state, row, bus, disp, recon, listen, runtime, res, used,
                   skipped, seen>>

StopTimesOut ==
    /\ Alive /\ ctl.stop = "waiting"
    /\ ctl' = [ctl EXCEPT !.stop = "done", !.cancelled = TRUE,
                          !.registered = FALSE]
    /\ recon' = [r \in Reconcilers |->
                   [recon[r] EXCEPT !.cancelled = @ \/ /\ r = ctl.toCancel
                                                       /\ recon[r].pc # "none"]]
    /\ UNCHANGED <<state, row, bus, disp, listen, runtime, res, used, skipped,
                   seen>>

-------------------------------------------------------------------------------
(* A reconciliation goroutine.                                             *)

Reaches(r, pc) == Alive /\ recon[r].pc = pc
Goto(r, pc) == recon' = [recon EXCEPT ![r].pc = pc]

(* The result is published first; Reconciliation is cleared after it.      *)
Finish(r, new) == /\ bus' = PublishEvent(bus, StateMsg(new))
                  /\ Goto(r, "clear")
Continue(r, pc) == Goto(r, pc) /\ bus' = bus

(* isMachineRuntimeStarted: GetState answers.  The probe fails on a live   *)
(* runtime that is not reachable yet, or any more.                         *)
IsMachineRuntimeStarted(r, answer) ==
    /\ answer => runtime.status = "up" /\ ~recon[r].cancelled
    /\ ~answer => recon[r].cancelled \/ runtime.status # "up" \/ CanFail
    /\ Charge(~answer /\ runtime.status = "up" /\ ~recon[r].cancelled)
    /\ seen' = seen \cup Note("blindProbe", ~answer /\ runtime.status # "absent")

AfterRuntimeNoNic(r) == IF recon[r].machine.DesiredState = "terminated"
                        THEN "releaseVolumes" ELSE "prepare"
AfterRuntime(r) == IF recon[r].machine.DesiredState = "terminated"
                   THEN "releaseNic" ELSE "prepare"

Probe(r) ==
    /\ Reaches(r, "probe")
    /\ \E started \in BOOLEAN :
         LET machine == recon[r].machine
             announces == /\ started /\ machine.DesiredState # "running"
                          /\ machine.State # "terminating"
         IN /\ IsMachineRuntimeStarted(r, started)
            /\ bus' = PublishIf(announces, bus, StateMsg("terminating"))
            /\ Goto(r, IF started THEN "terminate" ELSE AfterRuntime(r))
    /\ UNCHANGED <<state, row, disp, listen, ctl, runtime, res, skipped>>

(* Terminate asks the runtime for its pid, signals it and waits for it.    *)
Terminate(r) ==
    /\ Reaches(r, "terminate")
    /\ \/ /\ runtime.status = "up" /\ ~recon[r].cancelled
          /\ runtime' = [runtime EXCEPT !.status = "dying"]
          /\ Continue(r, "await")
          /\ used' = used
       \/ /\ recon[r].cancelled \/ runtime.status # "up" \/ CanFail
          /\ Charge(runtime.status = "up" /\ ~recon[r].cancelled)
          /\ Finish(r, "error")
          /\ runtime' = runtime
    /\ UNCHANGED <<state, row, disp, listen, ctl, res, skipped, seen>>

(* process.Wait returns when a child exited, and at once when the process  *)
(* is not a child (the agent restarted); after 30 s the process is killed. *)
AwaitExit(r) ==
    /\ Reaches(r, "await")
    /\ runtime' = [runtime EXCEPT !.status =
                     IF runtime.child /\ @ = "dying" THEN "absent" ELSE @]
    /\ Continue(r, AfterRuntime(r))
    /\ UNCHANGED <<state, row, disp, listen, ctl, res, used, skipped, seen>>

(* A volume that is not allocated in memory but exists fails for ever: its *)
(* name is taken.  Otherwise lvcreate fails, the save after it, or neither.*)
AllocateVolume(cancelled, ok, new) ==
    \/ ok /\ res.memory.allocated /\ new = res
    \/ /\ ok /\ ~res.memory.allocated /\ ~res.volume /\ ~cancelled
       /\ new = Stamp([res EXCEPT !.volume = TRUE], "allocated", TRUE)
    \/ ~ok /\ new = res
    \/ /\ ~ok /\ ~res.memory.allocated /\ ~res.volume
       /\ new = Stamp([res EXCEPT !.volume = TRUE], "allocated", FALSE)

LastToFail(nicOk, volumeOk) == ~volumeOk
AnyFailed(nicOk, volumeOk) == ~nicOk \/ ~volumeOk

(* prepareMachine: the interface and the volumes, in parallel; each may    *)
(* fail, the interface with or without a link left behind.                 *)
Prepare(r) ==
    /\ Reaches(r, "prepare")
    /\ \E nicOk, volumeOk, link \in BOOLEAN :
         LET cancelled == recon[r].cancelled
             failed == AnyFailed(nicOk, volumeOk)
             nameTaken == res.volume /\ ~res.memory.allocated
             fault == failed /\ ~cancelled /\ (nicOk => ~nameTaken)
         IN /\ nicOk => link /\ ~cancelled
            /\ fault => CanFail
            /\ Charge(fault)
            /\ \E after \in {res, Stamp([res EXCEPT !.volume = TRUE], "allocated", FALSE),
                            Stamp([res EXCEPT !.volume = TRUE], "allocated", TRUE)} :
                 /\ AllocateVolume(cancelled, volumeOk, after)
                 /\ res' = [after EXCEPT !.link = link]
            /\ IF failed THEN Finish(r, "error")
               ELSE IF recon[r].machine.DesiredState = "running"
               THEN Continue(r, "probeStart") ELSE Finish(r, "pending")
    /\ UNCHANGED <<state, row, disp, listen, ctl, runtime, skipped, seen>>

ProbeStart(r) ==
    /\ Reaches(r, "probeStart")
    /\ \E started \in BOOLEAN :
         /\ IsMachineRuntimeStarted(r, started)
         /\ IF started THEN Finish(r, "running")
            ELSE IF recon[r].cancelled THEN Finish(r, "error")
            ELSE Continue(r, "start")
    /\ UNCHANGED <<state, row, disp, listen, ctl, runtime, res, skipped>>

(* Start spawns the process and does not wait for it to listen.            *)
StartRuntime(r) ==
    /\ Reaches(r, "start")
    /\ \/ /\ runtime' = [status |-> IF runtime.status = "up" THEN "up" ELSE "booting",
                         child |-> TRUE]
          /\ seen' = seen \cup Note("doubleStart", runtime.status # "absent")
          /\ Finish(r, "running")
          /\ used' = used
       \/ /\ CanFail /\ Charge(TRUE)
          /\ Finish(r, "error")
          /\ UNCHANGED <<runtime, seen>>
    /\ UNCHANGED <<state, row, disp, listen, ctl, res, skipped>>

(* A release fails before it removed anything, or when it saves; a stamp   *)
(* that is set in memory is not saved again.                               *)
ReleaseInterface(r) ==
    /\ Reaches(r, "releaseNic")
    /\ LET cancelled == recon[r].cancelled
           after(saves) == Stamp([res EXCEPT !.link = FALSE], "nicReleased", saves)
       IN \/ /\ cancelled => ~res.link /\ res.memory.nicReleased
             /\ res' = after(TRUE)
             /\ Continue(r, "releaseVolumes")
             /\ used' = used
          \/ /\ cancelled \/ CanFail
             /\ \/ (cancelled => res.link) /\ res' = res
                \/ /\ ~res.memory.nicReleased /\ (cancelled => ~res.link)
                   /\ res' = after(FALSE)
             /\ Charge(~cancelled)
             /\ Finish(r, "error")
    /\ UNCHANGED <<state, row, disp, listen, ctl, runtime, skipped, seen>>

(* A volume whose stamp says released is skipped, whatever became of it.   *)
ReleaseVolumes(r) ==
    /\ Reaches(r, "releaseVolumes")
    /\ LET cancelled == recon[r].cancelled
           after(saves) ==
             Stamp([res EXCEPT !.volume = @ /\ res.memory.released], "released", saves)
       IN \/ /\ cancelled => res.memory.released
             /\ res' = after(TRUE)
             /\ Finish(r, "terminated")
             /\ used' = used
          \/ /\ ~res.memory.released
             /\ cancelled \/ CanFail
             /\ res' = res \/ (~cancelled /\ res' = after(FALSE))
             /\ Charge(~cancelled)
             /\ Finish(r, "error")
    /\ UNCHANGED <<state, row, disp, listen, ctl, runtime, skipped, seen>>

HoldCopyToClear(r) ==
    /\ Reaches(r, "clear") /\ MayHold(recon[r].copy)
    /\ recon' = [recon EXCEPT ![r].copy = state]
    /\ UNCHANGED <<state, row, bus, disp, listen, ctl, runtime, res, used,
                   skipped, seen>>

ClearReconciliation(r) ==
    /\ Reaches(r, "clear")
    /\ Install(recon[r].copy,
               [Latest(recon[r].copy) EXCEPT !.Reconciliation = None])
    /\ recon' = [recon EXCEPT ![r] = NoReconciliation]
    /\ UNCHANGED <<row, bus, disp, listen, ctl, runtime, res, skipped, seen>>

-------------------------------------------------------------------------------
(* A runtime listener goroutine.                                           *)

Listens(l, pc) == Alive /\ listen[l].pc = pc

Holding ==
    \/ used.staleWrites > 0 \/ disp.copy # None
    \/ \E r \in Reconcilers : recon[r].copy # None
    \/ \E l \in Listeners : listen[l].copy # None
MayTick == used.ticks < IF Holding THEN MaxTicksHolding ELSE MaxTicks

(* A tick: the stream opens and delivers its first message, or it ends     *)
(* before one.  A cancelled listener may still pick the tick.              *)
Connect(l) ==
    /\ Listens(l, "loop") /\ MayTick
    /\ used' = [used EXCEPT !.ticks = @ + 1]
    /\ \/ /\ runtime.status = "up" /\ ~listen[l].cancelled
          /\ bus' = PublishEvent(bus, Connected)
          /\ listen' = [listen EXCEPT ![l].pc = "connected"]
       \/ /\ bus' = PublishEvent(bus, Disconnected)
          /\ listen' = listen
    /\ UNCHANGED <<state, row, disp, recon, ctl, runtime, res, skipped, seen>>

Disconnect(l) ==
    /\ Listens(l, "connected")
    /\ bus' = PublishEvent(bus, Disconnected)
    /\ listen' = [listen EXCEPT ![l].pc = "loop"]
    /\ UNCHANGED <<state, row, disp, recon, ctl, runtime, res, used, skipped, seen>>

DoneOnStreamEnd(l) == listen[l].cancelled \/ used.ticks > 0
Done(l) == listen[l].cancelled

HoldCopyToExit(l) ==
    /\ Listens(l, "loop") /\ Done(l) /\ MayHold(listen[l].copy)
    /\ listen' = [listen EXCEPT ![l].pc = "exit", ![l].copy = state]
    /\ UNCHANGED <<state, row, bus, disp, recon, ctl, runtime, res, used,
                   skipped, seen>>

ClearListener(l) ==
    /\ Listens(l, "exit") \/ (Listens(l, "loop") /\ Done(l))
    /\ Install(listen[l].copy,
               [Latest(listen[l].copy) EXCEPT !.RuntimeListener = None,
                                              !.ConsecutiveErrorCount = 0])
    /\ listen' = [listen EXCEPT ![l] = NoListener]
    /\ UNCHANGED <<row, bus, disp, recon, ctl, runtime, res, skipped, seen>>

-------------------------------------------------------------------------------
(* The runtime process, as the agent sees it: it opens its socket some     *)
(* time after it was spawned, exits some time after SIGTERM, or crashes.   *)

RuntimeReachable ==
    /\ runtime.status = "booting"
    /\ runtime' = [runtime EXCEPT !.status = "up"]
    /\ UNCHANGED <<state, row, bus, disp, recon, listen, ctl, res, used,
                   skipped, seen>>

RuntimeExits ==
    /\ runtime.status = "dying"
    /\ runtime' = [runtime EXCEPT !.status = "absent"]
    /\ UNCHANGED <<state, row, bus, disp, recon, listen, ctl, res, used,
                   skipped, seen>>

RuntimeCrashes ==
    /\ runtime.status \in {"booting", "up"} /\ CanFail
    /\ Charge(TRUE)
    /\ runtime' = [runtime EXCEPT !.status = "absent"]
    /\ UNCHANGED <<state, row, bus, disp, recon, listen, ctl, res, skipped, seen>>

-------------------------------------------------------------------------------
Dispatch ==
    \/ \E m \in Message : HoldCopy(m)
    \/ AssessOnly
    \/ \E r \in Reconcilers : Reconcile(r)
    \/ HoldCopyForListener
    \/ \E l \in Listeners : startRuntimeListener(l)
    \/ \E d \in DesiredState : DesiredStateChanged(d)
    \/ \E s \in MachineState : StateChanged(s)
    \/ ListenerConnected \/ ListenerDisconnected \/ CountErrors
    \/ DispatcherReturns

Stop == StopBegins \/ StopTimesOut

Reconciliation(r) ==
    \/ Probe(r) \/ Terminate(r) \/ AwaitExit(r) \/ Prepare(r)
    \/ ProbeStart(r) \/ StartRuntime(r) \/ ReleaseInterface(r)
    \/ ReleaseVolumes(r) \/ HoldCopyToClear(r) \/ ClearReconciliation(r)

RuntimeListener(l) ==
    Connect(l) \/ Disconnect(l) \/ HoldCopyToExit(l) \/ ClearListener(l)

Runtime == RuntimeReachable \/ RuntimeExits \/ RuntimeCrashes

Next ==
    \/ Register \/ Restart
    \/ \E d \in Requestable : UpdateDesiredState(d)
    \/ Dispatch \/ Stop
    \/ \E r \in Reconcilers : Reconciliation(r)
    \/ \E l \in Listeners : RuntimeListener(l)
    \/ Runtime

Spec == Init /\ [][Next]_vars

(* Every goroutine runs on, a started runtime opens its socket and a       *)
(* signalled one exits; nothing obliges a call to fail, the API to ask for *)
(* something, or the agent to crash.  A panicked agent is restarted.       *)
FairSpec ==
    /\ Spec
    /\ WF_vars(Register) /\ WF_vars(ctl.life = "panicked" /\ Restart)
    /\ WF_vars(Dispatch) /\ WF_vars(Stop)
    /\ \A r \in Reconcilers : WF_vars(Reconciliation(r))
    /\ \A l \in Listeners : WF_vars(RuntimeListener(l))
    /\ WF_vars(RuntimeReachable) /\ WF_vars(RuntimeExits)

-------------------------------------------------------------------------------
(* Properties.                                                             *)

Row == [State : MachineState, DesiredState : DesiredState]
Dispatcher ==
    [pc : {"idle", "handle", "startListener", "countErrors", "returned"},
     msg : Message, copy : ControllerState \cup {None}]
ReconcilerPC == {"none", "probe", "terminate", "await", "prepare", "probeStart",
                 "start", "releaseNic", "releaseVolumes", "clear"}
Reconciler == [pc : ReconcilerPC, machine : Row \cup {None}, cancelled : BOOLEAN,
               copy : ControllerState \cup {None}]
Listener == [pc : {"none", "loop", "connected", "exit"}, cancelled : BOOLEAN,
             copy : ControllerState \cup {None}]
Control == [life : {"running", "panicked", "gone"}, registered : BOOLEAN,
            stopping : BOOLEAN, cancelled : BOOLEAN,
            stop : {"none", "called", "waiting", "done"},
            toCancel : Reconcilers \cup {None}]
Process == [status : {"absent", "booting", "up", "dying"}, child : BOOLEAN]
Resources == [link : BOOLEAN, volume : BOOLEAN, memory : Stamps, saved : Stamps]
Usage == [requests : Nat, failures : Nat, ticks : Nat, restarts : Nat,
          staleWrites : Nat]

(* Every variable keeps to its type; the bus never goes below empty.       *)
TypeOK ==
    /\ state \in ControllerState
    /\ row \in Row
    /\ bus \in [Message -> Nat]
    /\ disp \in Dispatcher
    /\ recon \in [Reconcilers -> Reconciler]
    /\ listen \in [Listeners -> Listener]
    /\ ctl \in Control
    /\ runtime \in Process
    /\ res \in Resources
    /\ used \in Usage
    /\ skipped \in BOOLEAN
    /\ seen \subseteq History

NoStaleWrite == used.staleWrites = 0
Active(r) == recon[r].pc # "none"
Quiet == /\ Alive /\ disp.pc = "idle" /\ bus = EmptyBus
         /\ ctl.stop \in {"none", "done"}
         /\ \A r \in Reconcilers : ~Active(r)
         /\ \A l \in Listeners : listen[l].pc # "exit" /\ ~listen[l].cancelled

(* As long as no SetState installed an outdated copy, c.state points at a  *)
(* reconciliation or a listener exactly while its goroutine runs: there is *)
(* never a second one.                                                     *)
PointersMatchGoroutines ==
    NoStaleWrite =>
      /\ \A r \in Reconcilers : Active(r) <=> state.Reconciliation = r
      /\ \A l \in Listeners : listen[l].pc # "none" <=> state.RuntimeListener = l

(* Failed saves keep c.state and the row apart no more than successful     *)
(* ones do: only an outdated copy can (event_handler.go:30, 37).           *)
MemoryMatchesRow ==
    NoStaleWrite => /\ state.State = row.State
                    /\ state.DesiredState = row.DesiredState

(* A controller with nothing left to do has reached its desired state,     *)
(* unless the last Assess that had to reconcile found the previous         *)
(* reconciliation still marked as running (reconciliation.go:38, 60).      *)
ConvergedWhenQuiet ==
    /\ Quiet /\ NoStaleWrite /\ shouldReconcile(state)
    => skipped \/ ctl.stopping

(* A machine left running is listened to, unless a listener was cancelled  *)
(* and the machine ran again before its goroutine had ended.               *)
ObservedWhenQuiet ==
    /\ Quiet /\ NoStaleWrite /\ shouldStartRuntimeListener(state)
    => state.RuntimeListener # None \/ "listenerCancel" \in seen

(* A row that says terminated, for a machine nobody asked back, has given  *)
(* everything up: no tap, no volume, no runtime that is not exiting -      *)
(* unless some probe took a live runtime for a stopped one.                *)
TerminatedIsClean ==
    /\ row.State = "terminated" /\ NoStaleWrite /\ "resurrected" \notin seen
    => /\ ~res.link /\ ~res.volume
       /\ runtime.status \in {"absent", "dying"} \/ "blindProbe" \in seen

(* Nobody asked the machine back, and no reconciliation does anything but  *)
(* terminate it.                                                           *)
GivenUp ==
    /\ state.DesiredState = "terminated"
    /\ \A r \in Reconcilers :
         Active(r) => recon[r].machine.DesiredState = "terminated"

Phase == IF ~GivenUp THEN "kept"
         ELSE IF row.State = "terminated" THEN "left" ELSE "leaving"
Astray == ~NoStaleWrite \/ "resurrected" \in seen

(* The controller implements the life of a machine: link and volumes are   *)
(* not given up under a runtime, none is started without them, they do not *)
(* come back for a machine that leaves, and its end is recorded only when  *)
(* it holds nothing any more - as long as no SetState installed an outdated*)
(* copy and nobody asked a machine back that was to be terminated.         *)
Life == INSTANCE MachineLife WITH
    phase <- Phase, runtime <- runtime.status,
    link <- res.link, volume <- res.volume,
    overlooked <- "blindProbe" \in seen, astray <- Astray
LifeSpec == Life!Spec

(* A stopped controller leaves a terminated row behind, unless the handler  *)
(* that called Stop on the message could not save it (events.go:131): the  *)
(* state it was called for is saved by then, nothing saved later takes it  *)
(* back, and no other save that failed, in this agent or in an earlier one, *)
(* makes a difference.                                                     *)
StoppedMeansRecorded ==
    ctl.cancelled /\ disp.pc # "handle"
    => row.State = "terminated" \/ "unrecorded" \in seen

(* Every reconciliation beyond the first one that runs at the same time    *)
(* was let in by a SetState that installed an outdated copy.               *)
OverlapCostsStaleWrites ==
    Cardinality({r \in Reconcilers : Active(r)}) <= 1 + used.staleWrites

(* A second runtime is started beside a live one only if that one was      *)
(* alive but did not answer (it had not opened its socket, or was dying).  *)
DoubleStartNeedsBlindProbe ==
    "doubleStart" \in seen => "blindProbe" \in seen \/ ~NoStaleWrite

(* Once Stop was called no reconciliation begins in this controller.       *)
StoppedBeginsNothing ==
    [][ctl.stopping /\ ctl'.stopping =>
         \A r \in Reconcilers : ~Active(r) => ~Active(r)']_vars

(* The agent settles: sooner or later, and from then on, the machine is as *)
(* desired, or its controller was stopped, or the last needed              *)
(* reconciliation was skipped.                                             *)
EventuallySettled ==
    <>[](\/ ~shouldReconcile(state) \/ skipped \/ ctl.stopping
         \/ ctl.life = "gone" \/ ~NoStaleWrite)

(* The dispatcher is never stuck for good, although Stop waits for it from *)
(* within one of its handlers: the messages are handled, or it returns.    *)
MessagesDrain ==
    <>[](bus = EmptyBus \/ disp.pc = "returned")
================================================================================
