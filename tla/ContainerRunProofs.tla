--------------------------- MODULE ContainerRunProofs ---------------------------
(***************************************************************************)
(* Proofs about ContainerRun, for any number of runs and any retry limit:  *)
(* its type invariant, that a container is restarted as it is configured,  *)
(* what is reported of a stopped and of a running one, and where its       *)
(* command runs.                                                           *)
(***************************************************************************)
EXTENDS ContainerRun, TLAPS

(* A goroutine of a health worker moves, or the one of the run loop.       *)
Loop ==
    Begin \/ Clear \/ StartFails \/ StartCmd \/ Wait \/ StoreExit \/ Decide
Health(r) == SayHealthy(r) \/ ContextDone(r) \/ PerformHealthcheck(r) \/ SwapHealthy(r)
Process ==
    (\E ok \in BOOLEAN : SetupFilesystem(ok)) \/ FindsDirectory \/ Execute \/ CommandReturns

LEMMA StepCases ==
    ASSUME [Next]_vars
    PROVE  \/ Boot /\ boot # "panicked"
           \/ Panic \/ Loop \/ Process
           \/ \E r \in Runs : Health(r)
           \/ \E p \in Publisher : LoadStart(p) \/ LoadExit(p) \/ Publish(p)
           \/ UNCHANGED vars
  BY DEF Next, Loop, Health, Process

(* Nothing runs before the server listens, or after a panic.               *)
BootInv == boot # "server" => loop = "off"

LoopPc == {"off", "begin", "clear", "start", "wait", "exited", "load", "half", "send",
           "decide", "stopped"}
WorkerState == [pc : {"none", "ready", "checked", "load", "half", "send", "done"},
                cancelled : BOOLEAN, result : BOOLEAN]

LEMMA TypeInit ==
    ASSUME ContainerRunAssumption, Init
    PROVE  TypeOK /\ BootInv
  BY DEF ContainerRunAssumption, Init, TypeOK, BootInv, Cells, NoProcess, NoWorker, NoEvent,
     Fields, Event, Stamp, Code, NoRun, NoCode

(* The steps of Container.run keep the types.                              *)
LEMMA TypeLoop ==
    ASSUME ContainerRunAssumption, TypeOK, BootInv, Loop
    PROVE  TypeOK' /\ BootInv'
  <1> USE DEF TypeOK
  <1>1. CASE Begin
    <2>1. cell.startedAt \in 0..MaxRuns /\ cell.startedAt < MaxRuns
      BY <1>1 DEF Begin, Run, Fields, Stamp, Runs, NoRun, ContainerRunAssumption
    <2>2. cell' = [cell EXCEPT !.error = "none", !.startedAt = @ + 1]
      BY <1>1 DEF Begin
    <2>3. cell.startedAt + 1 \in Stamp
      BY <2>1 DEF ContainerRunAssumption, Stamp, Runs, NoRun
    <2>4. cell' \in Fields
      BY <2>2, <2>3 DEF Fields
    <2>5. cell'.startedAt = cell'.restarts + 1
      BY <1>1, <2>2 DEF Begin, Fields
    <2> QED BY <1>1, <2>4, <2>5 DEF Begin, Goto, BootInv
  <1>2. CASE Clear
    <2>1. cell' \in Fields /\ cell'.startedAt = cell.startedAt
          /\ cell'.restarts = cell.restarts
      BY <1>2 DEF Clear, ClearExit, Fields, Stamp, Code
    <2> QED BY <1>2, <2>1 DEF Clear, Goto, BootInv
  <1>3. CASE StartFails
    <2>1. cell' \in Fields /\ cell'.startedAt = cell.startedAt
          /\ cell'.restarts = cell.restarts
      BY <1>3 DEF StartFails, Fields
    <2> QED BY <1>3, <2>1 DEF StartFails, Goto, BootInv
  <1>4. CASE StartCmd
    BY <1>4 DEF StartCmd, Goto, BootInv
  <1>5. CASE Wait
    <2>1. cell' \in Fields /\ cell'.startedAt = cell.startedAt
          /\ cell'.restarts = cell.restarts
      BY <1>5 DEF Wait, Waited, Fields
    <2> QED BY <1>5, <2>1 DEF Wait, Waited, Goto, BootInv
  <1>6. CASE StoreExit
    <2>1. cell' \in Fields /\ cell'.startedAt = cell.startedAt
          /\ cell'.restarts = cell.restarts
      BY <1>6 DEF StoreExit, Fields, Run
    <2> QED BY <1>6, <2>1 DEF StoreExit, Goto, BootInv
  <1>7. CASE Decide
    <2>1. CASE IsOver
      BY <1>7, <2>1 DEF Decide, Count, Goto, BootInv
    <2>2. CASE ~IsOver
      <3>1. cell' = [cell EXCEPT !.restarts = @ + 1] /\ loop' = "begin"
        BY <1>7, <2>2 DEF Decide, Count, Goto
      <3>2. cell.startedAt = cell.restarts + 1 /\ cell.restarts \in 0..MaxRuns
            /\ cell.startedAt \in 0..MaxRuns
        BY <1>7 DEF Decide, Fields, Stamp, Runs, NoRun, ContainerRunAssumption
      <3>3. cell.restarts + 1 \in 0..MaxRuns
        BY <3>2
      <3>4. cell' \in Fields /\ cell'.startedAt = cell'.restarts + 0
        BY <3>1, <3>2, <3>3 DEF Fields
      <3> QED BY <1>7, <3>1, <3>4 DEF Decide, BootInv
    <2> QED BY <2>1, <2>2
  <1> QED BY <1>1, <1>2, <1>3, <1>4, <1>5, <1>6, <1>7 DEF Loop

(* The steps of initcontainer change the process only, those of the health *)
(* workers the worker and the health.                                      *)
LEMMA TypeOthers ==
    ASSUME TypeOK, BootInv, Process \/ \E r \in Runs : Health(r)
    PROVE  TypeOK' /\ BootInv'
  <1> USE DEF TypeOK
  <1>1. CASE Process
    <2>1. Run \in Stamp /\ NoRun \in Stamp
      BY DEF Run, Fields, Stamp
    <2> QED BY <1>1, <2>1 DEF Process, SetupFilesystem, FindsDirectory, Execute,
               CommandReturns, Exits, Code, BootInv
  <1>2. ASSUME NEW r \in Runs, SayHealthy(r) \/ SwapHealthy(r)
        PROVE  TypeOK' /\ BootInv'
    <2>1. cell' \in Fields /\ cell'.startedAt = cell.startedAt
          /\ cell'.restarts = cell.restarts
      BY <1>2 DEF SayHealthy, SwapHealthy, Fields
    <2> QED BY <1>2, <2>1 DEF SayHealthy, SwapHealthy, BootInv
  <1>3. ASSUME NEW r \in Runs, ContextDone(r)
        PROVE  TypeOK' /\ BootInv'
    BY <1>3 DEF ContextDone, BootInv
  <1>4. ASSUME NEW r \in Runs, PerformHealthcheck(r)
        PROVE  TypeOK' /\ BootInv'
    <2>1. worker' \in [Runs -> WorkerState]
      <3>1. PICK healthy \in BOOLEAN :
              worker' = [worker EXCEPT ![r].pc = "checked", ![r].result = healthy]
        BY <1>4 DEF PerformHealthcheck
      <3> QED BY <3>1 DEF WorkerState
    <2> QED BY <1>4, <2>1 DEF PerformHealthcheck, BootInv, WorkerState
  <1> QED BY <1>1, <1>2, <1>3, <1>4 DEF Health

(* The steps that load and publish an event keep the types.                *)
LEMMA TypePublish ==
    ASSUME TypeOK, BootInv, NEW p \in Publisher,
           LoadStart(p) \/ LoadExit(p) \/ Publish(p)
    PROVE  TypeOK' /\ BootInv'
  <1> USE DEF TypeOK
  <1>1. /\ UNCHANGED <<cell, config, boot, process>>
        /\ \E pc \in {"half", "send", "end"} : Advance(p, pc)
        /\ Publishing(p, "load") \/ Publishing(p, "half") \/ Publishing(p, "send")
    BY DEF LoadStart, LoadExit, Publish
  <1>2. worker' \in [Runs -> WorkerState]
    BY <1>1 DEF Advance, Publisher, WorkerState
  <1>3. loop' = loop \/ (loop \in {"load", "half", "send"}
                          /\ loop' \in {"half", "send", "decide"})
    BY <1>1 DEF Advance, Publishing
  <1>4. copy[p] \in Event
    OBVIOUS
  <1>5. copy' \in [Publisher -> Event] /\ last' \in Event
    <2>1. CASE LoadStart(p)
      <3>1. [copy[p] EXCEPT !.healthy = cell.healthy, !.restarts = cell.restarts,
                            !.startedAt = cell.startedAt] \in Event
        BY <1>4 DEF Event, Fields
      <3> QED BY <2>1, <3>1 DEF LoadStart
    <2>2. CASE LoadExit(p)
      <3>1. [copy[p] EXCEPT !.exitedAt = cell.exitedAt, !.error = cell.error,
                            !.code = cell.code] \in Event
        BY <1>4 DEF Event, Fields
      <3> QED BY <2>2, <3>1 DEF LoadExit
    <2>3. CASE Publish(p)
      <3>1. [copy[p] EXCEPT !.stale = (copy[p] # Current)] \in Event
        BY <1>4 DEF Event
      <3>2. NoEvent \in Event
        BY ContainerRunAssumption DEF NoEvent, Event, Stamp, NoRun, NoCode, Code, ContainerRunAssumption
      <3> QED BY <2>3, <3>1, <3>2 DEF Publish
    <2> QED BY <2>1, <2>2, <2>3
  <1> QED BY <1>1, <1>2, <1>3, <1>5 DEF BootInv, WorkerState

LEMMA TypeStep ==
    ASSUME ContainerRunAssumption, TypeOK, BootInv, [Next]_vars
    PROVE  TypeOK' /\ BootInv'
  <1>1. CASE Boot
    BY <1>1 DEF Boot, AfterBoot, TypeOK, BootInv
  <1>2. CASE Panic
    BY <1>2 DEF Panic, Cells, NoProcess, NoWorker, NoEvent, Event, TypeOK, BootInv,
       ContainerRunAssumption, Fields, Stamp, Code, NoRun, NoCode
  <1>3. CASE UNCHANGED vars
    BY <1>3 DEF vars, TypeOK, BootInv
  <1> QED BY StepCases, TypeLoop, TypeOthers, TypePublish, <1>1, <1>2, <1>3

(* The variables of the guest keep to their types, and every run but the   *)
(* first is counted as a restart (Container.run).                          *)
THEOREM ContainerTypeCorrect == Spec => []TypeOK
  <1>1. Init => TypeOK /\ BootInv
    BY ContainerRunAssumption, TypeInit
  <1>2. TypeOK /\ BootInv /\ [Next]_vars => TypeOK' /\ BootInv'
    BY ContainerRunAssumption, TypeStep
  <1> QED BY <1>1, <1>2, PTL DEF Spec

-------------------------------------------------------------------------------
(* A container goes on only as its policy says; one that has not begun has *)
(* no restarts.                                                            *)
RestartsInv ==
    /\ RestartsAsConfigured
    /\ loop = "off" => cell.restarts = 0

LEMMA RestartsStep ==
    ASSUME TypeOK, BootInv, RestartsInv, [Next]_vars
    PROVE  RestartsInv'
  <1> USE DEF RestartsInv, RestartsAsConfigured
  <1>1. CASE Decide
    <2>1. cell.startedAt = cell.restarts + 1 /\ cell.restarts \in Nat
          /\ config.retries \in Nat /\ config' = config
      BY <1>1 DEF Decide, TypeOK, Fields, Config
    <2>2. CASE IsOver
      <3>1. cell' = cell /\ loop' = "stopped"
        BY <1>1, <2>2 DEF Decide, Count, Goto
      <3> QED BY <2>1, <2>2, <3>1 DEF IsOver, RetriesExhausted
    <2>3. CASE ~IsOver
      <3>1. cell'.restarts = cell.restarts + 1 /\ cell'.code = cell.code
            /\ loop' = "begin"
        BY <1>1, <2>3 DEF Decide, Count, Goto, TypeOK, Fields
      <3> QED BY <2>1, <2>3, <3>1 DEF IsOver, RetriesExhausted
    <2> QED BY <2>2, <2>3
  <1>2. CASE Panic
    <2>1. cell'.restarts = 0 /\ loop' = "off" /\ config' = config
          /\ config.retries \in Nat
      BY <1>2 DEF Panic, Cells, TypeOK, Config
    <2> QED BY <2>1
  <1>3. CASE Boot /\ boot # "panicked"
    BY <1>3 DEF Boot, BootInv
  <1>4. ASSUME Begin \/ Clear \/ StartFails \/ StartCmd \/ Wait \/ StoreExit
        PROVE  /\ loop' \notin {"off", "begin", "stopped"}
               /\ cell'.restarts = cell.restarts /\ config' = config
    BY <1>4 DEF Begin, Clear, StartFails, StartCmd, Wait, Waited, StoreExit, Goto, ClearExit,
       TypeOK, Fields
  <1>5. ASSUME Process \/ (\E r \in Runs : Health(r))
                \/ (\E p \in Publisher : LoadStart(p) \/ LoadExit(p) \/ Publish(p))
        PROVE  /\ loop' \in {"off", "begin", "stopped"} => loop' = loop
               /\ cell'.restarts = cell.restarts /\ cell'.code = cell.code
               /\ config' = config
    BY <1>5 DEF Process, SetupFilesystem, FindsDirectory, Execute, CommandReturns, Exits,
       Health, SayHealthy, ContextDone, PerformHealthcheck, SwapHealthy,
       LoadStart, LoadExit, Publish, Advance, TypeOK, Fields
  <1>6. CASE UNCHANGED vars
    BY <1>6 DEF vars
  <1> QED BY StepCases, <1>1, <1>2, <1>3, <1>4, <1>5, <1>6 DEF Loop

(* A container is run again as its restart policy says, and as often       *)
(* (Container.run).                                                        *)
THEOREM RestartsCorrect == Spec => []RestartsAsConfigured
  <1>1. Init => TypeOK /\ BootInv /\ RestartsInv
    <2>1. Init => RestartsInv
      BY DEF Init, Cells, RestartsInv, RestartsAsConfigured, Config
    <2> QED BY ContainerRunAssumption, TypeInit, <2>1
  <1>2. TypeOK /\ BootInv /\ RestartsInv /\ [Next]_vars
          => TypeOK' /\ BootInv' /\ RestartsInv'
    BY ContainerRunAssumption, TypeStep, RestartsStep
  <1>3. RestartsInv => RestartsAsConfigured
    BY DEF RestartsInv
  <1> QED BY <1>1, <1>2, <1>3, PTL DEF Spec

-------------------------------------------------------------------------------
(* The run loop waits exactly while there is a process.  No run to come    *)
(* has made the root directory; the process of the current one is within   *)
(* the volume once it is past the setup, if that run made the directory,   *)
(* and only then.                                                          *)
ProcessInv ==
    /\ process.state # "none" <=> loop = "wait"
    /\ process.madeBy <= Run
    /\ loop = "off" => process.madeBy = NoRun
    /\ loop \in {"clear", "start"} => process.madeBy < Run
    /\ process.state = "started" => process.madeBy < Run /\ ~process.inside
    /\ process.state \in {"ready", "executing"} =>
         process.madeBy # NoRun /\ (process.inside <=> process.madeBy = Run)

LEMMA ProcessStep ==
    ASSUME TypeOK, BootInv, ProcessInv, [Next]_vars
    PROVE  ProcessInv'
  <1> USE DEF ProcessInv, Run, NoRun
  <1>1. cell.startedAt \in Nat /\ cell.restarts \in Nat /\ process.madeBy \in Nat
    BY ContainerRunAssumption
    DEF TypeOK, Fields, Stamp, Runs, ContainerRunAssumption
  <1>2. CASE Boot /\ boot # "panicked"
    BY <1>2 DEF Boot, BootInv
  <1>3. CASE Panic
    BY <1>3 DEF Panic, NoProcess, Cells
  <1>4. CASE Begin
    <2>1. cell'.startedAt = cell.startedAt + 1
      BY <1>4 DEF Begin, TypeOK, Fields
    <2> QED BY <1>1, <1>4, <2>1 DEF Begin, Goto
  <1>5. CASE Decide
    <2>1. cell'.startedAt = cell.startedAt /\ cell.startedAt >= 1
      BY <1>1, <1>5 DEF Decide, Count, TypeOK, Fields
    <2>2. process' = process /\ loop = "decide" /\ loop' \in {"stopped", "begin"}
      BY <1>5 DEF Decide, Goto
    <2> QED BY <2>1, <2>2
  <1>6. CASE StartCmd
    BY <1>1, <1>6 DEF StartCmd, Goto, TypeOK
  <1>7. CASE Wait
    <2>1. cell'.startedAt = cell.startedAt
      BY <1>7 DEF Wait, Waited, TypeOK, Fields
    <2> QED BY <1>7, <2>1 DEF Wait, Waited, Goto, TypeOK
  <1>8. CASE Clear \/ StartFails \/ StoreExit
    <2>1. cell'.startedAt = cell.startedAt /\ process' = process
      BY <1>8 DEF Clear, ClearExit, StartFails, StoreExit, TypeOK, Fields
    <2> QED BY <1>8, <2>1 DEF Clear, StartFails, StoreExit, Goto
  <1>9. ASSUME NEW ok \in BOOLEAN, SetupFilesystem(ok) PROVE ProcessInv'
    <2>1. /\ process.state = "started" /\ process.madeBy = 0
          /\ UNCHANGED <<loop, cell>>
      BY <1>9 DEF SetupFilesystem, NeedsSetup
    <2>2. CASE process' = [process EXCEPT !.state = "ready",
                                          !.madeBy = cell.startedAt, !.inside = TRUE]
      BY <1>1, <2>1, <2>2 DEF TypeOK
    <2>3. ASSUME NEW made \in {0, cell.startedAt},
                 process' = [process EXCEPT !.state = "exited", !.code = 2,
                                            !.madeBy = made]
          PROVE  ProcessInv'
      BY <1>1, <2>1, <2>3 DEF TypeOK
    <2> QED BY <1>9, <2>2, <2>3 DEF SetupFilesystem
  <1>10. CASE FindsDirectory
    BY <1>1, <1>10 DEF FindsDirectory, NeedsSetup, TypeOK
  <1>11. CASE Execute \/ CommandReturns
    BY <1>11 DEF Execute, CommandReturns, Exits, TypeOK
  <1>12. ASSUME NEW r \in Runs, Health(r)
         PROVE  process' = process /\ loop' = loop /\ cell'.startedAt = cell.startedAt
    BY <1>12 DEF Health, SayHealthy, ContextDone, PerformHealthcheck, SwapHealthy,
       TypeOK, Fields
  <1>13. ASSUME NEW p \in Publisher, LoadStart(p) \/ LoadExit(p) \/ Publish(p)
         PROVE  /\ process' = process /\ cell' = cell
                /\ \/ loop' = loop
                   \/ loop \in {"load", "half", "send"}
                      /\ loop' \in {"half", "send", "decide"}
    BY <1>13 DEF LoadStart, LoadExit, Publish, Publishing, Advance
  <1>14. CASE UNCHANGED vars
    BY <1>14 DEF vars
  <1> QED BY StepCases, <1>2, <1>3, <1>4, <1>5, <1>6, <1>7, <1>8, <1>9, <1>10, <1>11,
             <1>12, <1>13, <1>14 DEF Loop, Process

(* A command executes within the container's volume in the run that made   *)
(* the root directory, and in no other (initcontainer's Start).            *)
THEOREM ConfinedCorrect == Spec => []ConfinedOnce
  <1>1. Init => TypeOK /\ BootInv /\ ProcessInv
    <2>1. Init => ProcessInv
      BY DEF Init, NoProcess, Cells, ProcessInv, Run, NoRun
    <2> QED BY ContainerRunAssumption, TypeInit, <2>1
  <1>2. TypeOK /\ BootInv /\ ProcessInv /\ [Next]_vars
          => TypeOK' /\ BootInv' /\ ProcessInv'
    BY ContainerRunAssumption, TypeStep, ProcessStep
  <1>3. ProcessInv => ConfinedOnce
    BY DEF ProcessInv, ConfinedOnce
  <1> QED BY <1>1, <1>2, <1>3, PTL DEF Spec

-------------------------------------------------------------------------------
(* An event that is not stale when it is published carries the cells.      *)
LEMMA PublishFresh ==
    ASSUME TypeOK, NEW p \in Publisher, Publish(p), ~last'.stale
    PROVE  /\ last'.startedAt = cell.startedAt /\ last'.exitedAt = cell.exitedAt
           /\ last'.error = cell.error /\ last'.code = cell.code
           /\ last'.healthy = cell.healthy
  <1>1. copy[p] \in Event
    BY DEF TypeOK
  <1>2. last' = [copy[p] EXCEPT !.stale = (copy[p] # Current)]
    BY DEF Publish
  <1>3. copy[p] = Current
    BY <1>1, <1>2 DEF Event
  <1>4. /\ Current.startedAt = cell.startedAt /\ Current.exitedAt = cell.exitedAt
        /\ Current.error = cell.error /\ Current.code = cell.code
        /\ Current.healthy = cell.healthy
    BY DEF Current, NoEvent
  <1> QED BY <1>1, <1>2, <1>3, <1>4 DEF Event

(* The cells have the exit of the run from its end on, and the last event  *)
(* has it too once the run loop has published.                             *)
ExitInv ==
    /\ loop \in {"start", "wait", "exited"} => cell.exitedAt = NoRun
    /\ loop \in {"load", "half", "send", "decide", "stopped"} =>
         cell.exitedAt = Run \/ (cell.error = "start" /\ cell.exitedAt = NoRun)
    /\ loop \in {"decide", "stopped"} /\ ~last.stale =>
         /\ last.exitedAt = cell.exitedAt /\ last.error = cell.error
         /\ last.code = cell.code

LEMMA ExitStep ==
    ASSUME TypeOK, BootInv, ExitInv, [Next]_vars
    PROVE  ExitInv'
  <1> USE DEF ExitInv, Run
  <1>1. CASE Boot /\ boot # "panicked"
    BY <1>1 DEF Boot, BootInv
  <1>2. CASE Panic
    BY <1>2 DEF Panic
  <1>3. CASE Begin \/ StartCmd
    BY <1>3 DEF Begin, StartCmd, Goto
  <1>4. CASE Clear
    BY <1>4 DEF Clear, ClearExit, Goto, TypeOK, Fields
  <1>5. CASE StartFails \/ Wait
    BY <1>5 DEF StartFails, Wait, Waited, Goto, TypeOK, Fields
  <1>6. CASE StoreExit
    BY <1>6 DEF StoreExit, Goto, Run, TypeOK, Fields
  <1>7. CASE Decide
    <2>1. loop' = "begin" \/ (loop' = "stopped" /\ cell' = cell /\ last' = last)
      BY <1>7 DEF Decide, Count, Goto
    <2> QED BY <1>7, <2>1 DEF Decide
  <1>8. ASSUME Process \/ \E r \in Runs : Health(r)
        PROVE  /\ loop' = loop /\ last' = last
               /\ cell'.exitedAt = cell.exitedAt /\ cell'.error = cell.error
               /\ cell'.code = cell.code /\ cell'.startedAt = cell.startedAt
    BY <1>8 DEF Process, SetupFilesystem, FindsDirectory, Execute, CommandReturns,
       Health, SayHealthy, ContextDone, PerformHealthcheck, SwapHealthy, TypeOK, Fields
  <1>9. ASSUME NEW p \in Publisher, LoadStart(p) \/ LoadExit(p) PROVE ExitInv'
    <2>1. /\ cell' = cell /\ last' = last
          /\ \/ loop' = loop
             \/ loop \in {"load", "half"} /\ loop' \in {"half", "send"}
      BY <1>9 DEF LoadStart, LoadExit, Publishing, Advance
    <2> QED BY <2>1
  <1>10. ASSUME NEW p \in Publisher, Publish(p) PROVE ExitInv'
    <2>1. cell' = cell /\ (loop' = loop \/ (loop = "send" /\ loop' = "decide"))
      BY <1>10 DEF Publish, Publishing, Advance
    <2> QED BY <1>10, <2>1, PublishFresh
  <1>11. CASE UNCHANGED vars
    BY <1>11 DEF vars
  <1> QED BY StepCases, <1>1, <1>2, <1>3, <1>4, <1>5, <1>6, <1>7, <1>8, <1>9, <1>10,
             <1>11 DEF Loop

(* What is reported of a container that has stopped (Container.run and     *)
(* newContainerStateChangedEvent).                                         *)
THEOREM StoppedReportCorrect == Spec => []ReportedWhenStopped
  <1>1. Init => TypeOK /\ BootInv /\ ExitInv
    <2>1. Init => ExitInv
      BY DEF Init, ExitInv
    <2> QED BY ContainerRunAssumption, TypeInit, <2>1
  <1>2. TypeOK /\ BootInv /\ ExitInv /\ [Next]_vars => TypeOK' /\ BootInv' /\ ExitInv'
    BY ContainerRunAssumption, TypeStep, ExitStep
  <1>3. ExitInv => ReportedWhenStopped
    BY DEF ExitInv, ReportedWhenStopped
  <1> QED BY <1>1, <1>2, <1>3, PTL DEF Spec

-------------------------------------------------------------------------------
(* A worker begins with its run; once the one of the run that goes on is   *)
(* done, without a health check, the last event is one of this run.  The   *)
(* last event has the container's health, if no worker is about to publish *)
(* it.                                                                     *)
WorkerInv ==
    /\ \A r \in Runs : r > Run \/ (r = Run /\ loop \in {"clear", "start"}) =>
         worker[r].pc = "none"
    /\ loop = "wait" => Run \in Runs /\ worker[Run].pc # "none"
    /\ loop = "wait" /\ ~config.checked /\ ~last.stale /\ worker[Run].pc = "done" =>
         last.startedAt = Run /\ last.exitedAt = NoRun
    /\ boot # "panicked" =>
         \/ last.stale \/ last.healthy = cell.healthy
         \/ \E r \in Runs : worker[r].pc \in {"load", "half", "send"}

(* A step of a worker that neither publishes nor restarts keeps it, as     *)
(* long as a health that changes is on its way to be published.            *)
LEMMA WorkerMoves ==
    ASSUME TypeOK, WorkerInv, NEW r \in Runs,
           UNCHANGED <<loop, config, last, boot>>,
           worker[r].pc # "none", worker' = [worker EXCEPT ![r] = worker'[r]],
           worker'[r].pc # "none",
           worker'[r].pc = "done" => worker[r].pc = "done" \/ config.checked,
           cell'.startedAt = cell.startedAt,
           \/ worker'[r].pc \in {"load", "half", "send"}
           \/ worker[r].pc \notin {"load", "half", "send"} /\ cell'.healthy = cell.healthy
    PROVE  WorkerInv'
  BY DEF WorkerInv, Run, TypeOK

LEMMA WorkerStep ==
    ASSUME TypeOK, BootInv, ExitInv, WorkerInv, [Next]_vars
    PROVE  WorkerInv'
  <1> USE DEF WorkerInv, Run
  <1>0. cell.startedAt \in Nat /\ Runs \subseteq Nat
    BY ContainerRunAssumption
    DEF TypeOK, Fields, Stamp, Runs, NoRun, ContainerRunAssumption
  <1>1. CASE Boot /\ boot # "panicked"
    BY <1>1 DEF Boot, BootInv
  <1>2. CASE Panic
    BY <1>2 DEF Panic, NoWorker
  <1>3. CASE StartCmd
    <2>1. cell.startedAt \in Runs
      BY <1>3, ContainerRunAssumption
      DEF StartCmd, TypeOK, Fields, Stamp, Runs, NoRun, ContainerRunAssumption
    <2>2. worker'[cell.startedAt].pc = "ready"
          /\ \A r \in Runs : r # cell.startedAt => worker'[r] = worker[r]
      BY <1>3, <2>1 DEF StartCmd, TypeOK, Run
    <2>3. worker[cell.startedAt].pc = "none"
      BY <1>3, <2>1 DEF StartCmd
    <2> QED BY <1>0, <1>3, <2>1, <2>2, <2>3 DEF StartCmd, Goto
  <1>4. CASE Begin
    <2>1. cell'.startedAt = cell.startedAt + 1 /\ cell'.healthy = cell.healthy
      BY <1>4 DEF Begin, TypeOK, Fields
    <2> QED BY <1>0, <1>4, <2>1 DEF Begin, Goto
  <1>5. CASE Clear \/ StartFails \/ Wait \/ Decide
    <2>1. cell'.startedAt = cell.startedAt /\ cell'.healthy = cell.healthy
      BY <1>5 DEF Clear, ClearExit, StartFails, Wait, Waited, Decide, Count, TypeOK, Fields
    <2>2. /\ worker' = worker /\ last' = last /\ boot' = boot /\ loop' # "wait"
          /\ loop' \in {"clear", "start"} => loop \in {"clear", "start"}
      BY <1>5 DEF Clear, StartFails, Wait, Waited, Decide, Goto
    <2> QED BY <2>1, <2>2
  <1>6. CASE StoreExit
    <2>1. cell'.startedAt = cell.startedAt /\ cell'.healthy = cell.healthy
      BY <1>6 DEF StoreExit, TypeOK, Fields
    <2>2. \A r \in Runs : worker'[r].pc = worker[r].pc
      BY <1>6 DEF StoreExit, TypeOK
    <2> QED BY <1>6, <2>1, <2>2 DEF StoreExit, Goto
  <1>7. CASE Process
    BY <1>7 DEF Process, SetupFilesystem, FindsDirectory, Execute, CommandReturns
  <1>8. ASSUME NEW r \in Runs, Health(r) PROVE WorkerInv'
    <2>. DEFINE Moves ==
           /\ UNCHANGED <<loop, config, last, boot>>
           /\ worker[r].pc # "none" /\ worker'[r].pc # "none"
           /\ worker' = [worker EXCEPT ![r] = worker'[r]]
           /\ worker'[r].pc = "done" => config.checked
           /\ cell'.startedAt = cell.startedAt
           /\ \/ worker'[r].pc \in {"load", "half", "send"}
              \/ worker[r].pc \notin {"load", "half", "send"}
                 /\ cell'.healthy = cell.healthy
    <2>1. CASE SayHealthy(r)
      <3> Moves
        BY <2>1 DEF SayHealthy, TypeOK, Fields
      <3> QED BY WorkerMoves
    <2>2. CASE ContextDone(r)
      <3> Moves
        BY <2>2 DEF ContextDone, TypeOK
      <3> QED BY WorkerMoves
    <2>3. CASE PerformHealthcheck(r)
      <3>1. PICK healthy \in BOOLEAN :
              worker' = [worker EXCEPT ![r].pc = "checked", ![r].result = healthy]
        BY <2>3 DEF PerformHealthcheck
      <3> Moves
        BY <2>3, <3>1 DEF PerformHealthcheck, TypeOK
      <3> QED BY WorkerMoves
    <2>4. CASE SwapHealthy(r)
      <3>1. /\ UNCHANGED <<loop, config, last, boot>> /\ worker[r].pc = "checked"
            /\ cell'.healthy = worker[r].result /\ cell'.startedAt = cell.startedAt
        BY <2>4 DEF SwapHealthy, TypeOK, Fields
      <3>2. /\ worker' = [worker EXCEPT ![r] = worker'[r]]
            /\ worker'[r].pc = IF cell.healthy # worker[r].result THEN "load" ELSE "ready"
        BY <2>4 DEF SwapHealthy, TypeOK
      <3> Moves
        BY <3>1, <3>2
      <3> QED BY WorkerMoves
    <2> QED BY <1>8, <2>1, <2>2, <2>3, <2>4 DEF Health
  <1>9. ASSUME NEW p \in Publisher, LoadStart(p) \/ LoadExit(p) PROVE WorkerInv'
    <2>1. cell' = cell /\ UNCHANGED <<config, last, boot>>
      BY <1>9 DEF LoadStart, LoadExit
    <2>2. CASE p = Nobody
      BY <1>9, <2>1, <2>2 DEF LoadStart, LoadExit, Publishing, Advance
    <2>3. CASE p # Nobody
      <3>1. p \in Runs /\ loop' = loop /\ worker[p].pc \in {"load", "half"}
            /\ worker'[p].pc \in {"half", "send"}
            /\ worker' = [worker EXCEPT ![p] = worker'[p]]
        BY <1>9, <2>3 DEF LoadStart, LoadExit, Publishing, Advance, Publisher, TypeOK
      <3> QED BY <2>1, <3>1, WorkerMoves
    <2> QED BY <2>2, <2>3
  <1>10. ASSUME NEW p \in Publisher, Publish(p) PROVE WorkerInv'
    <2>1. cell' = cell /\ UNCHANGED <<config, boot>>
      BY <1>10 DEF Publish
    <2>2. ~last'.stale => /\ last'.startedAt = cell.startedAt
                          /\ last'.exitedAt = cell.exitedAt
                          /\ last'.healthy = cell.healthy
      BY <1>10, PublishFresh
    <2>3. loop = "wait" => cell.exitedAt = NoRun
      BY DEF ExitInv
    <2>4. CASE p = Nobody
      BY <1>10, <2>1, <2>2, <2>3, <2>4 DEF Publish, Publishing, Advance
    <2>5. CASE p # Nobody
      <3>1. /\ p \in Runs /\ loop' = loop /\ worker[p].pc = "send"
            /\ worker'[p].pc \in {"done", "ready"}
            /\ \A r \in Runs : r # p => worker'[r] = worker[r]
        BY <1>10, <2>5 DEF Publish, Publishing, Advance, Publisher, TypeOK
      <3> QED BY <2>1, <2>2, <2>3, <3>1
    <2> QED BY <2>4, <2>5
  <1>11. CASE UNCHANGED vars
    BY <1>11 DEF vars
  <1> QED BY StepCases, <1>1, <1>2, <1>3, <1>4, <1>5, <1>6, <1>7, <1>8, <1>9, <1>10,
             <1>11 DEF Loop

(* What is reported of a container whose command executes (Container.run   *)
(* and healthcheckWorker).                                                 *)
THEOREM RunningReportCorrect == Spec => []ReportedWhenRunning
  <1>. DEFINE Inv == TypeOK /\ BootInv /\ ProcessInv /\ ExitInv /\ WorkerInv
  <1>1. Init => Inv
    <2>1. Init => ProcessInv /\ ExitInv /\ WorkerInv
      BY DEF Init, NoProcess, ProcessInv, ExitInv, WorkerInv, NoWorker, Cells, NoEvent,
         Run, NoRun
    <2> QED BY ContainerRunAssumption, TypeInit, <2>1
  <1>2. Inv /\ [Next]_vars => Inv'
    BY ContainerRunAssumption, TypeStep, ProcessStep, ExitStep, WorkerStep
  <1>3. Inv => ReportedWhenRunning
    <2> SUFFICES ASSUME Inv, process.state = "executing", Quiet, ~last.stale
                 PROVE  \/ last.startedAt = Run /\ last.exitedAt = NoRun
                        \/ config.checked /\ cell.healthy = last.healthy
                        \/ ~config.checked /\ worker[Run].pc = "ready"
      BY DEF ReportedWhenRunning
    <2>1. loop = "wait" /\ boot # "panicked"
      BY DEF ProcessInv, BootInv
    <2>2. Run \in Runs /\ worker[Run].pc \in {"ready", "done"}
      BY <2>1 DEF WorkerInv, Quiet
    <2>3. last.healthy = cell.healthy
      BY <2>1 DEF WorkerInv, Quiet
    <2> QED BY <2>1, <2>2, <2>3 DEF WorkerInv, TypeOK, Config
  <1> QED BY <1>1, <1>2, <1>3, PTL DEF Spec
================================================================================
