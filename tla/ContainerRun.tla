------------------------------ MODULE ContainerRun ------------------------------
(***************************************************************************)
(* The guest: init boots (init/main.go, bootstrap), starts a container and *)
(* runs its command again and again (containerservice); each run is an     *)
(* /initcontainer process (initcontainer) that prepares the container's    *)
(* file system and executes the command.                                   *)
(*                                                                         *)
(*   - The run loop and the health workers share cells: atomics, each      *)
(*     written and read by itself.  An event is a copy of the cells,       *)
(*     loaded in two parts, then published.                                *)
(*   - Each run has a health worker of its own.  It is cancelled, not      *)
(*     awaited: it may outlive its run and speak of the next one.          *)
(*   - A check without a specification to check succeeds; one that has it   *)
(*     may succeed or fail.                                                *)
(*   - A root directory that exists means to initcontainer that the file   *)
(*     system is set up, mounts and chroot alike.                          *)
(*                                                                         *)
(* One container: containers of a guest share nothing here.  `last' is the *)
(* last event published (eventbus: see InitEvents for its way out).        *)
(* ClearsNothing, ReportsFirst, SuccessAgain and AlreadyThere are wrong    *)
(* forms of the definitions that follow them.                              *)
(***************************************************************************)
EXTENDS Integers

CONSTANTS
    MaxRuns,     \* bound: runs of the container
    MaxRetries   \* bound: the retry limits a configuration may have

ASSUME ContainerRunAssumption == MaxRuns \in Nat \ {0} /\ MaxRetries \in Nat

VARIABLES
    boot,      \* how far init is
    config,    \* the container's configuration
    loop,      \* where Container.run stands
    cell,      \* the fields of Container
    process,   \* the initcontainer process and what it left behind
    worker,    \* the health worker of each run
    copy,      \* the event each goroutine is putting together
    last       \* the last event published

vars == <<boot, config, loop, cell, process, worker, copy, last>>

Runs == 1..MaxRuns
Nobody == 0                  \* the run loop, among the goroutines that publish
Publisher == {Nobody} \cup Runs
NoCode == -1                 \* no process state, or killed by a signal
NoRun == 0

(* A container without a restart specification has the policy "no"; one    *)
(* that is not known works like "always".                                  *)
Config == {c \in [policy : {"no", "on_failure", "always"}, retries : 0..MaxRetries,
                  checked : BOOLEAN] :
             c.policy # "on_failure" => c.retries = 0}

NoProcess == [state |-> "none", inside |-> FALSE, madeBy |-> NoRun, code |-> NoCode]
NoWorker == [pc |-> "none", cancelled |-> FALSE, result |-> FALSE]
Cells == [startedAt |-> NoRun, exitedAt |-> NoRun, error |-> "none", code |-> NoCode,
          healthy |-> FALSE, restarts |-> 0]
NoEvent == [startedAt |-> NoRun, exitedAt |-> NoRun, error |-> "none",
            code |-> NoCode, healthy |-> FALSE, restarts |-> 0, stale |-> FALSE]

Init ==
    /\ boot = "fs"
    /\ config \in Config
    /\ loop = "off"
    /\ cell = Cells
    /\ process = NoProcess
    /\ worker = [r \in Runs |-> NoWorker]
    /\ copy = [p \in Publisher |-> NoEvent]
    /\ last = NoEvent

-------------------------------------------------------------------------------
(* main: a step that fails panics, and the guest dies with its first       *)
(* process.  Containers start before the server listens.                   *)

AfterBoot(phase) ==
    CASE phase = "fs" -> "network" [] phase = "network" -> "logs"
      [] phase = "logs" -> "containers" [] phase = "containers" -> "server"

Boot ==
    /\ boot \in {"fs", "network", "logs", "containers"}
    /\ boot' = AfterBoot(boot)
    /\ loop' = IF boot = "containers" THEN "begin" ELSE loop
    /\ UNCHANGED <<config, cell, process, worker, copy, last>>

Panic ==
    /\ boot' = "panicked"
    /\ loop' = "off" /\ cell' = Cells /\ process' = NoProcess
    /\ worker' = [r \in Runs |-> NoWorker]
    /\ copy' = [p \in Publisher |-> NoEvent]
    /\ UNCHANGED <<config, last>>

-------------------------------------------------------------------------------
(* Container.run.                                                          *)

Goto(pc) == loop' = pc
Run == cell.startedAt

Begin ==
    /\ loop = "begin" /\ Run < MaxRuns
    /\ Goto("clear")
    /\ cell' = [cell EXCEPT !.error = "none", !.startedAt = @ + 1]
    /\ UNCHANGED <<boot, config, process, worker, copy, last>>

ClearsNothing == cell' = [cell EXCEPT !.code = NoCode]
ClearExit == cell' = [cell EXCEPT !.exitedAt = NoRun, !.code = NoCode]

Clear ==
    /\ loop = "clear"
    /\ Goto("start")
    /\ ClearExit
    /\ UNCHANGED <<boot, config, process, worker, copy, last>>

(* A process that cannot be started has an error but no exit.              *)
StartFails ==
    /\ loop = "start"
    /\ Goto("load")
    /\ cell' = [cell EXCEPT !.error = "start"]
    /\ UNCHANGED <<boot, config, process, worker, copy, last>>

StartCmd ==
    /\ loop = "start"
    /\ Goto("wait")
    /\ process' = [process EXCEPT !.state = "started", !.inside = FALSE]
    /\ worker' = [worker EXCEPT ![Run].pc = "ready"]
    /\ UNCHANGED <<boot, config, cell, copy, last>>

(* cmd.Wait has set the process state; the cells follow.                   *)
ReportsFirst == Goto("load") /\ cell' = [cell EXCEPT !.code = process.code]
Waited ==
    /\ Goto("exited")
    /\ cell' = [cell EXCEPT !.code = process.code,
                            !.error = IF process.code = 0 THEN "none" ELSE "exit"]

Wait ==
    /\ loop = "wait" /\ process.state = "exited"
    /\ Waited
    /\ process' = [process EXCEPT !.state = "none"]
    /\ UNCHANGED <<boot, config, worker, copy, last>>

StoreExit ==
    /\ loop = "exited"
    /\ Goto("load")
    /\ cell' = [cell EXCEPT !.exitedAt = Run]
    /\ worker' = [worker EXCEPT ![Run].cancelled = TRUE]
    /\ UNCHANGED <<boot, config, process, copy, last>>

(* "on_failure" stops at success and at its limit, if that is not 0.       *)
RetriesExhausted == config.retries > 0 /\ cell.restarts >= config.retries

SuccessAgain ==
    config.policy = "no" \/ (config.policy = "on_failure" /\ RetriesExhausted)
IsOver ==
    \/ config.policy = "no"
    \/ config.policy = "on_failure" /\ (cell.code = 0 \/ RetriesExhausted)

Count == cell' = IF IsOver THEN cell ELSE [cell EXCEPT !.restarts = @ + 1]

Decide ==
    /\ loop = "decide"
    /\ Goto(IF IsOver THEN "stopped" ELSE "begin")
    /\ Count
    /\ UNCHANGED <<boot, config, process, worker, copy, last>>

-------------------------------------------------------------------------------
(* initcontainer.                                                          *)

(* The root directory, kept with the run that made it, is made first: what *)
(* fails after it is not tried again, the next run takes the file system   *)
(* as set up and stays in init's.                                          *)
AlreadyThere == process.madeBy # NoRun
NeedsSetup == process.madeBy = NoRun

Exits(code) == process' = [process EXCEPT !.state = "exited", !.code = code]

SetupFilesystem(ok) ==
    /\ process.state = "started" /\ NeedsSetup
    /\ \/ /\ ok
          /\ process' = [process EXCEPT !.state = "ready", !.madeBy = Run,
                                        !.inside = TRUE]
       \/ /\ ~ok
          /\ \E made \in {NoRun, Run} :
               process' = [process EXCEPT !.state = "exited", !.code = 2,
                                          !.madeBy = made]
    /\ UNCHANGED <<boot, config, loop, cell, worker, copy, last>>

FindsDirectory ==
    /\ process.state = "started" /\ ~NeedsSetup
    /\ process' = [process EXCEPT !.state = "ready"]
    /\ UNCHANGED <<boot, config, loop, cell, worker, copy, last>>

(* Host name and files, working directory, user, then the command.  Any of *)
(* them that fails is a panic of initcontainer, whatever the command's own *)
(* code: 2.                                                                *)
Execute ==
    /\ process.state = "ready"
    /\ \/ process' = [process EXCEPT !.state = "executing"]
       \/ Exits(2)
    /\ UNCHANGED <<boot, config, loop, cell, worker, copy, last>>

CommandReturns ==
    /\ process.state = "executing"
    /\ \E code \in {0, 2, NoCode} : Exits(code)
    /\ UNCHANGED <<boot, config, loop, cell, worker, copy, last>>

-------------------------------------------------------------------------------
(* healthcheckWorker: without a health check it says healthy, once, and    *)
(* looks at no context.  With one the timer may win over the context, and  *)
(* a check in flight when the context ends fails.                          *)

SayHealthy(r) ==
    /\ worker[r].pc = "ready" /\ ~config.checked
    /\ cell' = [cell EXCEPT !.healthy = TRUE]
    /\ worker' = [worker EXCEPT ![r].pc = "load"]
    /\ UNCHANGED <<boot, config, loop, process, copy, last>>

ContextDone(r) ==
    /\ worker[r].pc = "ready" /\ config.checked /\ worker[r].cancelled
    /\ worker' = [worker EXCEPT ![r].pc = "done"]
    /\ UNCHANGED <<boot, config, loop, cell, process, copy, last>>

PerformHealthcheck(r) ==
    /\ worker[r].pc = "ready" /\ config.checked
    /\ \E healthy \in IF worker[r].cancelled THEN {FALSE} ELSE BOOLEAN :
         worker' = [worker EXCEPT ![r].pc = "checked", ![r].result = healthy]
    /\ UNCHANGED <<boot, config, loop, cell, process, copy, last>>

SwapHealthy(r) ==
    /\ worker[r].pc = "checked"
    /\ cell' = [cell EXCEPT !.healthy = worker[r].result]
    /\ worker' = [worker EXCEPT ![r].pc =
                    IF cell.healthy # worker[r].result THEN "load" ELSE "ready"]
    /\ UNCHANGED <<boot, config, loop, process, copy, last>>

-------------------------------------------------------------------------------
(* newContainerStateChangedEvent and PublishEvent, in three steps.         *)

Publishing(p, pc) == IF p = Nobody THEN loop = pc ELSE worker[p].pc = pc
Advance(p, pc) ==
    IF p = Nobody THEN loop' = (IF pc = "end" THEN "decide" ELSE pc) /\ worker' = worker
    ELSE /\ worker' = [worker EXCEPT ![p].pc =
              IF pc # "end" THEN pc ELSE IF ~config.checked THEN "done"
                                         ELSE "ready"]
         /\ loop' = loop

LoadStart(p) ==
    /\ Publishing(p, "load")
    /\ Advance(p, "half")
    /\ copy' = [copy EXCEPT ![p].healthy = cell.healthy, ![p].restarts = cell.restarts,
                            ![p].startedAt = cell.startedAt]
    /\ UNCHANGED <<boot, config, cell, process, last>>

LoadExit(p) ==
    /\ Publishing(p, "half")
    /\ Advance(p, "send")
    /\ copy' = [copy EXCEPT ![p].exitedAt = cell.exitedAt, ![p].error = cell.error,
                            ![p].code = cell.code]
    /\ UNCHANGED <<boot, config, cell, process, last>>

(* Stale: a cell has changed since it was loaded.                          *)
Current == [f \in DOMAIN NoEvent |-> IF f = "stale" THEN FALSE ELSE cell[f]]

Publish(p) ==
    /\ Publishing(p, "send")
    /\ Advance(p, "end")
    /\ last' = [copy[p] EXCEPT !.stale = (copy[p] # Current)]
    /\ copy' = [copy EXCEPT ![p] = NoEvent]
    /\ UNCHANGED <<boot, config, cell, process>>

-------------------------------------------------------------------------------
Next ==
    /\ boot # "panicked"
    /\ \/ Boot \/ Panic \/ \E ok \in BOOLEAN : SetupFilesystem(ok)
       \/ Begin \/ Clear \/ StartFails \/ StartCmd \/ Wait \/ StoreExit \/ Decide
       \/ FindsDirectory \/ Execute \/ CommandReturns
       \/ \E r \in Runs : \/ SayHealthy(r) \/ ContextDone(r)
                          \/ PerformHealthcheck(r) \/ SwapHealthy(r)
       \/ \E p \in Publisher : LoadStart(p) \/ LoadExit(p) \/ Publish(p)

Spec == Init /\ [][Next]_vars

-------------------------------------------------------------------------------
(* Properties.                                                             *)

Stamp == {NoRun} \cup Runs
Code == {NoCode, 0, 2}
Fields == [startedAt : Stamp, exitedAt : Stamp, error : {"none", "start", "exit"},
           code : Code, healthy : BOOLEAN, restarts : 0..MaxRuns]
Event == [startedAt : Stamp, exitedAt : Stamp, error : {"none", "start", "exit"},
          code : Code, healthy : BOOLEAN, restarts : 0..MaxRuns, stale : BOOLEAN]

(* Every variable keeps to its type, and each run but the first is counted *)
(* as a restart.                                                           *)
TypeOK ==
    /\ boot \in {"fs", "network", "logs", "containers", "server", "panicked"}
    /\ config \in Config
    /\ loop \in {"off", "begin", "clear", "start", "wait", "exited", "load", "half",
                 "send", "decide", "stopped"}
    /\ cell \in Fields
    /\ cell.startedAt = cell.restarts + IF loop \in {"off", "begin"} THEN 0 ELSE 1
    /\ process \in [state : {"none", "started", "ready", "executing", "exited"},
                    inside : BOOLEAN, madeBy : Stamp, code : Code]
    /\ worker \in [Runs -> [pc : {"none", "ready", "checked", "load", "half", "send",
                                  "done"},
                            cancelled : BOOLEAN, result : BOOLEAN]]
    /\ copy \in [Publisher -> Event]
    /\ last \in Event

Quiet == \A r \in Runs : worker[r].pc \in {"none", "ready", "done"}

(* A container that has stopped was last reported exited, with the code of *)
(* its last run - unless the last event had been overtaken, or the process *)
(* could not be started: that one is reported running, with an error, for  *)
(* ever.                                                                   *)
ReportedWhenStopped ==
    loop = "stopped" /\ ~last.stale
      => \/ last.exitedAt = Run /\ last.code = cell.code
         \/ last.error = "start" /\ last.exitedAt = NoRun

(* A command that executes was reported running in this run, once nothing  *)
(* is left to publish, unless it has a health check: a restart that finds  *)
(* the health it had before publishes nothing.                             *)
ReportedWhenRunning ==
    process.state = "executing" /\ Quiet /\ ~last.stale
      => \/ last.startedAt = Run /\ last.exitedAt = NoRun
         \/ config.checked /\ cell.healthy = last.healthy
         \/ ~config.checked /\ worker[Run].pc = "ready"

(* "on_failure" runs a container again after a failure only, at most as    *)
(* often as it says, and gives up for no other reason than a success or    *)
(* its limit; "always" never gives up, and a container that is not         *)
(* restarted runs once (Container.run).                                    *)
RestartsAsConfigured ==
    /\ config.policy = "no" => cell.restarts = 0
    /\ config.policy = "on_failure" /\ config.retries > 0
       => cell.restarts <= config.retries
    /\ config.policy = "on_failure" /\ loop = "begin" /\ cell.restarts > 0
       => cell.code # 0
    /\ config.policy = "on_failure" /\ loop = "stopped"
       => cell.code = 0 \/ (config.retries > 0 /\ cell.restarts = config.retries)
    /\ config.policy = "always" => loop # "stopped"

(* A command executes within its container's volume in the run that made   *)
(* the root directory, and in no other: a run after it, be it a restart of *)
(* a command that ran well or the one after a setup that failed half-way,  *)
(* finds the directory and executes in init's own root (initcontainer's    *)
(* Start).                                                                 *)
ConfinedOnce ==
    process.state = "executing"
      => process.madeBy # NoRun /\ (process.inside <=> process.madeBy = Run)
================================================================================
