------------------------------ MODULE RuntimeLife ------------------------------
(***************************************************************************)
(* The runtime process of a machine (vmruntime/main.go, internal/runtime)  *)
(* and the hypervisor it starts: one launch after the other, in the same   *)
(* working directory.                                                      *)
(*                                                                         *)
(*   - main waits for the goroutine of Start or for a signal; on SIGTERM   *)
(*     it runs Stop, while Start goes on, under one limit of 30 s for all  *)
(*     its calls.                                                          *)
(*   - http.Server.Shutdown waits for the requests that are open: the      *)
(*     agent's Events stream is, as long as the agent wants it.            *)
(*   - The hypervisor outlives its runtime, and its socket file outlives   *)
(*     the hypervisor.  Start stops the hypervisor it finds there.         *)
(*   - The listener of the guest's logs dials over vsock (core/vsock); the *)
(*     dial retries a temporary error until its context ends - its         *)
(*     RetryTimeout is not used.                                           *)
(*                                                                         *)
(* External is what the hypervisor does with a call, and that it does not  *)
(* start when the path of its socket is taken.  The agent starts a runtime *)
(* when there is none.  `seen' remembers what a launch met.  OnlyOwn,      *)
(* OnlyAsked, RamfsStays and IgnoresContext are wrong forms of the         *)
(* definitions that follow them.                                           *)
(***************************************************************************)
EXTENDS Integers, FiniteSets

CONSTANTS
    MaxLaunches,   \* bound: launches of the runtime
    MaxFaults      \* bound: failing calls, dying processes

ASSUME RuntimeLifeAssumption == MaxLaunches \in Nat \ {0} /\ MaxFaults \in Nat

VARIABLES
    launch,     \* the launch that runs, or ran last
    main,       \* where main stands
    start,      \* where the goroutine of Start stands
    code,       \* the exit code
    observed,   \* the agent has a stream open
    expired,    \* Stop's context ended
    dialer,     \* the listener of the guest's logs
    vmm,        \* the hypervisor of each launch, and its machine
    socket,     \* whose socket file is there
    ramfs,      \* the initramfs is there
    seen,       \* what this launch met: a hypervisor, or the end of Stop
    faults      \* how much of MaxFaults is used up

vars == <<launch, main, start, code, observed, expired, dialer, vmm, socket, ramfs,
          seen, faults>>

Launches == 1..MaxLaunches
Nobody == 0
NoVmm == [process |-> "none", vm |-> "none"]
Alive == {g \in Launches : vmm[g].process \in {"starting", "listening"}}

Init ==
    /\ launch = 0
    /\ main = "exited" /\ start = "none" /\ code = 0
    /\ observed = FALSE /\ expired = FALSE /\ dialer = "off"
    /\ vmm = [g \in Launches |-> NoVmm]
    /\ socket = Nobody /\ ramfs = FALSE
    /\ seen = {} /\ faults = 0

Fault == faults < MaxFaults /\ faults' = faults + 1
NoFault == UNCHANGED faults

-------------------------------------------------------------------------------
(* The hypervisor.                                                         *)

(* A call gets to the owner of the socket, or finds no file (a connect     *)
(* error the code tells apart), or nobody that listens.                    *)
Missing == socket = Nobody
Answers == ~Missing /\ vmm[socket].process = "listening"

Bind(g) ==
    /\ vmm[g].process = "starting"
    /\ IF Missing
       THEN vmm' = [vmm EXCEPT ![g].process = "listening"] /\ socket' = g
       ELSE vmm' = [vmm EXCEPT ![g].process = "dead"] /\ socket' = socket
    /\ UNCHANGED <<launch, main, start, code, observed, expired, dialer, ramfs, seen,
                   faults>>

VmmDies(g) ==
    /\ g \in Alive /\ Fault
    /\ vmm' = [vmm EXCEPT ![g] = [process |-> "dead", vm |-> "none"]]
    /\ UNCHANGED <<launch, main, start, code, observed, expired, dialer, socket, ramfs,
                   seen>>

Dead(gs) ==
    [g \in Launches |-> IF g \in gs /\ vmm[g].process # "none"
                        THEN [process |-> "dead", vm |-> "none"] ELSE vmm[g]]

-------------------------------------------------------------------------------
(* main, and Start in a goroutine of its own.                              *)

Exit(c) ==
    /\ main' = "exited" /\ code' = c
    /\ start' = "none" /\ dialer' = "off" /\ observed' = FALSE /\ expired' = FALSE

Launch ==
    /\ main = "exited" /\ launch < MaxLaunches
    /\ launch' = launch + 1
    /\ main' = "select" /\ start' = "server" /\ seen' = {} /\ code' = 0
    /\ UNCHANGED <<observed, expired, dialer, vmm, socket, ramfs, faults>>

(* SIGKILL by the agent, or a crash.                                       *)
Killed ==
    /\ main # "exited"
    /\ Fault
    /\ Exit(9)
    /\ UNCHANGED <<launch, vmm, socket, ramfs, seen>>

Terminated ==
    /\ main = "select"
    /\ main' = "shutdown"
    /\ UNCHANGED <<launch, start, code, observed, expired, dialer, vmm, socket, ramfs, seen,
                   faults>>

(* The limit matters as long as Stop runs.                                 *)
TimePasses ==
    /\ main \in {"shutdown", "terminate", "force", "logs"} /\ ~expired
    /\ expired' = TRUE
    /\ UNCHANGED <<launch, main, start, code, observed, dialer, vmm, socket, ramfs, seen,
                   faults>>

(* "unserved" is a Start that fails before it has a log manager.           *)
StartReturns(err) == start' = IF err THEN "failed" ELSE "ended"

SeesReturn ==
    /\ main = "select" /\ start \in {"unserved", "failed", "ended"}
    /\ Exit(IF start = "ended" THEN 0 ELSE 1)
    /\ UNCHANGED <<launch, vmm, socket, ramfs, seen, faults>>

(* The agent opens and ends its streams; Shutdown refuses new ones.        *)
Observe ==
    /\ observed' = ~observed
    /\ observed \/ (start \notin {"none", "server"} /\ main = "select")
    /\ UNCHANGED <<launch, main, start, code, expired, dialer, vmm, socket, ramfs, seen,
                   faults>>

(* startGrpcServer, newLogManager, buildInitRamFS.                         *)
Prepare ==
    /\ \/ start = "server" /\ start' = "logManager" /\ ramfs' = ramfs /\ NoFault
       \/ start = "logManager" /\ start' = "initRamFS" /\ ramfs' = ramfs /\ NoFault
       \/ start = "initRamFS" /\ start' = "stale" /\ ramfs' = TRUE /\ NoFault
       \/ start = "server" /\ start' = "unserved" /\ ramfs' = ramfs /\ Fault
       \/ start = "initRamFS" /\ StartReturns(TRUE) /\ ramfs' = ramfs /\ Fault
    /\ UNCHANGED <<launch, main, code, observed, expired, dialer, vmm, socket, seen>>

(* stopHypervisor: any answer will do, also one that refuses; then the own *)
(* hypervisor is killed and the files go, the initramfs among them.        *)
OnlyOwn == {launch}
OnlyAsked == {socket}
Stopped == {launch, socket}

RamfsStays == ramfs
RamfsAfterStop == FALSE

StopHypervisor(late, failed) ==
    IF failed
    THEN /\ \/ late /\ NoFault
            \/ ~Missing /\ ~Answers /\ NoFault
            \/ Answers /\ Fault
         /\ UNCHANGED <<vmm, socket, ramfs>>
    ELSE /\ ~late /\ (Missing \/ Answers)
         /\ \/ vmm' = Dead(Stopped) /\ NoFault
            \/ /\ Answers
               /\ socket # launch
               /\ Fault
               /\ vmm' = [Dead({launch}) EXCEPT ![socket].process = "refusing"]
         /\ socket' = Nobody /\ ramfs' = RamfsAfterStop

(* The error of stopping the hypervisor of an earlier launch is ignored.   *)
CheckSocket ==
    /\ start = "stale"
    /\ IF Missing
       THEN start' = "spawn" /\ seen' = seen
       ELSE start' = "found" /\ seen' = seen \cup {"found"}
    /\ UNCHANGED <<launch, main, code, observed, expired, dialer, vmm, socket, ramfs,
                   faults>>

StopFound ==
    /\ start = "found" /\ start' = "spawn"
    /\ \E failed \in BOOLEAN : StopHypervisor(FALSE, failed)
    /\ UNCHANGED <<launch, main, code, observed, expired, dialer, seen>>

(* Late: Stop is past the hypervisors.                                     *)
StartHypervisor ==
    /\ start = "spawn"
    /\ \/ /\ start' = "ping" /\ vmm' = [vmm EXCEPT ![launch].process = "starting"]
          /\ seen' = IF main = "logs" THEN seen \cup {"late"} ELSE seen
          /\ faults' = faults
       \/ Fault /\ StartReturns(TRUE) /\ UNCHANGED <<vmm, seen>>
    /\ UNCHANGED <<launch, main, code, observed, expired, dialer, socket, ramfs>>

(* Ten pings, 100 microseconds apart: a hypervisor may well be slower.     *)
Ping ==
    /\ start = "ping"
    /\ \/ /\ Answers /\ start' = "create"
          /\ UNCHANGED <<vmm, socket>>
       \/ /\ ~Answers /\ StartReturns(TRUE)
          /\ vmm' = Dead({launch}) /\ socket' = Nobody
    /\ UNCHANGED <<launch, main, code, observed, expired, dialer, ramfs, seen,
                   faults>>

(* createVM takes any answer; bootVM wants "no content".                   *)
CreateVM ==
    /\ start = "create"
    /\ IF Answers
       THEN /\ start' = "boot"
            /\ vmm' = [vmm EXCEPT ![socket].vm = IF @ = "none" THEN "created" ELSE @]
       ELSE StartReturns(TRUE) /\ vmm' = vmm
    /\ UNCHANGED <<launch, main, code, observed, expired, dialer, socket, ramfs, seen,
                   faults>>

BootVM ==
    /\ start = "boot"
    /\ IF Answers /\ vmm[socket].vm = "created" /\ ramfs
       THEN /\ start' = "wait" /\ dialer' = "dialing"
            /\ vmm' = [vmm EXCEPT ![socket].vm = "running"]
       ELSE StartReturns(TRUE) /\ UNCHANGED <<vmm, dialer>>
    /\ UNCHANGED <<launch, main, code, observed, expired, socket, ramfs, seen, faults>>

WaitHypervisor ==
    /\ start = "wait" /\ launch \notin Alive
    /\ \E err \in BOOLEAN : StartReturns(err)
    /\ UNCHANGED <<launch, main, code, observed, expired, dialer, vmm, socket, ramfs,
                   seen, faults>>

-------------------------------------------------------------------------------
(* ListenInitLogs and vsock.Dial: a dial that fails for good, or a stream  *)
(* that ends, is followed by the next; one that is not acknowledged is     *)
(* retried.  The context of them all is cancelled in logManager.Stop; the  *)
(* listener of the serial console ends with the machine.                   *)

IgnoresContext == dialer = "streaming"
MayCancel == dialer \in {"dialing", "streaming"}

Dial ==
    /\ \/ dialer = "dialing" /\ Answers /\ vmm[socket].vm = "running"
          /\ dialer' = "streaming"
       \/ dialer = "streaming" /\ dialer' = "dialing"
    /\ main # "logs"
    /\ UNCHANGED <<launch, main, start, code, observed, expired, vmm, socket, ramfs,
                   seen, faults>>

DialerStops ==
    /\ main = "logs" /\ MayCancel
    /\ dialer' = "done"
    /\ UNCHANGED <<launch, main, start, code, observed, expired, vmm, socket, ramfs,
                   seen, faults>>

-------------------------------------------------------------------------------
(* Stop.                                                                   *)

GoOn(m) == main' = m /\ UNCHANGED <<start, code, observed, expired, dialer>>

(* Shutdown waits for open streams or for the limit, and its error is      *)
(* ignored; without a server there is nothing to wait for.                 *)
ShutdownServer ==
    /\ main = "shutdown"
    /\ ~observed \/ expired
    /\ GoOn("terminate")
    /\ UNCHANGED <<launch, vmm, socket, ramfs, seen, faults>>

(* terminateVM: the machine is shut down, then deleted.                    *)
TerminateVM ==
    /\ main = "terminate"
    /\ \/ /\ Answers /\ ~expired
          /\ vmm' = [vmm EXCEPT ![socket].vm = "none"]
          /\ GoOn("force") /\ NoFault
       \/ /\ \/ ~Answers /\ NoFault
             \/ expired /\ NoFault
             \/ Answers /\ Fault
          /\ Exit(1) /\ vmm' = vmm
    /\ UNCHANGED <<launch, socket, ramfs, seen>>

(* ForceStop; there is no log manager if Start has not got to it, and      *)
(* stopHypervisor panics at its end.                                       *)
ForceStop ==
    /\ main = "force"
    /\ \E failed \in BOOLEAN :
         /\ StopHypervisor(expired, failed)
         /\ IF failed THEN Exit(1)
            ELSE IF start \in {"server", "unserved", "logManager"} THEN Exit(2)
            ELSE GoOn("logs")
    /\ UNCHANGED <<launch, seen>>

StopLogs ==
    /\ main = "logs" /\ dialer \in {"off", "done"}
    /\ Exit(0)
    /\ UNCHANGED <<launch, vmm, socket, ramfs, seen, faults>>

-------------------------------------------------------------------------------
Starts == \/ Prepare \/ CheckSocket \/ StopFound \/ StartHypervisor \/ Ping
          \/ CreateVM \/ BootVM \/ WaitHypervisor
Main == SeesReturn \/ ShutdownServer \/ TerminateVM \/ ForceStop \/ StopLogs

Next ==
    \/ Launch \/ Killed \/ Terminated \/ TimePasses \/ Observe
    \/ Starts \/ Main \/ Dial \/ DialerStops
    \/ \E g \in Launches : Bind(g) \/ VmmDies(g)

Spec == Init /\ [][Next]_vars

(* The goroutines run on, and time passes.  Nothing else has to happen.    *)
FairSpec ==
    /\ Spec
    /\ WF_vars(Main) /\ WF_vars(DialerStops) /\ WF_vars(TimePasses)

-------------------------------------------------------------------------------
(* Properties.                                                             *)

(* Every variable keeps to its type.                                       *)
TypeOK ==
    /\ launch \in 0..MaxLaunches
    /\ main \in {"exited", "select", "shutdown", "terminate", "force", "logs"}
    /\ start \in {"none", "server", "logManager", "initRamFS", "stale", "found", "spawn",
                  "ping", "create", "boot", "wait", "unserved", "failed", "ended"}
    /\ code \in {0, 1, 2, 9}
    /\ observed \in BOOLEAN /\ expired \in BOOLEAN
    /\ dialer \in {"off", "dialing", "streaming", "done"}
    /\ vmm \in [Launches -> [process : {"none", "starting", "listening", "refusing",
                                        "dead"},
                             vm : {"none", "created", "running"}]]
    /\ socket \in 0..MaxLaunches /\ ramfs \in BOOLEAN
    /\ seen \subseteq {"found", "late"}
    /\ faults \in Nat

(* No two machines run on the same volumes, except next to a hypervisor    *)
(* that answered that it does not stop.                                    *)
OneMachine ==
    Cardinality({g \in Alive : vmm[g].vm = "running"}) <= 1

(* A shutdown that is reported completed leaves no hypervisor of its own - *)
(* but one that Start started after Stop had been content to stop the      *)
(* hypervisor of an earlier launch.                                        *)
GracefulMeansStopped ==
    main = "exited" /\ code = 0 /\ launch \in Alive => "late" \in seen /\ launch > 1

(* A launch that found a hypervisor in its place never gets its machine to *)
(* run: stopping that one takes the initramfs away.                        *)
FoundNeverRuns ==
    main # "exited" /\ "found" \in seen => vmm[launch].vm # "running"

(* A runtime that is told to stop exits, be it observed, dialing or        *)
(* waiting for its guest.                                                  *)
StopEnds == main = "shutdown" ~> main = "exited"
================================================================================
