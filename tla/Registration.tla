------------------------------ MODULE Registration ------------------------------
(***************************************************************************)
(* The node's connection to the control plane (nodeagent/internal/         *)
(* registrationservice) and what it needs of the machine service: the      *)
(* worker that opens one connection after the other, registers, subscribes *)
(* to machine events, brings the machines in line with what the control    *)
(* plane expects, and then dispatches what it is sent.                     *)
(*                                                                         *)
(*   - Events of machines are stored, then published on a bus; its handler *)
(*     starts a goroutine per event, which looks at the connection's       *)
(*     context and then sends on a channel without buffer; a forwarder     *)
(*     takes the events from there and sends them on the stream.           *)
(*   - When the context ends a third goroutine closes that channel: a      *)
(*     goroutine that still waits to send on it panics.                    *)
(*   - A receiver hands the control plane's messages to the dispatch loop. *)
(*     At EOF it closes their channel, and the loop dereferences the nil   *)
(*     event it then reads.  Other errors it retries for ever: a broken    *)
(*     stream is noticed by the next report of statistics.                 *)
(*   - A machine is its controller's life as this code sees it: it reaches *)
(*     `running' or `terminated', each an event.                           *)
(*                                                                         *)
(* The control plane is external: it expects a machine until it heard that *)
(* it terminated, or gave it up while the node was away, and answers a     *)
(* registration with what it expects.  A sender may not notice that its    *)
(* stream is broken.  SubscribedLast, ExpectedAnyway, NothingReplayed and  *)
(* NoFakeTermination are wrong forms of the definitions that follow them.  *)
(***************************************************************************)
EXTENDS Integers, Sequences, FiniteSets

CONSTANTS
    Machines,      \* machines the control plane may place on this node
    Connections,   \* bound: connections whose goroutines may linger at once
    MaxFaults,     \* bound: broken streams, failing calls, crashes
    None           \* no connection, no machine

ASSUME RegistrationAssumption ==
    /\ None \notin Connections \cup Machines
    /\ None \notin [machine : Machines, desired : {"running", "terminated"}]
    /\ MaxFaults \in Nat

VARIABLES
    want,      \* control plane: what it expects of each machine
    heard,     \* control plane: the events it received
    machine,   \* rows and controllers of the node
    evt,       \* how far each event of a machine got
    conn,      \* connections with their goroutines
    worker,    \* the registration worker
    panicked,  \* the agent died of a panic
    faults     \* how much of MaxFaults is used up

vars == <<want, heard, machine, evt, conn, worker, panicked, faults>>

Event == Machines \X {"running", "terminated"}
EventsOf(m) == {e \in Event : e[1] = m}
Stored(e) == evt[e] \in {"published", "dispatched"}   \* a row of machine_events

NoMachine == [row |-> "absent", controller |-> FALSE, state |-> "pending",
              desired |-> "none", asked |-> {}]
NoConnection == [link |-> "none", cancelled |-> FALSE, channel |-> "none",
                 checking |-> {}, waiting |-> {}, inbox |-> <<>>,
                 receiver |-> "none", holding |-> None]
IdleWorker == [pc |-> "idle", conn |-> None, specs |-> [m \in Machines |-> "none"],
               todo |-> {}, at |-> None, found |-> FALSE, expected |-> {},
               synced |-> {}]

Init ==
    /\ want = [m \in Machines |-> "none"]
    /\ heard = {}
    /\ machine = [m \in Machines |-> NoMachine]
    /\ evt = [e \in Event |-> "none"]
    /\ conn = [c \in Connections |-> NoConnection]
    /\ worker = IdleWorker
    /\ panicked = FALSE
    /\ faults = 0

CanFail == faults < MaxFaults
Charge(failed) == faults' = faults + IF failed THEN 1 ELSE 0

-------------------------------------------------------------------------------
(* The control plane.                                                      *)

Registered(c) == conn[c].receiver # "none" \/ (worker.conn = c /\ worker.pc # "register")
Tell(message) ==
    conn' = [c \in Connections |->
               IF Registered(c) /\ conn[c].link = "open"
               THEN [conn[c] EXCEPT !.inbox = Append(@, message)] ELSE conn[c]]

Wants(m) ==
    /\ \/ want[m] = "none" /\ want' = [want EXCEPT ![m] = "running"]
       \/ want[m] = "running" /\ want' = [want EXCEPT ![m] = "terminated"]
    /\ Tell([machine |-> m, desired |-> want'[m]])
    /\ UNCHANGED <<heard, machine, evt, worker, panicked, faults>>

(* It may give up a machine of a node it has no stream with.               *)
Abandons(m) ==
    /\ want[m] = "running"
    /\ ~\E c \in Connections : Registered(c) /\ conn[c].link = "open"
    /\ want' = [want EXCEPT ![m] = "done"]
    /\ UNCHANGED <<heard, machine, evt, conn, worker, panicked, faults>>

(* It hears events, and no longer expects a machine that terminated.       *)
Hears(events) ==
    /\ heard' = heard \cup events
    /\ want' = [m \in Machines |->
                  IF <<m, "terminated">> \in events THEN "done" ELSE want[m]]

(* The stream breaks, or the control plane ends it in good order.          *)
StreamEnds(c) ==
    /\ conn[c].link = "open" /\ CanFail
    /\ Charge(TRUE)
    /\ \E how \in {"broken", "eof"} : conn' = [conn EXCEPT ![c].link = how]
    /\ UNCHANGED <<want, heard, machine, evt, worker, panicked>>

(* Send: what is sent on an open stream arrives.                           *)
Send(c, events, ok) ==
    /\ ok \/ conn[c].link # "open"
    /\ IF conn[c].link = "open" THEN Hears(events) ELSE UNCHANGED <<want, heard>>

-------------------------------------------------------------------------------
(* The machine service.                                                    *)

(* Create: a machine id has one row for ever, and its controller starts.   *)
Create(m, d, ok) ==
    /\ ok => machine[m].row = "absent"
    /\ ~ok => machine[m].row # "absent" \/ CanFail
    /\ Charge(~ok /\ machine[m].row = "absent")
    /\ machine' = IF ok THEN [machine EXCEPT ![m] =
                         [NoMachine EXCEPT !.row = "live", !.controller = TRUE,
                                           !.desired = d]]
                  ELSE machine

(* UpdateDesiredState: a message to the controller, if there is one.       *)
UpdateDesiredState(ms, d) ==
    machine' = [m \in Machines |->
                  IF m \in ms /\ machine[m].controller
                  THEN [machine[m] EXCEPT !.asked = @ \cup {d}] ELSE machine[m]]

DesiredStateChanged(m, d) ==
    /\ machine[m].controller /\ d \in machine[m].asked
    /\ machine' = [machine EXCEPT ![m].desired = d, ![m].asked = @ \ {d}]
    /\ UNCHANGED <<want, heard, evt, conn, worker, panicked, faults>>

(* The row is saved and the message is on its way to the storage handler.  *)
StateChanged(m, s) ==
    /\ machine[m].controller
    /\ machine[m].desired = s /\ machine[m].state # s
    /\ machine[m].state # "terminated"
    /\ machine' = [machine EXCEPT ![m].state = s,
                     ![m].row = IF s = "terminated" THEN "terminated" ELSE @]
    /\ evt' = [evt EXCEPT ![<<m, s>>] = IF @ = "none" THEN "emitted" ELSE @]
    /\ UNCHANGED <<want, heard, conn, worker, panicked, faults>>

(* handleMachineTerminated stops the controller and takes it out.          *)
Retire(m) ==
    /\ machine[m].controller /\ machine[m].state = "terminated"
    /\ machine' = [machine EXCEPT ![m].controller = FALSE, ![m].asked = {}]
    /\ UNCHANGED <<want, heard, evt, conn, worker, panicked, faults>>

(* handleMachineEventsStorage: an event that cannot be stored, or whose    *)
(* message was dispatched before the handler was subscribed, is dropped.   *)
StoreEvent(e) ==
    /\ evt[e] = "emitted"
    /\ \/ evt' = [evt EXCEPT ![e] = "published"] /\ faults' = faults
       \/ evt' = [evt EXCEPT ![e] = "dropped"] /\ CanFail /\ Charge(TRUE)
    /\ UNCHANGED <<want, heard, machine, conn, worker, panicked>>

(* The bus starts a goroutine per subscriber (SubscribeToEvents).          *)
DispatchEvent(e) ==
    /\ evt[e] = "published"
    /\ evt' = [evt EXCEPT ![e] = "dispatched"]
    /\ conn' = [c \in Connections |->
                  IF conn[c].channel = "open"
                  THEN [conn[c] EXCEPT !.checking = @ \cup {e}] ELSE conn[c]]
    /\ UNCHANGED <<want, heard, machine, worker, panicked, faults>>

CheckContext(c, e) ==
    /\ e \in conn[c].checking
    /\ conn' = [conn EXCEPT ![c].checking = @ \ {e},
                  ![c].waiting = IF conn[c].cancelled THEN @ ELSE @ \cup {e}]
    /\ UNCHANGED <<want, heard, machine, evt, worker, panicked, faults>>

(* startMachineEventListener's goroutine logs a failed send and goes on.   *)
Forward(c, e) ==
    /\ conn[c].channel = "open" /\ e \in conn[c].waiting
    /\ conn' = [conn EXCEPT ![c].waiting = @ \ {e}]
    /\ \E ok \in BOOLEAN : Send(c, {e}, ok)
    /\ UNCHANGED <<machine, evt, worker, panicked, faults>>

CloseChannel(c) ==
    /\ conn[c].cancelled /\ conn[c].channel = "open"
    /\ conn' = [conn EXCEPT ![c].channel = "closed"]
    /\ panicked' = (conn[c].waiting # {})
    /\ UNCHANGED <<want, heard, machine, evt, worker, faults>>

-------------------------------------------------------------------------------
(* The worker: openConnection.                                             *)

At(pc) == worker.pc = pc
Current == worker.conn
Lingers(c) == conn[c].channel = "open" \/ conn[c].checking # {}

(* What follows each step; a machine is synchronised in three of them.     *)
SubscribedLast(pc) ==
    CASE pc = "register" -> "sync" [] pc = "sync" -> "subscribe"
      [] pc = "subscribe" -> "loop" [] OTHER -> "sync"
Following(pc) ==
    CASE pc = "register" -> "subscribe" [] pc = "subscribe" -> "sync"
      [] pc = "sync" -> "loop" [] OTHER -> "sync"
Proceed == worker' = [worker EXCEPT !.pc = Following(worker.pc)]

(* An error, or a step of it: cancelConn ends the context; the receiver    *)
(* stays behind, blocked or retrying, and is never read again.             *)
ConnectionFails ==
    /\ worker' = IdleWorker
    /\ conn' = [conn EXCEPT ![Current].cancelled = TRUE, ![Current].link = "broken",
                  ![Current].receiver = "none", ![Current].holding = None,
                  ![Current].inbox = <<>>]

OpenConnection(c) ==
    /\ At("idle") /\ ~Lingers(c)
    /\ conn' = [conn EXCEPT ![c] = [NoConnection EXCEPT !.link = "open"]]
    /\ worker' = [IdleWorker EXCEPT !.pc = "register", !.conn = c]
    /\ UNCHANGED <<want, heard, machine, evt, panicked, faults>>

(* sendRegistrationEvent: the answer carries the expected machines; its    *)
(* certificates and the token are stored before anything else is done.     *)
Register ==
    /\ At("register")
    /\ \/ /\ conn[Current].link = "open"
          /\ worker' = [worker EXCEPT
               !.pc = Following("register"), !.specs = want,
               !.todo = {m \in Machines : want[m] \in {"running", "terminated"}}]
          /\ UNCHANGED <<conn, faults>>
       \/ /\ conn[Current].link # "open" \/ CanFail
          /\ Charge(conn[Current].link = "open")
          /\ ConnectionFails
    /\ UNCHANGED <<want, heard, machine, evt, panicked>>

SubscribeToEvents ==
    /\ At("subscribe")
    /\ conn' = [conn EXCEPT ![Current].channel = "open",
                  ![Current].receiver = IF Following("subscribe") = "loop"
                                        THEN "receiving" ELSE @]
    /\ Proceed
    /\ UNCHANGED <<want, heard, machine, evt, panicked, faults>>

(* syncMachineFromSpec: found, created, or neither because it is not to be.*)
SyncMachine(m) ==
    /\ At("sync") /\ m \in worker.todo
    /\ LET d == worker.specs[m]
           found == machine[m].controller
           go(pc, isNil) == worker' = [worker EXCEPT !.pc = pc, !.at = m,
                                                     !.found = ~isNil]
       IN \/ /\ found \/ d = "terminated"
             /\ go(IF found /\ machine[m].desired # d THEN "update" ELSE "replay",
                   ~found)
             /\ UNCHANGED <<machine, conn, faults>>
          \/ /\ ~found /\ d # "terminated"
             /\ \E ok \in BOOLEAN :
                  /\ Create(m, d, ok)
                  /\ IF ok THEN go("replay", FALSE) /\ UNCHANGED conn
                     ELSE ConnectionFails
    /\ UNCHANGED <<want, heard, evt, panicked>>

(* The controller may have been taken out meanwhile.                       *)
UpdateFound ==
    /\ At("update")
    /\ UpdateDesiredState({worker.at}, worker.specs[worker.at])
    /\ IF machine[worker.at].controller
       THEN worker' = [worker EXCEPT !.pc = "replay"] /\ UNCHANGED conn
       ELSE ConnectionFails
    /\ UNCHANGED <<want, heard, evt, panicked, faults>>

(* ListEvents, and a Send for each: a stream that breaks between two of    *)
(* them is one that breaks before the first, and is told again later.      *)
NothingReplayed(m) == {}
PreviousEvents(m) == {e \in EventsOf(m) : Stored(e)}

NoFakeTermination(m) == {}
FakeTermination(m) == IF worker.found THEN {} ELSE {<<m, "terminated">>}

ReplayEvents ==
    /\ At("replay")
    /\ LET m == worker.at
       IN \E ok \in BOOLEAN :
            /\ Send(Current, PreviousEvents(m) \cup FakeTermination(m), ok)
            /\ IF ~ok THEN ConnectionFails
               ELSE /\ worker' = [worker EXCEPT
                         !.pc = Following("replay"), !.todo = @ \ {m}, !.at = None,
                         !.found = FALSE, !.synced = @ \cup {m},
                         !.expected = @ \cup IF worker.found THEN {m} ELSE {}]
                    /\ UNCHANGED conn
    /\ UNCHANGED <<machine, evt, panicked, faults>>

(* Machines nobody expects are asked to terminate; dispatchLoop starts.    *)
ExpectedAnyway == {m \in Machines : machine[m].controller}
Expected == worker.expected

TerminateUnexpected ==
    /\ At("sync") /\ worker.todo = {}
    /\ UpdateDesiredState(Machines \ Expected, "terminated")
    /\ conn' = [conn EXCEPT ![Current].receiver = IF Following("sync") = "loop"
                                                  THEN "receiving" ELSE @]
    /\ Proceed
    /\ UNCHANGED <<want, heard, evt, panicked, faults>>

-------------------------------------------------------------------------------
(* dispatchLoop and its receiver.                                          *)

EndOfStream(c) == conn[c].inbox = <<>> /\ conn[c].link = "eof"

Receive(c) ==
    /\ conn[c].receiver = "receiving"
    /\ \/ /\ conn[c].inbox # <<>> /\ conn[c].link # "broken"
          /\ conn' = [conn EXCEPT ![c].receiver = "holding", ![c].inbox = Tail(@),
                                  ![c].holding = Head(conn[c].inbox)]
       \/ /\ EndOfStream(c)
          /\ conn' = [conn EXCEPT ![c].receiver = "ended"]
    /\ UNCHANGED <<want, heard, machine, evt, worker, panicked, faults>>

Handled == conn' = [conn EXCEPT ![Current].receiver = "receiving",
                                ![Current].holding = None]

HandleIncomingEvent ==
    /\ At("loop") /\ conn[Current].receiver = "holding"
    /\ LET m == conn[Current].holding.machine
           d == conn[Current].holding.desired
       IN \/ /\ d = "running"
             /\ \E ok \in BOOLEAN :
                  /\ Create(m, d, ok)
                  /\ IF ok THEN /\ Handled
                                /\ worker' = [worker EXCEPT !.synced = @ \cup {m}]
                     ELSE ConnectionFails
          \/ /\ d = "terminated"
             /\ UpdateDesiredState({m}, d)
             /\ IF machine[m].controller THEN Handled /\ worker' = worker
                ELSE ConnectionFails
             /\ faults' = faults
    /\ UNCHANGED <<want, heard, evt, panicked>>

(* The receiver closed its channel: the loop handles a nil event.          *)
HandleNilEvent ==
    /\ At("loop") /\ conn[Current].receiver = "ended"
    /\ panicked' = TRUE
    /\ UNCHANGED <<want, heard, machine, evt, conn, worker, faults>>

(* The statistics, every 10 s, are the only send that finds out.           *)
SendStatsFails ==
    /\ At("loop") /\ conn[Current].link # "open"
    /\ ConnectionFails
    /\ UNCHANGED <<want, heard, machine, evt, panicked, faults>>

(* The agent died, of a panic or otherwise: the next one loads machines    *)
(* that are not terminated; messages and goroutines are gone.              *)
Restart ==
    /\ panicked \/ CanFail
    /\ Charge(~panicked)
    /\ panicked' = FALSE
    /\ worker' = IdleWorker
    /\ conn' = [c \in Connections |-> NoConnection]
    /\ machine' = [m \in Machines |->
                     [machine[m] EXCEPT !.controller = (machine[m].row = "live"),
                                        !.asked = {}]]
    /\ evt' = [e \in Event |-> CASE evt[e] = "emitted" -> "dropped"
                                 [] evt[e] = "published" -> "dispatched"
                                 [] OTHER -> evt[e]]
    /\ UNCHANGED <<want, heard>>

-------------------------------------------------------------------------------
Worker ==
    \/ \E c \in Connections : OpenConnection(c)
    \/ Register \/ SubscribeToEvents
    \/ \E m \in Machines : SyncMachine(m)
    \/ UpdateFound \/ ReplayEvents \/ TerminateUnexpected
    \/ HandleIncomingEvent \/ HandleNilEvent

Controller(m) ==
    \/ \E d \in {"running", "terminated"} : DesiredStateChanged(m, d)
    \/ \E s \in {"running", "terminated"} : StateChanged(m, s)
    \/ Retire(m)

Subscription(c) ==
    \/ \E e \in Event : CheckContext(c, e) \/ Forward(c, e)
    \/ CloseChannel(c)

Next ==
    \/ Restart
    \/ /\ ~panicked
       /\ \/ \E m \in Machines : Wants(m) \/ Abandons(m) \/ Controller(m)
          \/ \E c \in Connections : StreamEnds(c) \/ Subscription(c) \/ Receive(c)
          \/ \E e \in Event : StoreEvent(e) \/ DispatchEvent(e)
          \/ Worker \/ SendStatsFails

Spec == Init /\ [][Next]_vars

(* Every goroutine and every controller runs on; a sender on a broken      *)
(* stream notices in the end; a panicked agent is started again.  Nothing  *)
(* obliges the control plane to want anything, or a fault to happen.       *)
FairSpec ==
    /\ Spec
    /\ WF_vars(panicked /\ Restart)
    /\ WF_vars(~panicked /\ Worker) /\ WF_vars(~panicked /\ SendStatsFails)
    /\ \A m \in Machines : WF_vars(~panicked /\ Controller(m))
    /\ \A e \in Event : WF_vars(~panicked /\ (StoreEvent(e) \/ DispatchEvent(e)))
    /\ \A c \in Connections :
         WF_vars(~panicked /\ Subscription(c)) /\ WF_vars(~panicked /\ Receive(c))

-------------------------------------------------------------------------------
(* Properties.                                                             *)

Want == {"none", "running", "terminated", "done"}
Desired == {"running", "terminated"}
Message == [machine : Machines, desired : Desired]
Machine == [row : {"absent", "live", "terminated"}, controller : BOOLEAN,
            state : {"pending", "running", "terminated"},
            desired : Desired \cup {"none"}, asked : SUBSET Desired]
Connection == [link : {"none", "open", "broken", "eof"}, cancelled : BOOLEAN,
               channel : {"none", "open", "closed"},
               checking : SUBSET Event, waiting : SUBSET Event,
               inbox : Seq(Message), holding : Message \cup {None},
               receiver : {"none", "receiving", "holding", "ended"}]
WorkerState ==
    [pc : {"idle", "register", "subscribe", "sync", "update", "replay", "loop"},
     conn : Connections \cup {None}, specs : [Machines -> Want],
     todo : SUBSET Machines, at : Machines \cup {None}, found : BOOLEAN,
     expected : SUBSET Machines, synced : SUBSET Machines]

(* Every variable keeps to its type; a receiver holds a message exactly    *)
(* while it waits for the loop to take it.                                 *)
TypeOK ==
    /\ want \in [Machines -> Want]
    /\ heard \subseteq Event
    /\ machine \in [Machines -> Machine]
    /\ evt \in [Event -> {"none", "emitted", "published", "dispatched", "dropped"}]
    /\ conn \in [Connections -> Connection]
    /\ \A c \in Connections :
         conn[c].receiver = "holding" <=> conn[c].holding # None
    /\ worker \in WorkerState
    /\ panicked \in BOOLEAN
    /\ faults \in Nat

(* No event falls between the replay and the live events: once a machine   *)
(* is synchronised, on a stream that still works, each of its stored       *)
(* events was heard or is on its way on this connection - because the      *)
(* subscription comes before the list (connection.go:45-47).               *)
SyncedMissesNothing ==
    \A m \in worker.synced : \A e \in EventsOf(m) :
      Stored(e) /\ conn[Current].link = "open"
      => \/ e \in heard \/ evt[e] = "published"
         \/ e \in conn[Current].checking \cup conn[Current].waiting

(* In the dispatch loop, with no message under way, node and control plane *)
(* agree: a machine that is expected has a controller that is not asked to *)
(* terminate it, and no other machine has a controller that is not.        *)
AgreesWhenIdle ==
    /\ At("loop") /\ ~panicked
    /\ conn[Current].link = "open" /\ conn[Current].inbox = <<>>
    /\ conn[Current].receiver = "receiving"
    => \A m \in Machines :
         LET leaving == machine[m].desired = "terminated"
                          \/ "terminated" \in machine[m].asked
         IN IF want[m] = "running" THEN machine[m].controller /\ ~leaving
            ELSE machine[m].controller => leaving

(* Every event stored is heard as long as the machine is expected, however *)
(* often the connection is lost before.                                    *)
EventuallyHeard ==
    \A e \in Event : Stored(e) ~> e \in heard \/ want[e[1]] \in {"none", "done"}

(* A machine that is no longer wanted is sooner or later known to have     *)
(* terminated, also one the node never had, unless that event was dropped. *)
TerminationIsLearned ==
    \A m \in Machines :
      want[m] = "terminated"
        ~> want[m] = "done" \/ evt[<<m, "terminated">>] = "dropped"
================================================================================
