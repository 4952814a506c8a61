--------------------------- MODULE RegistrationProofs ---------------------------
(***************************************************************************)
(* Proofs about Registration, for any number of machines and connections   *)
(* and any number of faults: its type invariant, that no event falls       *)
(* between the replay and the live events, and that node and control plane *)
(* agree when the dispatch loop has nothing to do.                         *)
(***************************************************************************)
EXTENDS Registration, TLAPS

(* Every step of the module is one of these.                               *)
LEMMA StepCases ==
    ASSUME [Next]_vars
    PROVE  \/ \E m \in Machines : Wants(m) \/ Abandons(m) \/ Retire(m)
           \/ \E m \in Machines : \E s \in {"running", "terminated"} :
                DesiredStateChanged(m, s) \/ StateChanged(m, s)
           \/ \E c \in Connections :
                StreamEnds(c) \/ CloseChannel(c) \/ Receive(c) \/ OpenConnection(c)
           \/ \E c \in Connections : \E e \in Event : CheckContext(c, e) \/ Forward(c, e)
           \/ \E e \in Event : StoreEvent(e) \/ DispatchEvent(e)
           \/ \E m \in Machines : SyncMachine(m)
           \/ Register \/ SubscribeToEvents \/ UpdateFound \/ ReplayEvents
           \/ TerminateUnexpected \/ HandleIncomingEvent \/ HandleNilEvent
           \/ SendStatsFails
           \/ Restart \/ UNCHANGED vars
  BY DEF Next, Worker, Controller, Subscription

-------------------------------------------------------------------------------
(* Type correctness.                                                       *)

ConnType == /\ conn \in [Connections -> Connection]
            /\ \A c \in Connections :
                 conn[c].receiver = "holding" <=> conn[c].holding # None

LEMMA InitialType ==
    ASSUME Init PROVE TypeOK
  <1>1. NoMachine \in Machine
    BY DEF NoMachine, Machine, Desired
  <1>2. NoConnection \in Connection
    BY DEF NoConnection, Connection
  <1>3. IdleWorker \in WorkerState
    BY DEF IdleWorker, WorkerState, Want
  <1>4. /\ want \in [Machines -> Want] /\ machine \in [Machines -> Machine]
        /\ conn \in [Connections -> Connection] /\ worker \in WorkerState
    BY <1>1, <1>2, <1>3 DEF Init, Want
  <1>5. \A c \in Connections : conn[c].receiver = "holding" <=> conn[c].holding # None
    BY DEF Init, NoConnection
  <1>6. faults \in Nat /\ panicked \in BOOLEAN /\ heard \subseteq Event
    BY DEF Init
  <1>7. evt \in [Event -> {"none", "emitted", "published", "dispatched", "dropped"}]
    BY DEF Init
  <1> QED BY <1>4, <1>5, <1>6, <1>7 DEF TypeOK

LEMMA ChargeType ==
    ASSUME faults \in Nat, NEW failed, Charge(failed)
    PROVE  faults' \in Nat
  BY DEF Charge

(* A machine that is created, and machines that are asked for a state.     *)
LEMMA CreateType ==
    ASSUME TypeOK, NEW m \in Machines, NEW d \in Desired, NEW ok \in BOOLEAN,
           Create(m, d, ok)
    PROVE  machine' \in [Machines -> Machine] /\ faults' \in Nat
  <1>1. [NoMachine EXCEPT !.row = "live", !.controller = TRUE, !.desired = d] \in Machine
    BY DEF NoMachine, Machine, Desired
  <1>2. machine' \in [Machines -> Machine]
    BY <1>1 DEF Create, TypeOK
  <1> QED BY <1>2, ChargeType DEF Create, TypeOK

LEMMA AskType ==
    ASSUME TypeOK, NEW ms, NEW d \in Desired, UpdateDesiredState(ms, d)
    PROVE  machine' \in [Machines -> Machine]
  <1>1. \A r \in Machine : [r EXCEPT !.asked = @ \cup {d}] \in Machine
    BY DEF Machine
  <1>2. \A m \in Machines : machine[m] \in Machine
    BY DEF TypeOK
  <1> QED BY <1>1, <1>2 DEF UpdateDesiredState

LEMMA SendType ==
    ASSUME TypeOK, NEW c \in Connections, NEW events \in SUBSET Event,
           NEW ok, Send(c, events, ok)
    PROVE  want' \in [Machines -> Want] /\ heard' \subseteq Event
  BY DEF Send, Hears, TypeOK, Want

LEMMA EventTypes ==
    ASSUME NEW m \in Machines
    PROVE  /\ <<m, "running">> \in Event /\ <<m, "terminated">> \in Event
           /\ PreviousEvents(m) \in SUBSET Event /\ FakeTermination(m) \in SUBSET Event
  BY DEF Event, PreviousEvents, EventsOf, FakeTermination

(* A connection that fails, for whatever reason.                           *)
LEMMA FailType ==
    ASSUME TypeOK, Current \in Connections, ConnectionFails
    PROVE  worker' \in WorkerState /\ ConnType'
  <1>1. worker' \in WorkerState
    BY DEF ConnectionFails, IdleWorker, WorkerState, Want
  <1> DEFINE new == [conn[Current] EXCEPT !.cancelled = TRUE, !.link = "broken",
                       !.receiver = "none", !.holding = None, !.inbox = <<>>]
  <1>2. conn[Current] \in Connection
    BY DEF TypeOK
  <1>3. new \in Connection /\ new.receiver = "none" /\ new.holding = None
    <2>1. <<>> \in Seq(Message)
      OBVIOUS
    <2>2. new.receiver = "none" /\ new.holding = None
      BY <1>2 DEF Connection
    <2> QED BY <1>2, <2>1, <2>2 DEF Connection
  <1>4. conn' = [conn EXCEPT ![Current] = new]
    BY DEF ConnectionFails, TypeOK
  <1> HIDE DEF new
  <1> QED BY <1>1, <1>3, <1>4 DEF ConnType, TypeOK

(* The worker has a connection unless it is idle, and synchronises         *)
(* machines the control plane named; only the connection whose messages it *)
(* dispatches has a receiver.                                              *)
Shape ==
    /\ worker.pc # "idle" => Current \in Connections
    /\ worker.pc \in {"update", "replay"} => worker.at \in worker.todo
    /\ \A m \in worker.todo : worker.specs[m] \in Desired
    /\ \A c \in Connections :
         conn[c].receiver # "none" => worker.pc = "loop" /\ c = Current
TypeInv == TypeOK /\ Shape

(* What fails ends the connection; everything else is left as it was.      *)
LEMMA FailShape ==
    ASSUME TypeInv, Current \in Connections, ConnectionFails
    PROVE  Shape'
  <1>1. worker' = IdleWorker
    BY DEF ConnectionFails
  <1>2. \A c \in Connections : conn'[c].receiver = "none"
    <2>1. \A c \in Connections \ {Current} : conn'[c] = conn[c]
      BY DEF ConnectionFails, TypeInv, TypeOK
    <2>2. \A c \in Connections \ {Current} : conn[c].receiver = "none"
      BY DEF TypeInv, Shape
    <2>3. conn'[Current].receiver = "none"
      BY DEF ConnectionFails, TypeInv, TypeOK, Connection
    <2> QED BY <2>1, <2>2, <2>3
  <1> QED BY <1>1, <1>2 DEF IdleWorker, Shape

LEMMA Gathered ==
    ASSUME want' \in [Machines -> Want] /\ heard' \subseteq Event,
           machine' \in [Machines -> Machine],
           evt' \in [Event -> {"none", "emitted", "published", "dispatched", "dropped"}],
           ConnType', worker' \in WorkerState, Shape',
           faults' \in Nat /\ panicked' \in BOOLEAN
    PROVE  TypeInv'
  BY DEF TypeInv, TypeOK, ConnType

(* A connection one of whose fields changes is a connection.               *)
LEMMA FieldTypes ==
    ASSUME NEW k \in Connection
    PROVE  /\ \A x \in {"none", "open", "broken", "eof"} : [k EXCEPT !.link = x] \in Connection
           /\ \A x \in {"none", "open", "closed"} : [k EXCEPT !.channel = x] \in Connection
           /\ \A x \in SUBSET Event : [k EXCEPT !.checking = x] \in Connection
           /\ \A x \in SUBSET Event : [k EXCEPT !.waiting = x] \in Connection
           /\ \A x \in Seq(Message) : [k EXCEPT !.inbox = x] \in Connection
  BY DEF Connection

LEMMA NoneIsNoMessage == None \notin Message
  BY RegistrationAssumption DEF Message, Desired

(* The steps that change no connection and no worker.                      *)
LEMMA TypeOfMachines ==
    ASSUME TypeInv,
           \/ \E m \in Machines : Abandons(m) \/ Retire(m)
           \/ \E m \in Machines : \E s \in {"running", "terminated"} :
                DesiredStateChanged(m, s) \/ StateChanged(m, s)
           \/ \E e \in Event : StoreEvent(e)
           \/ HandleNilEvent
    PROVE  TypeInv'
  <1>1. conn' = conn /\ worker' = worker /\ heard' = heard
    BY DEF Abandons, Retire, DesiredStateChanged, StateChanged, StoreEvent, HandleNilEvent
  <1>2. want' \in [Machines -> Want]
    BY DEF Abandons, Retire, DesiredStateChanged, StateChanged, StoreEvent, HandleNilEvent,
       TypeInv, TypeOK, Want
  <1>3. machine' \in [Machines -> Machine]
    <2>1. CASE \E m \in Machines : Retire(m)
      <3>1. PICK m \in Machines : Retire(m)
        BY <2>1
      <3>2. [machine[m] EXCEPT !.controller = FALSE, !.asked = {}] \in Machine
        BY DEF TypeInv, TypeOK, Machine
      <3>3. machine' = [machine EXCEPT ![m] =
                          [machine[m] EXCEPT !.controller = FALSE, !.asked = {}]]
        BY <3>1 DEF Retire, TypeInv, TypeOK
      <3> QED BY <3>2, <3>3 DEF TypeInv, TypeOK
    <2>2. CASE \E m \in Machines : \E s \in {"running", "terminated"} : DesiredStateChanged(m, s)
      <3>1. PICK m \in Machines, s \in {"running", "terminated"} : DesiredStateChanged(m, s)
        BY <2>2
      <3>2. machine[m] \in Machine
        BY DEF TypeInv, TypeOK
      <3>3. [machine[m] EXCEPT !.desired = s, !.asked = @ \ {s}] \in Machine
        BY <3>2 DEF Machine, Desired
      <3>4. machine' = [machine EXCEPT ![m] =
                          [machine[m] EXCEPT !.desired = s, !.asked = @ \ {s}]]
        BY <3>1 DEF DesiredStateChanged, TypeInv, TypeOK
      <3> QED BY <3>3, <3>4 DEF TypeInv, TypeOK
    <2>3. CASE \E m \in Machines : \E s \in {"running", "terminated"} : StateChanged(m, s)
      <3>1. PICK m \in Machines, s \in {"running", "terminated"} : StateChanged(m, s)
        BY <2>3
      <3>2. machine[m] \in Machine
        BY DEF TypeInv, TypeOK
      <3> DEFINE new == [machine[m] EXCEPT !.state = s,
                           !.row = IF s = "terminated" THEN "terminated" ELSE @]
      <3>3. new \in Machine
        BY <3>2 DEF Machine, Desired
      <3>4. machine' = [machine EXCEPT ![m] = new]
        BY <3>1 DEF StateChanged, TypeInv, TypeOK
      <3> HIDE DEF new
      <3> QED BY <3>3, <3>4 DEF TypeInv, TypeOK
    <2>4. CASE machine' = machine
      BY <2>4 DEF TypeInv, TypeOK
    <2> QED BY <2>1, <2>2, <2>3, <2>4 DEF Abandons, StoreEvent, HandleNilEvent
  <1>4. evt' \in [Event -> {"none", "emitted", "published", "dispatched", "dropped"}]
    BY DEF Abandons, Retire, DesiredStateChanged, StateChanged, StoreEvent, HandleNilEvent,
       TypeInv, TypeOK
  <1>5. faults' \in Nat /\ panicked' \in BOOLEAN
    BY ChargeType DEF Abandons, Retire, DesiredStateChanged, StateChanged, StoreEvent,
       HandleNilEvent, TypeInv, TypeOK
  <1>6. Shape'
    BY <1>1 DEF TypeInv, Shape, Current
  <1>7. ConnType' /\ worker' \in WorkerState /\ heard' \subseteq Event
    BY <1>1 DEF TypeInv, TypeOK, ConnType
  <1> QED BY <1>2, <1>3, <1>4, <1>5, <1>6, <1>7, Gathered

(* The steps of a stream, of an event's way through a connection, and of   *)
(* the receiver.                                                           *)
LEMMA TypeOfStreams ==
    ASSUME TypeInv,
           \/ \E m \in Machines : Wants(m)
           \/ \E c \in Connections : StreamEnds(c) \/ CloseChannel(c) \/ Receive(c)
           \/ \E c \in Connections : \E e \in Event : CheckContext(c, e) \/ Forward(c, e)
           \/ \E e \in Event : DispatchEvent(e)
    PROVE  TypeInv'
  <1>0. \A c \in Connections : conn[c] \in Connection
    BY DEF TypeInv, TypeOK
  <1>1. worker' = worker /\ machine' = machine
    BY DEF Wants, StreamEnds, CloseChannel, Receive, CheckContext, Forward, DispatchEvent
  <1>2. want' \in [Machines -> Want] /\ heard' \subseteq Event
    <2>1. CASE \E m \in Machines : Wants(m)
      BY <2>1 DEF Wants, TypeInv, TypeOK, Want
    <2>2. CASE \E c \in Connections : \E e \in Event : Forward(c, e)
      <3>1. PICK c \in Connections, e \in Event : \E ok \in BOOLEAN : Send(c, {e}, ok)
        BY <2>2 DEF Forward
      <3>2. {e} \in SUBSET Event
        OBVIOUS
      <3> QED BY <3>1, <3>2, SendType DEF TypeInv
    <2>3. CASE want' = want /\ heard' = heard
      BY <2>3 DEF TypeInv, TypeOK
    <2> QED BY <2>1, <2>2, <2>3 DEF StreamEnds, CloseChannel, Receive, CheckContext,
            DispatchEvent
  <1>3. ConnType'
    <2>0. ASSUME NEW c \in Connections, NEW new \in Connection,
                 conn' = [conn EXCEPT ![c] = new],
                 new.receiver = "holding" <=> new.holding # None
          PROVE  ConnType'
      BY <2>0 DEF TypeInv, TypeOK, ConnType
    <2>1. ASSUME NEW m \in Machines, Wants(m) PROVE ConnType'
      <3>1. PICK x \in Message : Tell(x)
        <4>1. want'[m] \in Desired
          BY <2>1 DEF Wants, TypeInv, TypeOK, Desired
        <4> QED BY <2>1, <4>1 DEF Wants, Message
      <3>2. ASSUME NEW c \in Connections
            PROVE  /\ conn'[c] \in Connection
                   /\ conn'[c].receiver = conn[c].receiver
                   /\ conn'[c].holding = conn[c].holding
        <4>1. conn[c] \in Connection /\ Append(conn[c].inbox, x) \in Seq(Message)
          BY <1>0 DEF Connection
        <4>2. conn'[c] = conn[c] \/ conn'[c] = [conn[c] EXCEPT !.inbox = Append(@, x)]
          BY <3>1 DEF Tell
        <4> QED BY <4>1, <4>2 DEF Connection
      <3>3. conn' \in [Connections -> Connection]
        BY <3>1, <3>2 DEF Tell
      <3> QED BY <3>2, <3>3 DEF ConnType, TypeInv, TypeOK
    <2>2. ASSUME NEW c \in Connections, StreamEnds(c) PROVE ConnType'
      <3>1. PICK how \in {"broken", "eof"} : conn' = [conn EXCEPT ![c].link = how]
        BY <2>2 DEF StreamEnds
      <3> DEFINE new == [conn[c] EXCEPT !.link = how]
      <3>2. conn' = [conn EXCEPT ![c] = new]
        BY <3>1 DEF TypeInv, TypeOK
      <3>3. new \in Connection /\ new.receiver = conn[c].receiver
            /\ new.holding = conn[c].holding
        BY <1>0 DEF Connection
      <3> HIDE DEF new
      <3> QED BY <2>0, <3>2, <3>3 DEF TypeInv, TypeOK
    <2>3. ASSUME NEW c \in Connections, CloseChannel(c) PROVE ConnType'
      <3> DEFINE new == [conn[c] EXCEPT !.channel = "closed"]
      <3>2. conn' = [conn EXCEPT ![c] = new]
        BY <2>3 DEF CloseChannel, TypeInv, TypeOK
      <3>3. new \in Connection /\ new.receiver = conn[c].receiver
            /\ new.holding = conn[c].holding
        BY <1>0 DEF Connection
      <3> HIDE DEF new
      <3> QED BY <2>0, <3>2, <3>3 DEF TypeInv, TypeOK
    <2>4. ASSUME NEW c \in Connections, Receive(c) PROVE ConnType'
      <3>1. CASE /\ conn[c].inbox # <<>>
                 /\ conn' = [conn EXCEPT ![c].receiver = "holding", ![c].inbox = Tail(@),
                                         ![c].holding = Head(conn[c].inbox)]
        <4> DEFINE new == [conn[c] EXCEPT !.receiver = "holding",
                             !.inbox = Tail(conn[c].inbox), !.holding = Head(conn[c].inbox)]
        <4>1. conn' = [conn EXCEPT ![c] = new]
          BY <3>1 DEF TypeInv, TypeOK
        <4>2. conn[c].inbox \in Seq(Message) /\ conn[c] \in Connection
          BY <1>0 DEF Connection
        <4>3. Tail(conn[c].inbox) \in Seq(Message) /\ Head(conn[c].inbox) \in Message
          BY <3>1, <4>2
        <4>4. new \in Connection /\ new.receiver = "holding"
              /\ new.holding = Head(conn[c].inbox)
          BY <4>2, <4>3 DEF Connection
        <4>5. None \notin Message
          BY NoneIsNoMessage
        <4> HIDE DEF new
        <4> QED BY <2>0, <4>1, <4>3, <4>4, <4>5
      <3>2. CASE conn' = [conn EXCEPT ![c].receiver = "ended"] /\ conn[c].receiver = "receiving"
        <4> DEFINE new == [conn[c] EXCEPT !.receiver = "ended"]
        <4>1. conn' = [conn EXCEPT ![c] = new]
          BY <3>2 DEF TypeInv, TypeOK
        <4>2. new \in Connection /\ new.receiver = "ended"
              /\ new.holding = conn[c].holding
          BY <1>0 DEF Connection
        <4>3. conn[c].holding = None
          BY <3>2 DEF TypeInv, TypeOK
        <4> HIDE DEF new
        <4> QED BY <2>0, <4>1, <4>2, <4>3
      <3> QED BY <2>4, <3>1, <3>2 DEF Receive
    <2>5. ASSUME NEW c \in Connections, NEW e \in Event, CheckContext(c, e) PROVE ConnType'
      <3> DEFINE w == IF conn[c].cancelled THEN conn[c].waiting ELSE conn[c].waiting \cup {e}
                 new == [conn[c] EXCEPT !.checking = @ \ {e}, !.waiting = w]
      <3>1. conn' = [conn EXCEPT ![c] = new]
        BY <2>5 DEF CheckContext, TypeInv, TypeOK
      <3>2. w \in SUBSET Event
        BY <1>0 DEF Connection
      <3> HIDE DEF w
      <3>3. new \in Connection /\ new.receiver = conn[c].receiver
            /\ new.holding = conn[c].holding
        BY <1>0, <3>2 DEF Connection
      <3> HIDE DEF new
      <3> QED BY <2>0, <3>1, <3>3 DEF TypeInv, TypeOK
    <2>6. ASSUME NEW c \in Connections, NEW e \in Event, Forward(c, e) PROVE ConnType'
      <3> DEFINE new == [conn[c] EXCEPT !.waiting = @ \ {e}]
      <3>1. conn' = [conn EXCEPT ![c] = new]
        BY <2>6 DEF Forward, TypeInv, TypeOK
      <3>3. new \in Connection /\ new.receiver = conn[c].receiver
            /\ new.holding = conn[c].holding
        BY <1>0 DEF Connection
      <3> HIDE DEF new
      <3> QED BY <2>0, <3>1, <3>3 DEF TypeInv, TypeOK
    <2>7. ASSUME NEW e \in Event, DispatchEvent(e) PROVE ConnType'
      <3>2. ASSUME NEW c \in Connections
            PROVE  /\ conn'[c] \in Connection
                   /\ conn'[c].receiver = conn[c].receiver
                   /\ conn'[c].holding = conn[c].holding
        <4>2. \/ conn'[c] = conn[c]
              \/ conn'[c] = [conn[c] EXCEPT !.checking = @ \cup {e}]
          BY <2>7 DEF DispatchEvent
        <4> QED BY <1>0, <4>2 DEF Connection
      <3>3. conn' \in [Connections -> Connection]
        BY <2>7, <3>2 DEF DispatchEvent
      <3> QED BY <3>2, <3>3 DEF ConnType, TypeInv, TypeOK
    <2> QED BY <2>1, <2>2, <2>3, <2>4, <2>5, <2>6, <2>7
  <1>4. evt' \in [Event -> {"none", "emitted", "published", "dispatched", "dropped"}]
    BY DEF Wants, StreamEnds, CloseChannel, Receive, CheckContext, Forward, DispatchEvent,
       TypeInv, TypeOK
  <1>5. faults' \in Nat /\ panicked' \in BOOLEAN
    <2>1. faults' \in Nat
      BY ChargeType DEF Wants, StreamEnds, CloseChannel, Receive, CheckContext, Forward,
         DispatchEvent, TypeInv, TypeOK
    <2>2. panicked' = panicked \/ \E c \in Connections : panicked' = (conn[c].waiting # {})
      BY DEF Wants, StreamEnds, CloseChannel, Receive, CheckContext, Forward, DispatchEvent
    <2> QED BY <2>1, <2>2 DEF TypeInv, TypeOK
  <1>6. Shape'
    <2>1. \A c \in Connections : conn'[c].receiver # "none" => conn[c].receiver # "none"
      <3>1. CASE \E m \in Machines : Wants(m)
        BY <1>0, <3>1 DEF Wants, Tell, Connection
      <3>2. CASE \E e \in Event : DispatchEvent(e)
        BY <1>0, <3>2 DEF DispatchEvent, Connection
      <3>3. CASE \E c \in Connections : StreamEnds(c)
        BY <1>0, <3>3 DEF StreamEnds, Connection, TypeInv, TypeOK
      <3>7. CASE \E c \in Connections : CloseChannel(c)
        BY <1>0, <3>7 DEF CloseChannel, Connection, TypeInv, TypeOK
      <3>4. ASSUME NEW c \in Connections, Receive(c)
            PROVE  \A k \in Connections : conn'[k].receiver # "none" => conn[k].receiver # "none"
        <4>1. conn[c].receiver = "receiving" /\ \A k \in Connections \ {c} : conn'[k] = conn[k]
          BY <3>4 DEF Receive, TypeInv, TypeOK
        <4> QED BY <4>1
      <3>5. CASE \E c \in Connections : \E e \in Event : CheckContext(c, e)
        BY <1>0, <3>5 DEF CheckContext, Connection, TypeInv, TypeOK
      <3>6. CASE \E c \in Connections : \E e \in Event : Forward(c, e)
        BY <1>0, <3>6 DEF Forward, Connection, TypeInv, TypeOK
      <3> QED BY <3>1, <3>2, <3>3, <3>4, <3>5, <3>6, <3>7
    <2> QED BY <1>1, <2>1 DEF TypeInv, Shape, Current
  <1>7. worker' \in WorkerState /\ machine' \in [Machines -> Machine]
    BY <1>1 DEF TypeInv, TypeOK
  <1> QED BY <1>2, <1>3, <1>4, <1>5, <1>6, <1>7, Gathered

LEMMA OneConnection ==
    ASSUME TypeOK, NEW c \in Connections, NEW new \in Connection,
           conn' = [conn EXCEPT ![c] = new],
           new.receiver = "holding" <=> new.holding # None
    PROVE  ConnType'
  BY DEF TypeOK, ConnType

(* The worker's steps until the dispatch loop.                             *)
LEMMA TypeOfConnecting ==
    ASSUME TypeInv,
           \/ \E c \in Connections : OpenConnection(c)
           \/ Register \/ SubscribeToEvents \/ TerminateUnexpected
    PROVE  TypeInv'
  <1>0. worker \in WorkerState
    BY DEF TypeInv, TypeOK
  <1>1. heard' = heard /\ want' = want /\ evt' = evt /\ panicked' = panicked
    BY DEF OpenConnection, Register, SubscribeToEvents, TerminateUnexpected
  <1>2. /\ want' \in [Machines -> Want] /\ heard' \subseteq Event /\ panicked' \in BOOLEAN
        /\ evt' \in [Event -> {"none", "emitted", "published", "dispatched", "dropped"}]
    BY <1>1 DEF TypeInv, TypeOK
  <1>3. machine' \in [Machines -> Machine] /\ faults' \in Nat
    <2>1. CASE TerminateUnexpected
      BY <2>1, AskType DEF TerminateUnexpected, TypeInv, TypeOK, Desired
    <2>2. CASE ~TerminateUnexpected
      BY <2>2, ChargeType DEF OpenConnection, Register, SubscribeToEvents, TypeInv, TypeOK
    <2> QED BY <2>1, <2>2
  <1>4. ASSUME NEW c \in Connections, OpenConnection(c)
        PROVE  worker' \in WorkerState /\ ConnType' /\ Shape'
    <2> DEFINE new == [NoConnection EXCEPT !.link = "open"]
    <2>1. new \in Connection /\ new.receiver = "none" /\ new.holding = None
      <3>1. NoConnection \in Connection
        BY DEF NoConnection, Connection
      <3> QED BY <3>1 DEF Connection, NoConnection
    <2>2. conn' = [conn EXCEPT ![c] = new]
      BY <1>4 DEF OpenConnection
    <2>3. /\ worker' = [IdleWorker EXCEPT !.pc = "register", !.conn = c]
          /\ worker.pc = "idle"
      BY <1>4 DEF OpenConnection, At
    <2>4. worker' \in WorkerState /\ worker'.pc = "register" /\ worker'.conn = c
          /\ worker'.todo = {}
      BY <2>3 DEF IdleWorker, WorkerState, Want
    <2>5. \A k \in Connections : conn'[k].receiver = "none"
      <3>1. \A k \in Connections : conn[k].receiver = "none"
        BY <2>3 DEF TypeInv, Shape
      <3> HIDE DEF new
      <3> QED BY <2>1, <2>2, <3>1 DEF TypeInv, TypeOK
    <2> HIDE DEF new
    <2>6. ConnType'
      BY <2>1, <2>2, OneConnection DEF TypeInv
    <2>7. Shape'
      BY <2>4, <2>5 DEF Shape, Current
    <2> QED BY <2>4, <2>6, <2>7
  <1>5. ASSUME Register
        PROVE  worker' \in WorkerState /\ ConnType' /\ Shape'
    <2>1. Current \in Connections
      BY <1>5 DEF Register, At, TypeInv, Shape
    <2>2. CASE ConnectionFails
      BY <2>1, <2>2, FailType, FailShape DEF TypeInv
    <2>3. CASE /\ conn' = conn
               /\ worker' = [worker EXCEPT
                    !.pc = Following("register"), !.specs = want,
                    !.todo = {m \in Machines : want[m] \in {"running", "terminated"}}]
      <3>1. /\ worker' \in WorkerState /\ worker'.conn = worker.conn
            /\ worker'.pc = "subscribe" /\ worker'.specs = want
            /\ worker'.todo = {m \in Machines : want[m] \in {"running", "terminated"}}
        BY <2>3, <1>0 DEF WorkerState, Following, TypeInv, TypeOK
      <3>2. Shape'
        BY <1>5, <2>1, <2>3, <3>1 DEF Shape, Current, TypeInv, Desired, Register, At
      <3> QED BY <2>3, <3>1, <3>2 DEF ConnType, TypeInv, TypeOK
    <2> QED BY <1>5, <2>2, <2>3 DEF Register
  <1>6. ASSUME NEW pc \in {"sync", "loop"}, NEW x \in {"none", "receiving"},
               NEW ch \in {"none", "open", "closed"},
               worker.pc # "idle", worker.pc # "loop", pc = "loop" \/ x = "none",
               worker' = [worker EXCEPT !.pc = pc],
               conn' = [conn EXCEPT ![Current].channel = ch, ![Current].receiver = x]
        PROVE  worker' \in WorkerState /\ ConnType' /\ Shape'
    <2>1. Current \in Connections /\ \A c \in Connections : conn[c].receiver = "none"
      BY <1>6 DEF TypeInv, Shape
    <2>2. /\ worker' \in WorkerState /\ worker'.pc = pc /\ worker'.conn = worker.conn
          /\ worker'.todo = worker.todo /\ worker'.specs = worker.specs
      BY <1>0, <1>6 DEF WorkerState
    <2> DEFINE new == [conn[Current] EXCEPT !.channel = ch, !.receiver = x]
    <2>3. conn' = [conn EXCEPT ![Current] = new]
      BY <1>6 DEF TypeInv, TypeOK
    <2>4. conn[Current] \in Connection /\ conn[Current].holding = None
      BY <2>1 DEF TypeInv, TypeOK
    <2>5. new \in Connection /\ new.receiver = x /\ new.holding = None
      BY <2>4 DEF Connection
    <2> HIDE DEF new
    <2>6. ConnType'
      BY <2>1, <2>3, <2>5, OneConnection DEF TypeInv
    <2>7. \A c \in Connections : conn'[c].receiver # "none" => pc = "loop" /\ c = Current
      BY <1>6, <2>1, <2>3, <2>5 DEF TypeInv, TypeOK
    <2> QED BY <2>1, <2>2, <2>6, <2>7 DEF Shape, Current, TypeInv
  <1>7. ASSUME SubscribeToEvents
        PROVE  worker' \in WorkerState /\ ConnType' /\ Shape'
    <2>1. conn' = [conn EXCEPT ![Current].channel = "open",
                               ![Current].receiver = conn[Current].receiver]
      BY <1>7 DEF SubscribeToEvents, Following, TypeInv, TypeOK
    <2>2. worker' = [worker EXCEPT !.pc = "sync"] /\ worker.pc = "subscribe"
      BY <1>7 DEF SubscribeToEvents, Proceed, Following, At
    <2>3. conn[Current].receiver = "none"
      BY <2>2 DEF TypeInv, Shape
    <2> QED BY <1>6, <2>1, <2>2, <2>3
  <1>8. ASSUME TerminateUnexpected
        PROVE  worker' \in WorkerState /\ ConnType' /\ Shape'
    <2>1. worker' = [worker EXCEPT !.pc = "loop"] /\ worker.pc = "sync"
      BY <1>8 DEF TerminateUnexpected, Proceed, Following, At
    <2>2. Current \in Connections
      BY <2>1 DEF TypeInv, Shape
    <2>3. conn' = [conn EXCEPT ![Current].receiver = "receiving"]
      BY <1>8 DEF TerminateUnexpected, Following
    <2>4. conn' = [conn EXCEPT ![Current].channel = conn[Current].channel,
                               ![Current].receiver = "receiving"]
      BY <2>2, <2>3 DEF TypeInv, TypeOK, Connection
    <2>5. conn[Current].channel \in {"none", "open", "closed"}
      BY <2>2 DEF TypeInv, TypeOK, Connection
    <2> QED BY <1>6, <2>1, <2>4, <2>5
  <1>9. worker' \in WorkerState /\ ConnType' /\ Shape'
    BY <1>4, <1>5, <1>7, <1>8
  <1> QED BY <1>2, <1>3, <1>9, Gathered

(* A machine that is synchronised.                                         *)
LEMMA TypeOfSync ==
    ASSUME TypeInv,
           (\E m \in Machines : SyncMachine(m)) \/ UpdateFound \/ ReplayEvents
    PROVE  TypeInv'
  <1>0. worker \in WorkerState /\ Current \in Connections
    BY DEF SyncMachine, UpdateFound, ReplayEvents, At, TypeInv, TypeOK, Shape
  <1>1. evt' = evt /\ panicked' = panicked
    BY DEF SyncMachine, UpdateFound, ReplayEvents
  <1>2. /\ panicked' \in BOOLEAN
        /\ evt' \in [Event -> {"none", "emitted", "published", "dispatched", "dropped"}]
    BY <1>1 DEF TypeInv, TypeOK
  <1>3. ASSUME ConnectionFails PROVE worker' \in WorkerState /\ ConnType' /\ Shape'
    BY <1>0, <1>3, FailType, FailShape DEF TypeInv
  <1>4. ASSUME conn' = conn, worker' \in WorkerState, worker'.conn = worker.conn,
               worker'.pc # "idle", worker.pc # "loop", worker'.specs = worker.specs,
               worker'.todo \subseteq worker.todo,
               worker'.pc \in {"update", "replay"} => worker'.at \in worker'.todo
        PROVE  worker' \in WorkerState /\ ConnType' /\ Shape'
    BY <1>0, <1>4 DEF Shape, Current, TypeInv, TypeOK, ConnType
  <1>5. ASSUME NEW m \in Machines, SyncMachine(m) PROVE TypeInv'
    <2>1. /\ worker.pc = "sync" /\ m \in worker.todo /\ worker.specs[m] \in Desired
          /\ want' = want /\ heard' = heard
      BY <1>5 DEF SyncMachine, At, TypeInv, Shape
    <2>2. machine' \in [Machines -> Machine] /\ faults' \in Nat
      BY <1>5, <2>1, CreateType DEF SyncMachine, TypeInv, TypeOK
    <2>3. \/ ConnectionFails
          \/ /\ conn' = conn
             /\ \E pc \in {"update", "replay"} : \E isNil \in BOOLEAN :
                  worker' = [worker EXCEPT !.pc = pc, !.at = m, !.found = ~isNil]
      BY <1>5 DEF SyncMachine
    <2>4. worker' \in WorkerState /\ ConnType' /\ Shape'
      <3>1. ASSUME NEW pc \in {"update", "replay"}, NEW isNil \in BOOLEAN,
                   worker' = [worker EXCEPT !.pc = pc, !.at = m, !.found = ~isNil],
                   conn' = conn
            PROVE  worker' \in WorkerState /\ ConnType' /\ Shape'
        <4>1. worker' \in WorkerState
          BY <1>0, <3>1 DEF WorkerState
        <4>2. /\ worker'.conn = worker.conn /\ worker'.pc = pc /\ worker'.at = m
              /\ worker'.specs = worker.specs /\ worker'.todo = worker.todo
          BY <1>0, <3>1 DEF WorkerState
        <4> QED BY <1>4, <2>1, <3>1, <4>1, <4>2
      <3> QED BY <1>3, <2>3, <3>1
    <2>5. want' \in [Machines -> Want] /\ heard' \subseteq Event
      BY <2>1 DEF TypeInv, TypeOK
    <2> QED BY <1>2, <2>2, <2>4, <2>5, Gathered
  <1>6. CASE UpdateFound
    <2>1. /\ worker.pc = "update" /\ worker.at \in worker.todo
          /\ worker.specs[worker.at] \in Desired
          /\ want' = want /\ heard' = heard /\ faults' = faults
      BY <1>6 DEF UpdateFound, At, TypeInv, Shape
    <2>2. machine' \in [Machines -> Machine] /\ faults' \in Nat
      BY <1>6, <2>1, AskType DEF UpdateFound, TypeInv, TypeOK
    <2>3. ConnectionFails \/ (conn' = conn /\ worker' = [worker EXCEPT !.pc = "replay"])
      BY <1>6 DEF UpdateFound
    <2>4. worker' \in WorkerState /\ ConnType' /\ Shape'
      <3>1. ASSUME worker' = [worker EXCEPT !.pc = "replay"], conn' = conn
            PROVE  worker' \in WorkerState /\ ConnType' /\ Shape'
        <4>1. worker' \in WorkerState
          BY <1>0, <3>1 DEF WorkerState
        <4>2. /\ worker'.conn = worker.conn /\ worker'.pc = "replay"
              /\ worker'.at = worker.at
              /\ worker'.specs = worker.specs /\ worker'.todo = worker.todo
          BY <1>0, <3>1 DEF WorkerState
        <4> QED BY <1>4, <2>1, <3>1, <4>1, <4>2
      <3> QED BY <1>3, <2>3, <3>1
    <2>5. want' \in [Machines -> Want] /\ heard' \subseteq Event
      BY <2>1 DEF TypeInv, TypeOK
    <2> QED BY <1>2, <2>2, <2>4, <2>5, Gathered
  <1>7. CASE ReplayEvents
    <2> DEFINE m == worker.at
    <2>1. /\ worker.pc = "replay" /\ m \in worker.todo /\ m \in Machines
          /\ machine' = machine /\ faults' = faults
      BY <1>0, <1>7 DEF ReplayEvents, At, TypeInv, Shape, WorkerState
    <2>2. machine' \in [Machines -> Machine] /\ faults' \in Nat
      BY <2>1 DEF TypeInv, TypeOK
    <2>3. \/ ConnectionFails
          \/ /\ conn' = conn
             /\ worker' = [worker EXCEPT
                   !.pc = Following("replay"), !.todo = @ \ {m}, !.at = None,
                   !.found = FALSE, !.synced = @ \cup {m},
                   !.expected = @ \cup IF worker.found THEN {m} ELSE {}]
      BY <1>7 DEF ReplayEvents
    <2>4. worker' \in WorkerState /\ ConnType' /\ Shape'
      <3>1. ASSUME conn' = conn, NEW ms \in SUBSET {m},
                   worker' = [worker EXCEPT
                     !.pc = "sync", !.todo = @ \ {m}, !.at = None,
                     !.found = FALSE, !.synced = @ \cup {m},
                     !.expected = @ \cup ms]
            PROVE  worker' \in WorkerState /\ ConnType' /\ Shape'
        <4>1. worker' \in WorkerState
          BY <1>0, <2>1, <3>1 DEF WorkerState
        <4>2. /\ worker'.conn = worker.conn /\ worker'.pc = "sync"
              /\ worker'.specs = worker.specs /\ worker'.todo \subseteq worker.todo
          BY <1>0, <3>1 DEF WorkerState
        <4> QED BY <1>4, <2>1, <3>1, <4>1, <4>2
      <3>2. Following("replay") = "sync"
        BY DEF Following
      <3>3. (IF worker.found THEN {m} ELSE {}) \in SUBSET {m}
        OBVIOUS
      <3> QED BY <1>3, <2>3, <3>1, <3>2, <3>3
    <2>5. want' \in [Machines -> Want] /\ heard' \subseteq Event
      <3>1. PICK ok \in BOOLEAN :
              Send(Current, PreviousEvents(m) \cup FakeTermination(m), ok)
        BY <1>7 DEF ReplayEvents
      <3>2. PreviousEvents(m) \cup FakeTermination(m) \in SUBSET Event
        BY <2>1, EventTypes
      <3> QED BY <1>0, <3>1, <3>2, SendType DEF TypeInv
    <2> QED BY <1>2, <2>2, <2>4, <2>5, Gathered
  <1> QED BY <1>5, <1>6, <1>7

(* The dispatch loop, and the agent that is started again.                 *)
LEMMA TypeOfLoop ==
    ASSUME TypeInv, HandleIncomingEvent \/ SendStatsFails
    PROVE  TypeInv'
  <1>0. worker \in WorkerState /\ worker.pc = "loop" /\ Current \in Connections
    BY DEF HandleIncomingEvent, SendStatsFails, At, TypeInv, TypeOK, Shape
  <1>1. /\ evt' = evt /\ panicked' = panicked /\ want' = want /\ heard' = heard
    BY DEF HandleIncomingEvent, SendStatsFails
  <1>2. /\ want' \in [Machines -> Want] /\ heard' \subseteq Event /\ panicked' \in BOOLEAN
        /\ evt' \in [Event -> {"none", "emitted", "published", "dispatched", "dropped"}]
    BY <1>1 DEF TypeInv, TypeOK
  <1>3. ASSUME ConnectionFails PROVE worker' \in WorkerState /\ ConnType' /\ Shape'
    BY <1>0, <1>3, FailType, FailShape DEF TypeInv
  <1>4. ASSUME Handled, worker' \in WorkerState, worker'.conn = worker.conn,
               worker'.pc = "loop", worker'.specs = worker.specs,
               worker'.todo = worker.todo
        PROVE  worker' \in WorkerState /\ ConnType' /\ Shape'
    <2> DEFINE new == [conn[Current] EXCEPT !.receiver = "receiving", !.holding = None]
    <2>1. conn' = [conn EXCEPT ![Current] = new]
      BY <1>4 DEF Handled, TypeInv, TypeOK
    <2>2. new \in Connection /\ new.receiver = "receiving" /\ new.holding = None
      <3>1. conn[Current] \in Connection
        BY <1>0 DEF TypeInv, TypeOK
      <3> QED BY <3>1 DEF Connection
    <2> HIDE DEF new
    <2>3. ConnType'
      BY <1>0, <2>1, <2>2, OneConnection DEF TypeInv
    <2>4. \A c \in Connections \ {Current} : conn'[c] = conn[c]
      BY <2>1 DEF TypeInv, TypeOK
    <2>5. Shape'
      BY <1>0, <1>4, <2>4 DEF Shape, Current, TypeInv
    <2> QED BY <1>4, <2>3, <2>5
  <1>5. CASE SendStatsFails
    <2>1. machine' \in [Machines -> Machine] /\ faults' \in Nat
      BY <1>5 DEF SendStatsFails, TypeInv, TypeOK
    <2>2. ConnectionFails
      BY <1>5 DEF SendStatsFails
    <2> QED BY <1>2, <1>3, <2>1, <2>2, Gathered
  <1>6. CASE HandleIncomingEvent
    <2> DEFINE m == conn[Current].holding.machine
               d == conn[Current].holding.desired
    <2>1. m \in Machines /\ d \in Desired
      <3>1. conn[Current].holding \in Message \cup {None} /\ conn[Current].holding # None
        BY <1>0, <1>6 DEF HandleIncomingEvent, TypeInv, TypeOK, Connection
      <3> QED BY <3>1 DEF Message
    <2>2. machine' \in [Machines -> Machine] /\ faults' \in Nat
      <3>1. (\E ok \in BOOLEAN : Create(m, d, ok)) \/
            (UpdateDesiredState({m}, d) /\ faults' = faults)
        BY <1>6 DEF HandleIncomingEvent
      <3> QED BY <2>1, <3>1, CreateType, AskType DEF TypeInv, TypeOK
    <2>3. \/ ConnectionFails
          \/ Handled /\ worker' = [worker EXCEPT !.synced = @ \cup {m}]
          \/ Handled /\ worker' = worker
      BY <1>6 DEF HandleIncomingEvent
    <2> HIDE DEF m, d
    <2>4. ASSUME Handled, worker' = [worker EXCEPT !.synced = @ \cup {m}]
          PROVE  worker' \in WorkerState /\ ConnType' /\ Shape'
      <3>1. /\ worker' \in WorkerState /\ worker'.conn = worker.conn
            /\ worker'.pc = "loop" /\ worker'.specs = worker.specs
            /\ worker'.todo = worker.todo
        BY <1>0, <2>1, <2>4 DEF WorkerState
      <3> QED BY <1>4, <2>4, <3>1
    <2>5. worker' \in WorkerState /\ ConnType' /\ Shape'
      BY <1>0, <1>3, <1>4, <2>3, <2>4
    <2> QED BY <1>2, <2>2, <2>5, Gathered
  <1> QED BY <1>5, <1>6

LEMMA TypeOfRestart ==
    ASSUME TypeInv, Restart
    PROVE  TypeInv'
  <1>1. worker' = IdleWorker /\ conn' = [c \in Connections |-> NoConnection]
        /\ want' = want /\ heard' = heard
    BY DEF Restart
  <1>2. NoConnection \in Connection /\ IdleWorker \in WorkerState
    BY DEF NoConnection, Connection, IdleWorker, WorkerState, Want
  <1>3. ConnType' /\ worker' \in WorkerState
    BY <1>1, <1>2 DEF ConnType, NoConnection
  <1>4. Shape'
    BY <1>1 DEF Shape, IdleWorker, NoConnection
  <1>5. machine' \in [Machines -> Machine]
    <2>1. ASSUME NEW m \in Machines PROVE machine'[m] \in Machine
      <3>1. machine'[m] = [machine[m] EXCEPT !.controller = (machine[m].row = "live"),
                                             !.asked = {}]
        BY DEF Restart
      <3>2. machine[m] \in Machine
        BY DEF TypeInv, TypeOK
      <3> QED BY <3>1, <3>2 DEF Machine
    <2> QED BY <2>1 DEF Restart
  <1>6. evt' \in [Event -> {"none", "emitted", "published", "dispatched", "dropped"}]
    <2>1. ASSUME NEW e \in Event
          PROVE  evt'[e] \in {"none", "emitted", "published", "dispatched", "dropped"}
      BY DEF Restart, TypeInv, TypeOK
    <2> QED BY <2>1 DEF Restart
  <1>7. faults' \in Nat /\ panicked' \in BOOLEAN
    BY ChargeType DEF Restart, TypeInv, TypeOK
  <1> QED BY <1>1, <1>3, <1>4, <1>5, <1>6, <1>7, Gathered DEF TypeInv, TypeOK

LEMMA TypeStays ==
    ASSUME TypeInv, [Next]_vars PROVE TypeInv'
  <1>1. CASE UNCHANGED vars
    BY <1>1 DEF vars, TypeInv, TypeOK, Shape, Current
  <1> QED BY <1>1, StepCases, TypeOfMachines, TypeOfStreams, TypeOfConnecting, TypeOfSync,
          TypeOfLoop, TypeOfRestart

LEMMA InitialTypeInv ==
    ASSUME Init PROVE TypeInv
  BY InitialType DEF Init, TypeInv, Shape, IdleWorker, NoConnection

(* Every variable keeps to its type, and a receiver holds a message        *)
(* exactly while it waits for the dispatch loop (dispatch.go).             *)
THEOREM RegistrationTypeCorrect == Spec => []TypeOK
  <1>1. TypeInv => TypeOK
    BY DEF TypeInv
  <1> QED BY InitialTypeInv, TypeStays, <1>1, PTL DEF Spec

-------------------------------------------------------------------------------
(* No event falls between the replay and the live events.                  *)

(* A machine the node never had has no controller and no events.           *)
AbsentInv ==
    \A m \in Machines : machine[m].row = "absent" =>
      ~machine[m].controller /\ \A e \in EventsOf(m) : evt[e] = "none"

(* The context of the connection in use is not cancelled, and its channel  *)
(* is open before the first machine is synchronised.                       *)
ContextInv ==
    /\ worker.pc # "idle" => ~conn[Current].cancelled
    /\ worker.pc \in {"sync", "update", "replay", "loop"} => conn[Current].channel = "open"
    /\ worker.pc \in {"idle", "register", "subscribe"} => worker.synced = {}

ListenInv == TypeInv /\ AbsentInv /\ ContextInv /\ SyncedMissesNothing

(* An event has one machine.                                               *)
LEMMA EventOfMachine ==
    ASSUME NEW m \in Machines, NEW e \in EventsOf(m)
    PROVE  e \in Event /\ e[1] = m
  BY DEF EventsOf, Event

LEMMA OwnEvents ==
    ASSUME NEW m \in Machines, NEW s \in {"running", "terminated"},
           NEW k \in Machines, NEW e \in EventsOf(k), e = <<m, s>>
    PROVE  k = m
  BY DEF EventsOf

(* What a step does to rows and controllers.                               *)
LEMMA RowsAfter ==
    ASSUME TypeInv, AbsentInv, [Next]_vars, NEW m \in Machines,
           machine'[m].row = "absent"
    PROVE  machine[m].row = "absent" /\ ~machine'[m].controller
  <1>0. \A k \in Machines : machine[k] \in Machine
    BY DEF TypeInv, TypeOK
  <1>1. CASE machine' = machine
    BY <1>1 DEF AbsentInv
  <1>2. ASSUME NEW k \in Machines, NEW d, NEW ok \in BOOLEAN, Create(k, d, ok)
        PROVE  machine[m].row = "absent" /\ ~machine'[m].controller
    <2>1. CASE ok
      <3>1. machine' = [machine EXCEPT ![k] =
                          [NoMachine EXCEPT !.row = "live", !.controller = TRUE,
                                            !.desired = d]]
        BY <1>2, <2>1 DEF Create
      <3>2. machine'[k].row = "live"
        BY <3>1 DEF TypeInv, TypeOK, NoMachine
      <3>3. m # k
        BY <3>2
      <3>4. machine'[m] = machine[m]
        BY <3>1, <3>3 DEF TypeInv, TypeOK
      <3> QED BY <3>4 DEF AbsentInv
    <2>2. CASE ~ok
      BY <1>1, <1>2, <2>2 DEF Create
    <2> QED BY <2>1, <2>2
  <1>3. ASSUME NEW ms, NEW d, UpdateDesiredState(ms, d)
        PROVE  machine[m].row = "absent" /\ ~machine'[m].controller
    <2>1. \/ machine'[m] = machine[m]
          \/ machine'[m] = [machine[m] EXCEPT !.asked = @ \cup {d}]
      BY <1>3 DEF UpdateDesiredState
    <2>2. machine'[m].row = machine[m].row /\ machine'[m].controller = machine[m].controller
      BY <1>0, <2>1 DEF Machine
    <2> QED BY <2>2 DEF AbsentInv
  <1>4. CASE Restart
    <2>1. machine'[m] = [machine[m] EXCEPT !.controller = (machine[m].row = "live"),
                                           !.asked = {}]
      BY <1>4 DEF Restart
    <2> QED BY <1>0, <2>1 DEF Machine
  <1>5. ASSUME NEW k \in Machines, Retire(k)
        PROVE  machine[m].row = "absent" /\ ~machine'[m].controller
    <2>1. machine[k].controller
      BY <1>5 DEF Retire
    <2>2. machine'[k].row = machine[k].row
      BY <1>0, <1>5 DEF Retire, TypeInv, TypeOK, Machine
    <2>3. m # k => machine'[m] = machine[m]
      BY <1>5 DEF Retire, TypeInv, TypeOK
    <2> QED BY <2>1, <2>2, <2>3 DEF AbsentInv
  <1>6. ASSUME NEW k \in Machines, NEW s \in {"running", "terminated"},
               DesiredStateChanged(k, s)
        PROVE  machine[m].row = "absent" /\ ~machine'[m].controller
    <2>1. machine[k].controller
      BY <1>6 DEF DesiredStateChanged
    <2>2. machine'[k].row = machine[k].row
      BY <1>0, <1>6 DEF DesiredStateChanged, TypeInv, TypeOK, Machine
    <2>3. m # k => machine'[m] = machine[m]
      BY <1>6 DEF DesiredStateChanged, TypeInv, TypeOK
    <2> QED BY <2>1, <2>2, <2>3 DEF AbsentInv
  <1>7. ASSUME NEW k \in Machines, NEW s \in {"running", "terminated"},
               StateChanged(k, s)
        PROVE  machine[m].row = "absent" /\ ~machine'[m].controller
    <2>1. machine[k].controller
      BY <1>7 DEF StateChanged
    <2>2. machine'[k].row \in {machine[k].row, "terminated"}
      BY <1>0, <1>7 DEF StateChanged, TypeInv, TypeOK, Machine
    <2>3. m # k => machine'[m] = machine[m]
      BY <1>7 DEF StateChanged, TypeInv, TypeOK
    <2> QED BY <2>1, <2>2, <2>3 DEF AbsentInv
  <1>8. \/ machine' = machine
        \/ \E k \in Machines : \E d : \E ok \in BOOLEAN : Create(k, d, ok)
        \/ \E ms : \E d : UpdateDesiredState(ms, d)
        \/ Restart
        \/ \E k \in Machines : Retire(k)
        \/ \E k \in Machines, s \in {"running", "terminated"} :
             DesiredStateChanged(k, s) \/ StateChanged(k, s)
    <2>1. SUFFICES ASSUME ~(\E k \in Machines : \E d : \E ok \in BOOLEAN : Create(k, d, ok)),
                          ~(\E ms : \E d : UpdateDesiredState(ms, d))
                   PROVE \/ machine' = machine \/ Restart
                         \/ \E k \in Machines : Retire(k)
                         \/ \E k \in Machines, s \in {"running", "terminated"} :
                              DesiredStateChanged(k, s) \/ StateChanged(k, s)
      OBVIOUS
    <2>2. ASSUME HandleIncomingEvent PROVE FALSE
      <3>1. conn[Current].holding.machine \in Machines
        <4>1. Current \in Connections
          BY <2>2 DEF HandleIncomingEvent, At, TypeInv, Shape
        <4>2. conn[Current].holding \in Message \cup {None} /\ conn[Current].holding # None
          BY <2>2, <4>1 DEF HandleIncomingEvent, TypeInv, TypeOK, Connection
        <4> QED BY <4>2 DEF Message
      <3> QED BY <2>1, <2>2, <3>1 DEF HandleIncomingEvent
    <2>3. ASSUME NEW k \in Machines, SyncMachine(k) PROVE machine' = machine
      <3>1. \/ machine' = machine
            \/ \E ok \in BOOLEAN : Create(k, worker.specs[k], ok)
        BY <2>3 DEF SyncMachine
      <3> QED BY <2>1, <3>1
    <2>4. ~UpdateFound /\ ~TerminateUnexpected
      BY <2>1 DEF UpdateFound, TerminateUnexpected
    <2> QED BY <2>2, <2>3, <2>4, StepCases
            DEF Wants, Abandons, StreamEnds, CloseChannel, Receive, OpenConnection,
                CheckContext, Forward, StoreEvent, DispatchEvent, Register,
                SubscribeToEvents, ReplayEvents, HandleNilEvent, SendStatsFails, vars
  <1> QED BY <1>1, <1>2, <1>3, <1>4, <1>5, <1>6, <1>7, <1>8

(* What a step does to the events.                                         *)
LEMMA EventsAfter ==
    ASSUME TypeInv, [Next]_vars, NEW e \in Event
    PROVE  \/ evt'[e] = evt[e]
           \/ \E m \in Machines : \E s \in {"running", "terminated"} :
                /\ StateChanged(m, s) /\ e = <<m, s>>
                /\ evt[e] = "none" /\ evt'[e] = "emitted"
           \/ StoreEvent(e) /\ evt[e] = "emitted" /\ evt'[e] \in {"published", "dropped"}
           \/ DispatchEvent(e) /\ evt[e] = "published" /\ evt'[e] = "dispatched"
           \/ Restart
  <1>1. CASE \E k \in Event : StoreEvent(k)
    BY <1>1 DEF StoreEvent, TypeInv, TypeOK
  <1>2. CASE \E k \in Event : DispatchEvent(k)
    BY <1>2 DEF DispatchEvent, TypeInv, TypeOK
  <1>3. ASSUME NEW m \in Machines, NEW s \in {"running", "terminated"}, StateChanged(m, s)
        PROVE  evt'[e] = evt[e] \/ (e = <<m, s>> /\ evt[e] = "none" /\ evt'[e] = "emitted")
    BY <1>3 DEF StateChanged, TypeInv, TypeOK
  <1>4. CASE evt' = evt
    BY <1>4
  <1> QED BY <1>1, <1>2, <1>3, <1>4, StepCases
          DEF Wants, Abandons, Retire, DesiredStateChanged, StreamEnds, CloseChannel, Receive,
              OpenConnection, CheckContext, Forward, SyncMachine, Register, SubscribeToEvents,
              UpdateFound, ReplayEvents, TerminateUnexpected, HandleIncomingEvent,
              HandleNilEvent, SendStatsFails, vars

LEMMA AbsentStays ==
    ASSUME TypeInv, AbsentInv, [Next]_vars PROVE AbsentInv'
  <1> SUFFICES ASSUME NEW m \in Machines, machine'[m].row = "absent"
               PROVE  ~machine'[m].controller /\ \A e \in EventsOf(m) : evt'[e] = "none"
    BY DEF AbsentInv, EventsOf
  <1>1. machine[m].row = "absent" /\ ~machine'[m].controller
    BY RowsAfter
  <1>2. ~machine[m].controller /\ \A e \in EventsOf(m) : evt[e] = "none"
    BY <1>1 DEF AbsentInv
  <1>3. ASSUME NEW e \in EventsOf(m) PROVE evt'[e] = "none"
    <2>1. e \in Event /\ evt[e] = "none"
      BY <1>2 DEF EventsOf
    <2>2. ASSUME NEW k \in Machines, NEW s \in {"running", "terminated"},
                 StateChanged(k, s), e = <<k, s>>
          PROVE  FALSE
      BY <1>2, <2>2, OwnEvents DEF StateChanged
    <2>3. ASSUME Restart PROVE evt'[e] = "none"
      BY <2>1, <2>3 DEF Restart
    <2> QED BY <2>1, <2>2, <2>3, EventsAfter
  <1> QED BY <1>1, <1>3

(* What a step does to a stream and to the events on their way to it.      *)
SameWire(k, l) ==
    /\ k.link = l.link /\ k.cancelled = l.cancelled /\ k.channel = l.channel
    /\ k.checking = l.checking /\ k.waiting = l.waiting

LEMMA NoFailure ==
    ASSUME worker' # IdleWorker PROVE ~ConnectionFails /\ ~Restart
  BY DEF ConnectionFails, Restart

LEMMA WireAfter ==
    ASSUME TypeInv, [Next]_vars, ~ConnectionFails, ~Restart, NEW c \in Connections
    PROVE  \/ SameWire(conn'[c], conn[c])
           \/ OpenConnection(c) /\ worker'.conn = c /\ worker'.pc = "register"
              /\ ~conn'[c].cancelled
           \/ StreamEnds(c) /\ SameWire(conn'[c], [conn[c] EXCEPT !.link = conn'[c].link])
              /\ conn'[c].link # "open"
           \/ CloseChannel(c)
              /\ SameWire(conn'[c], [conn[c] EXCEPT !.channel = conn'[c].channel])
           \/ \E e \in Event :
                /\ CheckContext(c, e)
                /\ conn'[c].waiting = IF conn[c].cancelled THEN conn[c].waiting
                                      ELSE conn[c].waiting \cup {e}
                /\ conn'[c].checking = conn[c].checking \ {e}
                /\ conn'[c].link = conn[c].link
                /\ conn'[c].channel = conn[c].channel
                /\ conn'[c].cancelled = conn[c].cancelled
           \/ \E e \in Event :
                /\ Forward(c, e) /\ conn[c].channel = "open"
                /\ SameWire(conn'[c], [conn[c] EXCEPT !.waiting = @ \ {e}])
           \/ \E e \in Event :
                /\ DispatchEvent(e) /\ conn[c].channel = "open"
                /\ SameWire(conn'[c], [conn[c] EXCEPT !.checking = @ \cup {e}])
           \/ /\ SubscribeToEvents /\ c = Current
              /\ SameWire(conn'[c], [conn[c] EXCEPT !.channel = "open"])
  <1>0. conn[c] \in Connection
    BY DEF TypeInv, TypeOK
  <1>1. CASE conn' = conn
    BY <1>1 DEF SameWire
  <1>2. ASSUME NEW m \in Machines, Wants(m) PROVE SameWire(conn'[c], conn[c])
    <2>1. PICK x : Tell(x)
      BY <1>2 DEF Wants
    <2>2. conn'[c] = conn[c] \/ conn'[c] = [conn[c] EXCEPT !.inbox = Append(@, x)]
      BY <2>1 DEF Tell
    <2> QED BY <1>0, <2>2 DEF SameWire, Connection
  <1>3. ASSUME NEW k \in Connections, Receive(k) PROVE SameWire(conn'[c], conn[c])
    <2>1. CASE k = c
      BY <1>0, <1>3, <2>1 DEF Receive, SameWire, Connection, TypeInv, TypeOK
    <2>2. CASE k # c
      BY <1>3, <2>2 DEF Receive, SameWire, TypeInv, TypeOK
    <2> QED BY <2>1, <2>2
  <1>4. CASE TerminateUnexpected \/ Handled
    <2>0. \/ conn' = [conn EXCEPT ![Current].receiver = "receiving"]
          \/ conn' = [conn EXCEPT ![Current].receiver = "receiving", ![Current].holding = None]
      BY <1>4 DEF TerminateUnexpected, Handled, Following
    <2>1. \/ conn'[c] = conn[c]
          \/ conn'[c] = [conn[c] EXCEPT !.receiver = "receiving"]
          \/ conn'[c] = [conn[c] EXCEPT !.receiver = "receiving", !.holding = None]
      BY <2>0 DEF TypeInv, TypeOK
    <2> QED BY <1>0, <2>1 DEF SameWire, Connection
  <1>5. ASSUME NEW k \in Connections, OpenConnection(k)
        PROVE  \/ SameWire(conn'[c], conn[c])
               \/ OpenConnection(c) /\ worker'.conn = c /\ worker'.pc = "register"
                  /\ ~conn'[c].cancelled
    <2>1. CASE k = c
      BY <1>5, <2>1 DEF OpenConnection, NoConnection, IdleWorker, TypeInv, TypeOK
    <2>2. CASE k # c
      BY <1>5, <2>2 DEF OpenConnection, SameWire, TypeInv, TypeOK
    <2> QED BY <2>1, <2>2
  <1>6. ASSUME NEW k \in Connections, StreamEnds(k)
        PROVE  \/ SameWire(conn'[c], conn[c])
               \/ StreamEnds(c) /\ SameWire(conn'[c], [conn[c] EXCEPT !.link = conn'[c].link])
                  /\ conn'[c].link # "open"
    <2>1. CASE k = c
      <3>1. PICK how \in {"broken", "eof"} : conn'[c] = [conn[c] EXCEPT !.link = how]
        BY <1>6, <2>1 DEF StreamEnds, TypeInv, TypeOK
      <3> QED BY <1>0, <1>6, <2>1, <3>1 DEF SameWire, Connection
    <2>2. CASE k # c
      BY <1>6, <2>2 DEF StreamEnds, SameWire, TypeInv, TypeOK
    <2> QED BY <2>1, <2>2
  <1>7. ASSUME NEW k \in Connections, CloseChannel(k)
        PROVE  \/ SameWire(conn'[c], conn[c])
               \/ CloseChannel(c)
                  /\ SameWire(conn'[c], [conn[c] EXCEPT !.channel = conn'[c].channel])
    <2>1. CASE k = c
      <3>1. conn'[c] = [conn[c] EXCEPT !.channel = "closed"]
        BY <1>7, <2>1 DEF CloseChannel, TypeInv, TypeOK
      <3> QED BY <1>0, <1>7, <2>1, <3>1 DEF SameWire, Connection
    <2>2. CASE k # c
      BY <1>7, <2>2 DEF CloseChannel, SameWire, TypeInv, TypeOK
    <2> QED BY <2>1, <2>2
  <1>8. ASSUME NEW k \in Connections, NEW e \in Event, CheckContext(k, e), k = c
        PROVE  /\ conn'[c].waiting = IF conn[c].cancelled THEN conn[c].waiting
                                     ELSE conn[c].waiting \cup {e}
               /\ conn'[c].checking = conn[c].checking \ {e}
               /\ conn'[c].link = conn[c].link
               /\ conn'[c].channel = conn[c].channel
               /\ conn'[c].cancelled = conn[c].cancelled
    <2> DEFINE w == IF conn[c].cancelled THEN conn[c].waiting ELSE conn[c].waiting \cup {e}
    <2>1. conn'[c] = [conn[c] EXCEPT !.checking = @ \ {e}, !.waiting = w]
      BY <1>8 DEF CheckContext, TypeInv, TypeOK
    <2>2. conn'[c].waiting = w
      <3> HIDE DEF w
      <3> QED BY <1>0, <2>1 DEF Connection
    <2> QED BY <1>0, <2>1, <2>2 DEF Connection
  <1>9. ASSUME NEW k \in Connections, NEW e \in Event, CheckContext(k, e) \/ Forward(k, e),
               k # c
        PROVE  SameWire(conn'[c], conn[c])
    BY <1>9 DEF CheckContext, Forward, SameWire, TypeInv, TypeOK
  <1>10. ASSUME NEW k \in Connections, NEW e \in Event, Forward(k, e), k = c
         PROVE  /\ conn[c].channel = "open"
                /\ SameWire(conn'[c], [conn[c] EXCEPT !.waiting = @ \ {e}])
    BY <1>10 DEF Forward, SameWire, TypeInv, TypeOK
  <1>11. ASSUME NEW e \in Event, DispatchEvent(e)
         PROVE  \/ SameWire(conn'[c], conn[c])
                \/ /\ conn[c].channel = "open"
                   /\ SameWire(conn'[c], [conn[c] EXCEPT !.checking = @ \cup {e}])
    BY <1>11 DEF DispatchEvent, SameWire
  <1>12. ASSUME SubscribeToEvents
         PROVE  \/ SameWire(conn'[c], conn[c])
                \/ /\ c = Current
                   /\ SameWire(conn'[c], [conn[c] EXCEPT !.channel = "open"])
    <2>1. conn' = [conn EXCEPT ![Current].channel = "open",
                               ![Current].receiver = conn[Current].receiver]
      BY <1>12 DEF SubscribeToEvents, Following, TypeInv, TypeOK
    <2>2. CASE c = Current
      <3>1. conn'[c] = [conn[c] EXCEPT !.channel = "open", !.receiver = conn[c].receiver]
        BY <2>1, <2>2 DEF TypeInv, TypeOK
      <3> QED BY <1>0, <2>2, <3>1 DEF SameWire, Connection
    <2>3. CASE c # Current
      BY <2>1, <2>3 DEF SameWire, TypeInv, TypeOK
    <2> QED BY <2>2, <2>3
  <1>13. ~ConnectionFails /\ ~Restart
    OBVIOUS
  <1>14. CASE \/ \E m \in Machines : SyncMachine(m)
              \/ Register \/ UpdateFound \/ ReplayEvents \/ HandleIncomingEvent
    <2>1. conn' = conn \/ Handled
      BY <1>13, <1>14 DEF SyncMachine, Register, UpdateFound, ReplayEvents,
         HandleIncomingEvent
    <2> QED BY <1>1, <1>4, <2>1
  <1>15. CASE \/ \E m \in Machines : Abandons(m) \/ Retire(m)
              \/ \E m \in Machines : \E s \in {"running", "terminated"} :
                   DesiredStateChanged(m, s) \/ StateChanged(m, s)
              \/ \E e \in Event : StoreEvent(e)
              \/ HandleNilEvent \/ UNCHANGED vars
    BY <1>1, <1>15 DEF Abandons, Retire, DesiredStateChanged, StateChanged, StoreEvent,
       HandleNilEvent, vars
  <1>16. ~SendStatsFails
    BY <1>13 DEF SendStatsFails
  <1>17. CASE \E k \in Connections : \E e \in Event : CheckContext(k, e) \/ Forward(k, e)
    <2>1. PICK k \in Connections, e \in Event : CheckContext(k, e) \/ Forward(k, e)
      BY <1>17
    <2>2. CASE k # c
      BY <1>9, <2>1, <2>2
    <2>3. CASE k = c /\ CheckContext(k, e)
      BY <1>8, <2>3
    <2>4. CASE k = c /\ Forward(k, e)
      BY <1>10, <2>4
    <2> QED BY <2>1, <2>2, <2>3, <2>4
  <1> QED BY <1>2, <1>3, <1>4, <1>5, <1>6, <1>7, <1>11, <1>12, <1>13, <1>14, <1>15,
          <1>16, <1>17, StepCases

(* What a step does to the worker.                                         *)
LEMMA WorkerAfter ==
    ASSUME TypeInv, [Next]_vars
    PROVE  \/ worker' = worker
           \/ worker' = IdleWorker
           \/ \E c \in Connections : OpenConnection(c) /\ worker'.pc = "register"
                /\ worker'.synced = {} /\ worker'.conn = c /\ worker.pc = "idle"
           \/ Register /\ worker.pc = "register" /\ worker'.pc = "subscribe"
              /\ worker'.conn = worker.conn /\ worker'.synced = worker.synced
           \/ SubscribeToEvents /\ worker.pc = "subscribe" /\ worker'.pc = "sync"
              /\ worker'.conn = worker.conn /\ worker'.synced = worker.synced
           \/ /\ worker.pc \in {"sync", "update"}
              /\ worker'.pc \in {"sync", "update", "replay", "loop"}
              /\ worker'.conn = worker.conn /\ worker'.synced = worker.synced
           \/ ReplayEvents /\ worker.pc = "replay" /\ worker'.pc = "sync"
              /\ worker'.conn = worker.conn
              /\ worker'.synced = worker.synced \cup {worker.at}
           \/ /\ HandleIncomingEvent /\ worker.pc = "loop" /\ worker'.pc = "loop"
              /\ worker'.conn = worker.conn
              /\ \E m \in Machines : worker'.synced = worker.synced \cup {m}
                                     /\ machine[m].row = "absent"
  <1>0. worker \in WorkerState
    BY DEF TypeInv, TypeOK
  <1>1. ASSUME NEW c \in Connections, OpenConnection(c)
        PROVE  worker'.pc = "register" /\ worker'.synced = {} /\ worker'.conn = c
               /\ worker.pc = "idle"
    BY <1>1 DEF OpenConnection, IdleWorker, At
  <1>2. ASSUME Register
        PROVE  \/ worker' = IdleWorker
               \/ worker.pc = "register" /\ worker'.pc = "subscribe"
                  /\ worker'.conn = worker.conn /\ worker'.synced = worker.synced
    BY <1>0, <1>2 DEF Register, ConnectionFails, Following, At, WorkerState
  <1>3. ASSUME SubscribeToEvents
        PROVE  worker.pc = "subscribe" /\ worker'.pc = "sync"
               /\ worker'.conn = worker.conn /\ worker'.synced = worker.synced
    BY <1>0, <1>3 DEF SubscribeToEvents, Proceed, Following, At, WorkerState
  <1>4. ASSUME NEW m \in Machines, SyncMachine(m)
        PROVE  \/ worker' = IdleWorker
               \/ worker.pc = "sync" /\ worker'.pc \in {"update", "replay"}
                  /\ worker'.conn = worker.conn /\ worker'.synced = worker.synced
    <2>1. \/ worker' = IdleWorker
          \/ \E pc \in {"update", "replay"} : \E isNil \in BOOLEAN :
               worker' = [worker EXCEPT !.pc = pc, !.at = m, !.found = ~isNil]
      BY <1>4 DEF SyncMachine, ConnectionFails
    <2> QED BY <1>0, <1>4, <2>1 DEF SyncMachine, At, WorkerState
  <1>5. ASSUME UpdateFound
        PROVE  \/ worker' = IdleWorker
               \/ worker.pc = "update" /\ worker'.pc = "replay"
                  /\ worker'.conn = worker.conn /\ worker'.synced = worker.synced
    BY <1>0, <1>5 DEF UpdateFound, ConnectionFails, At, WorkerState
  <1>6. ASSUME ReplayEvents
        PROVE  \/ worker' = IdleWorker
               \/ worker.pc = "replay" /\ worker'.pc = "sync"
                  /\ worker'.conn = worker.conn
                  /\ worker'.synced = worker.synced \cup {worker.at}
    <2>1. Following("replay") = "sync"
      BY DEF Following
    <2>2. \/ worker' = IdleWorker
          \/ \E ms : worker' = [worker EXCEPT
               !.pc = "sync", !.todo = @ \ {worker.at}, !.at = None,
               !.found = FALSE, !.synced = @ \cup {worker.at},
               !.expected = ms]
      BY <1>6, <2>1 DEF ReplayEvents, ConnectionFails
    <2> QED BY <1>0, <1>6, <2>2 DEF ReplayEvents, At, WorkerState
  <1>7. ASSUME TerminateUnexpected
        PROVE  worker.pc = "sync" /\ worker'.pc = "loop"
               /\ worker'.conn = worker.conn /\ worker'.synced = worker.synced
    BY <1>0, <1>7 DEF TerminateUnexpected, Proceed, Following, At, WorkerState
  <1>8. ASSUME HandleIncomingEvent
        PROVE  \/ worker' = worker \/ worker' = IdleWorker
               \/ /\ worker.pc = "loop" /\ worker'.pc = "loop"
                  /\ worker'.conn = worker.conn
                  /\ \E m \in Machines : worker'.synced = worker.synced \cup {m}
                                         /\ machine[m].row = "absent"
    <2> DEFINE m == conn[Current].holding.machine
               d == conn[Current].holding.desired
    <2>0. worker.pc = "loop" /\ Current \in Connections
      BY <1>8 DEF HandleIncomingEvent, At, TypeInv, Shape
    <2>1. m \in Machines
      <3>1. conn[Current].holding \in Message \cup {None} /\ conn[Current].holding # None
        BY <1>8, <2>0 DEF HandleIncomingEvent, TypeInv, TypeOK, Connection
      <3> QED BY <3>1 DEF Message
    <2>2. \/ worker' = worker \/ worker' = IdleWorker
          \/ Create(m, d, TRUE) /\ worker' = [worker EXCEPT !.synced = @ \cup {m}]
      BY <1>8 DEF HandleIncomingEvent, ConnectionFails
    <2> HIDE DEF m, d
    <2> QED BY <1>0, <2>0, <2>1, <2>2 DEF Create, WorkerState
  <1>9. SendStatsFails \/ Restart => worker' = IdleWorker
    BY DEF SendStatsFails, ConnectionFails, Restart
  <1>10. CASE \/ \E m \in Machines : Wants(m) \/ Abandons(m) \/ Retire(m)
              \/ \E m \in Machines : \E s \in {"running", "terminated"} :
                   DesiredStateChanged(m, s) \/ StateChanged(m, s)
              \/ \E c \in Connections : StreamEnds(c) \/ CloseChannel(c) \/ Receive(c)
              \/ \E c \in Connections : \E e \in Event : CheckContext(c, e) \/ Forward(c, e)
              \/ \E e \in Event : StoreEvent(e) \/ DispatchEvent(e)
              \/ HandleNilEvent \/ UNCHANGED vars
    BY <1>10 DEF Wants, Abandons, Retire, DesiredStateChanged, StateChanged, StreamEnds,
       CloseChannel, Receive, CheckContext, Forward, StoreEvent, DispatchEvent,
       HandleNilEvent, vars
  <1> QED BY <1>1, <1>2, <1>3, <1>4, <1>5, <1>6, <1>7, <1>8, <1>9, <1>10, StepCases

LEMMA ContextStays ==
    ASSUME TypeInv, ContextInv, [Next]_vars PROVE ContextInv'
  <1>1. CASE worker' = IdleWorker
    BY <1>1 DEF IdleWorker, ContextInv
  <1>2. CASE worker' # IdleWorker
    <2>1. worker'.pc \in {"idle", "register", "subscribe"} => worker'.synced = {}
      BY <1>2, WorkerAfter DEF ContextInv
    <2>2. ASSUME worker'.pc # "idle"
          PROVE  /\ ~conn'[worker'.conn].cancelled
                 /\ worker'.pc \in {"sync", "update", "replay", "loop"}
                      => conn'[worker'.conn].channel = "open"
      <3>1. CASE \E c \in Connections : OpenConnection(c) /\ worker'.pc = "register"
                   /\ worker'.synced = {} /\ worker'.conn = c /\ worker.pc = "idle"
        <4>1. PICK c \in Connections : OpenConnection(c) /\ worker'.conn = c
          BY <3>1
        <4>2. conn'[c].cancelled = FALSE
          BY <4>1 DEF OpenConnection, NoConnection, TypeInv, TypeOK
        <4> QED BY <3>1, <4>1, <4>2
      <3>2. CASE worker'.conn = worker.conn /\ worker.pc # "idle"
        <4> DEFINE c == worker.conn
        <4>1. c \in Connections /\ conn[c] \in Connection /\ ~conn[c].cancelled
          BY <3>2 DEF ContextInv, TypeInv, TypeOK, Shape, Current
        <4>2. worker.pc \in {"sync", "update", "replay", "loop"} => conn[c].channel = "open"
          BY DEF ContextInv, Current
        <4>3. ~CloseChannel(c)
          BY <4>1 DEF CloseChannel
        <4>4. ~OpenConnection(c)
          BY <3>2 DEF OpenConnection, At
        <4>5. /\ ~conn'[c].cancelled
              /\ conn'[c].channel = conn[c].channel \/ conn'[c].channel = "open"
          BY <1>2, <4>1, <4>3, <4>4, NoFailure, WireAfter DEF SameWire, Connection
        <4>6. CASE worker.pc \in {"sync", "update", "replay", "loop"}
          BY <3>2, <4>2, <4>5, <4>6
        <4>7. CASE worker'.pc \notin {"sync", "update", "replay", "loop"}
          BY <3>2, <4>5, <4>7
        <4>8. CASE /\ worker.pc \notin {"sync", "update", "replay", "loop"}
                   /\ worker'.pc \in {"sync", "update", "replay", "loop"}
          <5>1. SubscribeToEvents
            BY <1>2, <4>8, WorkerAfter
          <5>2. conn'[c].channel = "open"
            BY <4>1, <5>1 DEF SubscribeToEvents, Following, Current, TypeInv, TypeOK,
               Connection
          <5> QED BY <3>2, <4>5, <5>2
        <4> QED BY <4>6, <4>7, <4>8
      <3> QED BY <1>2, <2>2, <3>1, <3>2, WorkerAfter
    <2> QED BY <2>1, <2>2 DEF ContextInv, Current
  <1> QED BY <1>1, <1>2

(* What the control plane heard, it heard.                                 *)
LEMMA HeardStays ==
    ASSUME [Next]_vars PROVE heard \subseteq heard'
  BY StepCases
     DEF Wants, Abandons, Retire, DesiredStateChanged, StateChanged, StreamEnds, CloseChannel,
         Receive, OpenConnection, CheckContext, Forward, StoreEvent, DispatchEvent,
         SyncMachine, Register, SubscribeToEvents, UpdateFound, ReplayEvents,
         TerminateUnexpected, HandleIncomingEvent, HandleNilEvent, SendStatsFails, Restart,
         Send, Hears, vars

(* The argument, for one event of one machine that is synchronised.        *)
LEMMA NothingMissed ==
    ASSUME ListenInv, [Next]_vars, worker' # IdleWorker,
           NEW m \in Machines, NEW e \in EventsOf(m),
           m \in worker'.synced, evt'[e] \in {"published", "dispatched"},
           conn'[worker'.conn].link = "open"
    PROVE  \/ e \in heard' \/ evt'[e] = "published"
           \/ e \in conn'[worker'.conn].checking \cup conn'[worker'.conn].waiting
  <1> DEFINE c == worker.conn
  <1>0. e \in Event /\ TypeInv /\ AbsentInv /\ ContextInv
    BY DEF EventsOf, ListenInv
  <1>1. worker.pc \in {"sync", "update", "replay", "loop"} /\ worker'.conn = c
    <2>1. worker.pc \in {"idle", "register", "subscribe"} => worker.synced = {}
      BY <1>0 DEF ContextInv
    <2>2. worker.pc \in {"idle", "register", "subscribe", "sync", "update", "replay", "loop"}
      BY <1>0 DEF TypeInv, TypeOK, WorkerState
    <2>3. worker.pc \in {"sync", "update", "replay", "loop"}
      BY <1>0, <2>1, <2>2, WorkerAfter
    <2> QED BY <1>0, <2>3, WorkerAfter
  <1>2. /\ c \in Connections /\ conn[c] \in Connection /\ ~conn[c].cancelled
        /\ conn[c].channel = "open"
    BY <1>0, <1>1 DEF ContextInv, TypeInv, TypeOK, Shape, Current
  <1>3. ~CloseChannel(c) /\ ~OpenConnection(c) /\ ~SubscribeToEvents /\ ~Restart
    BY <1>1, <1>2 DEF CloseChannel, OpenConnection, SubscribeToEvents, Restart, At
  <1>4. /\ conn[c].link = "open"
        /\ \/ SameWire(conn'[c], conn[c])
           \/ \E k \in Event :
                /\ CheckContext(c, k)
                /\ conn'[c].waiting = conn[c].waiting \cup {k}
                /\ conn'[c].checking = conn[c].checking \ {k}
           \/ \E k \in Event :
                /\ Forward(c, k) /\ conn'[c].waiting = conn[c].waiting \ {k}
                /\ conn'[c].checking = conn[c].checking
           \/ \E k \in Event :
                /\ DispatchEvent(k) /\ conn'[c].waiting = conn[c].waiting
                /\ conn'[c].checking = conn[c].checking \cup {k}
    <2>1. conn'[c].link = "open"
      BY <1>1
    <2>2. CASE SameWire(conn'[c], conn[c])
      BY <2>1, <2>2 DEF SameWire
    <2>3. ASSUME NEW k \in Event,
                 /\ CheckContext(c, k)
                 /\ conn'[c].waiting = IF conn[c].cancelled THEN conn[c].waiting
                                       ELSE conn[c].waiting \cup {k}
                 /\ conn'[c].checking = conn[c].checking \ {k}
                 /\ conn'[c].link = conn[c].link
          PROVE  /\ conn[c].link = "open" /\ CheckContext(c, k)
                 /\ conn'[c].waiting = conn[c].waiting \cup {k}
                 /\ conn'[c].checking = conn[c].checking \ {k}
      BY <1>2, <2>1, <2>3
    <2>4. ASSUME NEW k \in Event, Forward(c, k),
                 SameWire(conn'[c], [conn[c] EXCEPT !.waiting = @ \ {k}])
          PROVE  /\ conn[c].link = "open" /\ Forward(c, k)
                 /\ conn'[c].waiting = conn[c].waiting \ {k}
                 /\ conn'[c].checking = conn[c].checking
      BY <1>2, <2>1, <2>4 DEF SameWire, Connection
    <2>5. ASSUME NEW k \in Event, DispatchEvent(k),
                 SameWire(conn'[c], [conn[c] EXCEPT !.checking = @ \cup {k}])
          PROVE  /\ conn[c].link = "open" /\ DispatchEvent(k)
                 /\ conn'[c].waiting = conn[c].waiting
                 /\ conn'[c].checking = conn[c].checking \cup {k}
      BY <1>2, <2>1, <2>5 DEF SameWire, Connection
    <2> QED BY <1>0, <1>2, <1>3, <2>1, <2>2, <2>3, <2>4, <2>5, NoFailure, WireAfter
  <1>5. CASE m \in worker.synced
    <2>1. CASE evt[e] = "none" \/ evt[e] = "emitted" \/ evt[e] = "dropped"
      BY <1>0, <1>3, <2>1, EventsAfter
    <2>2. CASE evt[e] = "published"
      <3>1. CASE evt'[e] = "published"
        BY <3>1
      <3>2. CASE DispatchEvent(e)
        <4>1. conn'[c] = [conn[c] EXCEPT !.checking = @ \cup {e}]
          BY <1>2, <3>2 DEF DispatchEvent
        <4> QED BY <1>1, <1>2, <4>1 DEF Connection
      <3> QED BY <1>0, <1>3, <2>2, <3>1, <3>2, EventsAfter
    <2>3. CASE evt[e] = "dispatched"
      <3>1. e \in heard \/ e \in conn[c].checking \cup conn[c].waiting
        BY <1>4, <1>5, <2>3 DEF ListenInv, SyncedMissesNothing, Stored, Current
      <3>2. CASE e \in heard
        BY <3>2, HeardStays
      <3>3. CASE e \in conn[c].checking \cup conn[c].waiting
        <4>1. ASSUME NEW k \in Event, Forward(c, k) PROVE k \in heard'
          BY <1>4, <4>1 DEF Forward, Send, Hears
        <4>2. CASE SameWire(conn'[c], conn[c])
          BY <1>1, <3>3, <4>2 DEF SameWire
        <4> QED BY <1>1, <1>4, <3>3, <4>1, <4>2
      <3> QED BY <3>1, <3>2, <3>3
    <2>4. evt[e] \in {"none", "emitted", "published", "dispatched", "dropped"}
      BY <1>0 DEF TypeInv, TypeOK
    <2> QED BY <2>1, <2>2, <2>3, <2>4
  <1>6. CASE m \notin worker.synced
    <2>1. CASE /\ HandleIncomingEvent
               /\ \E k \in Machines : worker'.synced = worker.synced \cup {k}
                                      /\ machine[k].row = "absent"
      <3>1. evt[e] = "none"
        BY <1>0, <1>6, <2>1 DEF AbsentInv
      <3>2. evt' = evt
        BY <2>1 DEF HandleIncomingEvent
      <3> QED BY <3>1, <3>2
    <2>2. CASE ReplayEvents /\ worker'.synced = worker.synced \cup {worker.at}
      <3>1. m = worker.at /\ evt' = evt
        BY <1>6, <2>2 DEF ReplayEvents
      <3>2. PICK ok \in BOOLEAN : Send(c, PreviousEvents(m) \cup FakeTermination(m), ok)
        BY <2>2, <3>1 DEF ReplayEvents, Current
      <3>3. e \in PreviousEvents(m)
        BY <3>1 DEF PreviousEvents, Stored
      <3> QED BY <1>4, <3>2, <3>3 DEF Send, Hears
    <2> QED BY <1>0, <1>1, <1>6, <2>1, <2>2, WorkerAfter
  <1> QED BY <1>5, <1>6

LEMMA ListenStays ==
    ASSUME ListenInv, [Next]_vars PROVE ListenInv'
  <1>1. TypeInv' /\ AbsentInv' /\ ContextInv'
    BY TypeStays, AbsentStays, ContextStays DEF ListenInv
  <1>2. SyncedMissesNothing'
    <2>1. CASE worker' = IdleWorker
      BY <2>1 DEF IdleWorker, SyncedMissesNothing
    <2>2. CASE worker' # IdleWorker
      <3>1. worker'.synced \subseteq Machines
        BY <1>1 DEF TypeInv, TypeOK, WorkerState
      <3> SUFFICES ASSUME NEW m \in Machines, m \in worker'.synced, NEW e \in EventsOf(m),
                          evt'[e] \in {"published", "dispatched"},
                          conn'[worker'.conn].link = "open"
                   PROVE  \/ e \in heard' \/ evt'[e] = "published"
                          \/ e \in conn'[worker'.conn].checking
                                     \cup conn'[worker'.conn].waiting
        BY <3>1 DEF SyncedMissesNothing, Stored, Current
      <3> QED BY <2>2, NothingMissed
    <2> QED BY <2>1, <2>2
  <1> QED BY <1>1, <1>2 DEF ListenInv

LEMMA InitialListen ==
    ASSUME Init PROVE ListenInv
  BY InitialTypeInv
     DEF Init, ListenInv, AbsentInv, ContextInv, SyncedMissesNothing, IdleWorker, NoMachine,
         EventsOf

(* Once a machine is synchronised, on a stream that still works, each of   *)
(* its stored events was heard or is on its way on this connection: the    *)
(* subscription comes before the list (connection.go:45-47).               *)
THEOREM ListenCorrect == Spec => []SyncedMissesNothing
  <1>1. ListenInv => SyncedMissesNothing
    BY DEF ListenInv
  <1> QED BY InitialListen, ListenStays, <1>1, PTL DEF Spec

-------------------------------------------------------------------------------
(* Node and control plane agree when the dispatch loop has nothing to do.  *)

(* A machine on its way out: its controller is to terminate it, or was     *)
(* told to.                                                                *)
Leaving(m) == machine[m].desired = "terminated" \/ "terminated" \in machine[m].asked
Gone(m) == want[m] \in {"terminated", "done"}

(* A machine is terminated only because it is not wanted any more, and an  *)
(* event of its end means that it ended.                                   *)
LifeInv ==
    \A m \in Machines :
      /\ machine[m].row = "live" => machine[m].controller
      /\ machine[m].row = "terminated" <=> machine[m].state = "terminated"
      /\ machine[m].state = "terminated" => machine[m].desired = "terminated"
      /\ machine[m].controller => machine[m].desired # "none"
      /\ machine[m].asked \subseteq {"terminated"}
      /\ evt[<<m, "terminated">>] # "none" => machine[m].state = "terminated"
WantInv ==
    \A m \in Machines : /\ want[m] = "none" => machine[m].row = "absent"
                        /\ machine[m].row = "absent" => ~Leaving(m)
                        /\ Leaving(m) => Gone(m)
TrailInv ==
    \A c \in Connections : \A e \in conn[c].checking \cup conn[c].waiting : evt[e] # "none"

(* What the answer to the registration says of a machine, and how far the  *)
(* node is in doing it.                                                    *)
Synchronising == worker.pc \in {"subscribe", "sync", "update", "replay"}
SyncOf(m) ==
    LET s == worker.specs[m]
    IN /\ s = "none" => machine[m].row = "absent"
       /\ s = "running" => ~Leaving(m) /\ want[m] # "none"
       /\ s \in {"terminated", "done"} => Gone(m)
       /\ s = "running" /\ m \notin worker.todo
            => m \in worker.expected /\ machine[m].controller
       /\ s = "terminated" /\ m \notin worker.todo /\ machine[m].controller => Leaving(m)
       /\ m \in worker.expected => s # "done"
       /\ worker.pc = "update" /\ worker.at = m => s = "terminated"
       /\ worker.pc = "replay" /\ worker.at = m =>
            /\ s = "running" => worker.found /\ machine[m].controller
            /\ s = "terminated" /\ machine[m].controller => Leaving(m)
SyncInv == Synchronising => \A m \in Machines : SyncOf(m)

(* What is under way to the node: no machine has two messages of a kind,   *)
(* and the one that starts it comes first.                                 *)
Msg(m, d) == [machine |-> m, desired |-> d]
InQueue(q, x) == \E k \in DOMAIN q : q[k] = x
Pending(k, m, d) == k.holding = Msg(m, d) \/ InQueue(k.inbox, Msg(m, d))
Later(x, y) == x.machine = y.machine => x.desired = "running" /\ y.desired = "terminated"
InOrder(k) ==
    /\ \A i, j \in DOMAIN k.inbox : i < j => Later(k.inbox[i], k.inbox[j])
    /\ k.holding # None => \A j \in DOMAIN k.inbox : Later(k.holding, k.inbox[j])
QueueOf(m) ==
    /\ Pending(conn[Current], m, "running") =>
         /\ want[m] # "none" /\ machine[m].row = "absent"
         /\ Synchronising => worker.specs[m] = "none"
    /\ Pending(conn[Current], m, "terminated") => Gone(m)
QueueInv ==
    /\ worker.pc = "register" => conn[Current].inbox = <<>> /\ worker.expected = {}
    /\ worker.pc # "idle" => /\ InOrder(conn[Current])
                             /\ \A m \in Machines : QueueOf(m)

(* On a stream that works, what the node does not know yet is under way.   *)
Serves(m) == IF At("loop") THEN machine[m].controller ELSE worker.specs[m] = "running"
Serving(m) == ~Leaving(m) /\ Serves(m)
Ending(m) == IF At("loop") THEN machine[m].controller => Leaving(m)
             ELSE worker.specs[m] \in {"terminated", "done"}
OpenOf(m) ==
    LET starts == Pending(conn[Current], m, "running")
        ends   == Pending(conn[Current], m, "terminated")
    IN /\ starts => want[m] = "running" \/ (want[m] = "terminated" /\ ends)
       /\ ends => want[m] = "terminated"
       /\ ~starts /\ (ends \/ want[m] = "running") => Serving(m)
       /\ ~starts /\ ~ends /\ Gone(m) => Ending(m)
OpenInv ==
    worker.pc \notin {"idle", "register"} /\ conn[Current].link = "open"
      => \A m \in Machines : OpenOf(m)

AgreeInv == /\ TypeInv /\ AbsentInv /\ LifeInv /\ WantInv /\ TrailInv
            /\ SyncInv /\ QueueInv /\ OpenInv

(* The ways in which a step changes a machine.                             *)
Kept(m) == /\ machine'[m].row = machine[m].row
           /\ machine'[m].controller = machine[m].controller
           /\ machine'[m].state = machine[m].state
           /\ machine'[m].desired = machine[m].desired
           /\ machine'[m].asked = machine[m].asked
Created(m) ==
    /\ machine[m].row = "absent" /\ want[m] # "none" /\ UNCHANGED <<want, evt>>
    /\ machine'[m].row = "live" /\ machine'[m].controller = TRUE
    /\ machine'[m].state = "pending" /\ machine'[m].desired = "running"
    /\ machine'[m].asked = {}
    /\ \/ SyncMachine(m) /\ worker.pc = "sync" /\ worker.specs[m] = "running"
       \/ /\ HandleIncomingEvent /\ worker.pc = "loop" /\ worker'.pc = "loop"
          /\ conn[Current].holding = Msg(m, "running") /\ Handled
Asked(m) ==
    /\ machine[m].controller /\ Gone(m) /\ UNCHANGED <<want, evt>>
    /\ machine'[m].row = machine[m].row
    /\ machine'[m].controller = machine[m].controller
    /\ machine'[m].state = machine[m].state
    /\ machine'[m].desired = machine[m].desired
    /\ machine'[m].asked = machine[m].asked \cup {"terminated"}
    /\ \/ /\ UpdateFound /\ worker.at = m /\ worker.pc = "update"
          /\ worker.specs[m] = "terminated"
       \/ TerminateUnexpected /\ m \notin worker.expected
       \/ /\ HandleIncomingEvent /\ worker.pc = "loop"
          /\ conn[Current].holding = Msg(m, "terminated")
Told(m) ==
    /\ machine[m].controller /\ "terminated" \in machine[m].asked
    /\ UNCHANGED <<want, evt>>
    /\ machine'[m].row = machine[m].row
    /\ machine'[m].controller = machine[m].controller
    /\ machine'[m].state = machine[m].state
    /\ machine'[m].desired = "terminated"
    /\ machine'[m].asked = machine[m].asked \ {"terminated"}
Reached(m) ==
    /\ machine[m].controller /\ machine[m].state # "terminated" /\ want' = want
    /\ machine'[m].row = IF machine[m].desired = "terminated" THEN "terminated"
                         ELSE machine[m].row
    /\ machine'[m].controller = machine[m].controller
    /\ machine'[m].state = machine[m].desired
    /\ machine'[m].desired = machine[m].desired
    /\ machine'[m].asked = machine[m].asked
    /\ StateChanged(m, machine[m].desired)
Retired(m) ==
    /\ machine[m].state = "terminated" /\ UNCHANGED <<want, evt>>
    /\ machine'[m].row = machine[m].row
    /\ machine'[m].controller = FALSE
    /\ machine'[m].state = machine[m].state
    /\ machine'[m].desired = machine[m].desired
    /\ machine'[m].asked = {}
Reloaded(m) ==
    /\ Restart
    /\ machine'[m].row = machine[m].row
    /\ machine'[m].controller = (machine[m].row = "live")
    /\ machine'[m].state = machine[m].state
    /\ machine'[m].desired = machine[m].desired
    /\ machine'[m].asked = {}

LEMMA AskedOne ==
    ASSUME TypeInv, NEW ms, UpdateDesiredState(ms, "terminated"), NEW m \in Machines
    PROVE  \/ /\ machine'[m] = machine[m]
              /\ m \notin ms \/ ~machine[m].controller
           \/ /\ m \in ms /\ machine[m].controller
              /\ machine'[m].row = machine[m].row
              /\ machine'[m].controller = machine[m].controller
              /\ machine'[m].state = machine[m].state
              /\ machine'[m].desired = machine[m].desired
              /\ machine'[m].asked = machine[m].asked \cup {"terminated"}
  <1>1. machine[m] \in Machine
    BY DEF TypeInv, TypeOK
  <1>2. CASE m \in ms /\ machine[m].controller
    <2>1. machine'[m] = [machine[m] EXCEPT !.asked = @ \cup {"terminated"}]
      BY <1>2 DEF UpdateDesiredState
    <2> QED BY <1>1, <1>2, <2>1 DEF Machine
  <1>3. CASE ~(m \in ms /\ machine[m].controller)
    BY <1>3 DEF UpdateDesiredState
  <1> QED BY <1>2, <1>3

NewMachine(d) == [NoMachine EXCEPT !.row = "live", !.controller = TRUE, !.desired = d]
(* The message the dispatch loop handles.                                  *)
LEMMA HandledMessage ==
    ASSUME TypeInv, HandleIncomingEvent
    PROVE  /\ worker.pc = "loop" /\ Current \in Connections
           /\ conn[Current].holding \in Message /\ conn[Current].holding # None
           /\ conn[Current].holding = Msg(conn[Current].holding.machine,
                                          conn[Current].holding.desired)
           /\ conn[Current].holding.machine \in Machines
           /\ conn[Current].holding.desired \in Desired
  <1>1. worker.pc = "loop" /\ Current \in Connections
    BY DEF HandleIncomingEvent, At, TypeInv, Shape
  <1>2. conn[Current].holding \in Message \cup {None} /\ conn[Current].holding # None
    BY <1>1 DEF HandleIncomingEvent, TypeInv, TypeOK, Connection
  <1> QED BY <1>1, <1>2 DEF Message, Msg

LEMMA MachineAfter ==
    ASSUME AgreeInv, [Next]_vars, NEW m \in Machines
    PROVE  \/ Kept(m) \/ Created(m) \/ Asked(m) \/ Told(m) \/ Reached(m) \/ Retired(m)
           \/ Reloaded(m)
  <1>0. TypeInv /\ machine[m] \in Machine
    BY DEF AgreeInv, TypeInv, TypeOK
  <1>1. CASE machine'[m] = machine[m]
    BY <1>1 DEF Kept
  <1>2. ASSUME NEW k \in Machines, SyncMachine(k), machine'[m] # machine[m]
        PROVE  Created(m)
    <2>1. /\ worker.pc = "sync" /\ k \in worker.todo /\ worker.specs[k] \in Desired
      BY <1>0, <1>2 DEF SyncMachine, At, TypeInv, Shape
    <2>2. /\ worker.specs[k] # "terminated" /\ machine[k].row = "absent"
          /\ machine' = [machine EXCEPT ![k] = NewMachine(worker.specs[k])]
          /\ want' = want /\ evt' = evt
      BY <1>2 DEF SyncMachine, Create, NewMachine
    <2>3. /\ m = k /\ machine[m].row = "absent"
          /\ machine'[m].row = "live" /\ machine'[m].controller = TRUE
          /\ machine'[m].state = "pending" /\ machine'[m].desired = worker.specs[k]
          /\ machine'[m].asked = {}
      <3>1. m = k
        BY <1>0, <1>2, <2>2 DEF TypeInv, TypeOK
      <3>2. machine'[m] = NewMachine(worker.specs[k])
        BY <1>0, <2>2, <3>1 DEF TypeInv, TypeOK
      <3> QED BY <2>2, <3>1, <3>2 DEF NewMachine, NoMachine
    <2>4. worker.specs[k] = "running"
      BY <2>1, <2>2 DEF Desired
    <2>5. want[k] # "none"
      BY <2>1, <2>4 DEF AgreeInv, SyncInv, Synchronising, SyncOf
    <2> QED BY <1>2, <2>1, <2>2, <2>3, <2>4, <2>5 DEF Created
  <1>3. ASSUME HandleIncomingEvent, machine'[m] # machine[m]
        PROVE  Created(m) \/ Asked(m)
    <2> DEFINE k == conn[Current].holding.machine
               d == conn[Current].holding.desired
    <2>1. /\ worker.pc = "loop" /\ conn[Current].holding = Msg(k, d) /\ k \in Machines
          /\ want' = want /\ evt' = evt
      BY <1>0, <1>3, HandledMessage DEF HandleIncomingEvent
    <2>2. Pending(conn[Current], k, d)
      BY <2>1 DEF Pending
    <2>3. QueueOf(k)
      BY <2>1 DEF AgreeInv, QueueInv
    <2>4. \/ /\ d = "running" /\ machine[k].row = "absent" /\ Handled
             /\ machine' = [machine EXCEPT ![k] = NewMachine(d)]
             /\ worker' = [worker EXCEPT !.synced = @ \cup {k}]
          \/ d = "terminated" /\ UpdateDesiredState({k}, d)
      BY <1>3 DEF HandleIncomingEvent, Create, NewMachine
    <2> HIDE DEF k, d
    <2>5. CASE d = "running"
      <3>1. /\ machine[k].row = "absent" /\ Handled
            /\ machine' = [machine EXCEPT ![k] = NewMachine(d)]
            /\ worker' = [worker EXCEPT !.synced = @ \cup {k}]
        BY <2>4, <2>5
      <3>2. /\ m = k /\ machine[m].row = "absent"
            /\ machine'[m].row = "live" /\ machine'[m].controller = TRUE
            /\ machine'[m].state = "pending" /\ machine'[m].desired = d
            /\ machine'[m].asked = {}
        <4>1. m = k
          BY <1>0, <1>3, <3>1 DEF TypeInv, TypeOK
        <4>2. machine'[m] = NewMachine(d)
          BY <1>0, <3>1, <4>1 DEF TypeInv, TypeOK
        <4>3. /\ NewMachine(d).row = "live" /\ NewMachine(d).controller = TRUE
              /\ NewMachine(d).state = "pending" /\ NewMachine(d).desired = d
              /\ NewMachine(d).asked = {}
          BY DEF NewMachine, NoMachine
        <4> QED BY <3>1, <4>1, <4>2, <4>3
      <3>3. want[m] # "none"
        BY <2>2, <2>3, <2>5, <3>2 DEF QueueOf
      <3>4. worker'.pc = "loop"
        BY <1>0, <2>1, <3>1, <3>2 DEF TypeInv, TypeOK, WorkerState
      <3> QED BY <1>3, <2>1, <2>5, <3>1, <3>2, <3>3, <3>4 DEF Created
    <2>6. CASE d = "terminated"
      <3>1. /\ m \in {k} /\ machine[m].controller
            /\ machine'[m].row = machine[m].row
            /\ machine'[m].controller = machine[m].controller
            /\ machine'[m].state = machine[m].state
            /\ machine'[m].desired = machine[m].desired
            /\ machine'[m].asked = machine[m].asked \cup {"terminated"}
        BY <1>0, <1>3, <2>4, <2>6, AskedOne
      <3>2. Gone(m)
        BY <2>2, <2>3, <2>6, <3>1 DEF QueueOf
      <3> QED BY <1>3, <2>1, <2>6, <3>1, <3>2 DEF Asked
    <2> QED BY <2>4, <2>5, <2>6
  <1>4. ASSUME UpdateFound, machine'[m] # machine[m]
        PROVE  Asked(m)
    <2>1. /\ worker.pc = "update" /\ worker.at \in worker.todo /\ worker.at \in Machines
      BY <1>0, <1>4 DEF UpdateFound, At, TypeInv, TypeOK, Shape, WorkerState
    <2>2. worker.specs[worker.at] = "terminated" /\ Gone(worker.at)
      BY <2>1 DEF AgreeInv, SyncInv, Synchronising, SyncOf
    <2>3. UpdateDesiredState({worker.at}, "terminated") /\ want' = want /\ evt' = evt
      BY <1>4, <2>2 DEF UpdateFound
    <2> QED BY <1>0, <1>4, <2>1, <2>2, <2>3, AskedOne DEF Asked
  <1>5. ASSUME TerminateUnexpected, machine'[m] # machine[m]
        PROVE  Asked(m)
    <2>1. /\ worker.pc = "sync" /\ worker.todo = {} /\ want' = want /\ evt' = evt
          /\ UpdateDesiredState(Machines \ worker.expected, "terminated")
      BY <1>5 DEF TerminateUnexpected, At, Expected
    <2>2. /\ m \in Machines \ worker.expected /\ machine[m].controller
          /\ machine'[m].row = machine[m].row
          /\ machine'[m].controller = machine[m].controller
          /\ machine'[m].state = machine[m].state
          /\ machine'[m].desired = machine[m].desired
          /\ machine'[m].asked = machine[m].asked \cup {"terminated"}
      BY <1>0, <1>5, <2>1, AskedOne
    <2>3. SyncOf(m) /\ worker.specs[m] \in {"none", "running", "terminated", "done"}
      BY <1>0, <2>1 DEF AgreeInv, SyncInv, Synchronising, TypeInv, TypeOK, WorkerState, Want
    <2>4. machine[m].row # "absent"
      BY <2>2 DEF AgreeInv, AbsentInv
    <2>5. Gone(m)
      BY <2>1, <2>2, <2>3, <2>4 DEF SyncOf
    <2> QED BY <1>5, <2>1, <2>2, <2>5 DEF Asked
  <1>6. ASSUME NEW k \in Machines, Retire(k), machine'[m] # machine[m]
        PROVE  Retired(m)
    <2>1. /\ m = k /\ machine[m].state = "terminated" /\ want' = want /\ evt' = evt
          /\ machine'[m] = [machine[m] EXCEPT !.controller = FALSE, !.asked = {}]
      BY <1>0, <1>6 DEF Retire, TypeInv, TypeOK
    <2> QED BY <1>0, <2>1 DEF Retired, Machine
  <1>7. ASSUME NEW k \in Machines, NEW d \in {"running", "terminated"},
               DesiredStateChanged(k, d), machine'[m] # machine[m]
        PROVE  Told(m)
    <2>1. /\ m = k /\ machine[m].controller /\ d \in machine[m].asked
          /\ want' = want /\ evt' = evt
          /\ machine'[m] = [machine[m] EXCEPT !.desired = d, !.asked = @ \ {d}]
      BY <1>0, <1>7 DEF DesiredStateChanged, TypeInv, TypeOK
    <2>2. d = "terminated"
      BY <2>1 DEF AgreeInv, LifeInv
    <2> QED BY <1>0, <2>1, <2>2 DEF Told, Machine
  <1>8. ASSUME NEW k \in Machines, NEW d \in {"running", "terminated"},
               StateChanged(k, d), machine'[m] # machine[m]
        PROVE  Reached(m)
    <2> DEFINE row == IF d = "terminated" THEN "terminated" ELSE machine[m].row
    <2>1. /\ m = k /\ machine[m].controller /\ machine[m].desired = d
          /\ machine[m].state # "terminated" /\ want' = want
          /\ machine'[m] = [machine[m] EXCEPT !.state = d, !.row = row]
      BY <1>0, <1>8 DEF StateChanged, TypeInv, TypeOK
    <2>2. machine'[m].row = row
      <3> HIDE DEF row
      <3> QED BY <1>0, <2>1 DEF Machine
    <2>3. StateChanged(m, machine[m].desired)
      BY <1>8, <2>1
    <2>4. /\ machine'[m].controller = machine[m].controller
          /\ machine'[m].state = machine[m].desired
          /\ machine'[m].desired = machine[m].desired
          /\ machine'[m].asked = machine[m].asked
      <3> HIDE DEF row
      <3> QED BY <1>0, <2>1 DEF Machine
    <2> QED BY <2>1, <2>2, <2>3, <2>4 DEF Reached
  <1>9. ASSUME Restart PROVE Reloaded(m)
    <2>1. machine'[m] = [machine[m] EXCEPT !.controller = (machine[m].row = "live"),
                                           !.asked = {}]
      BY <1>9 DEF Restart
    <2> QED BY <1>0, <1>9, <2>1 DEF Reloaded, Machine
  <1>10. CASE machine' = machine
    BY <1>1, <1>10
  <1> QED BY <1>1, <1>2, <1>3, <1>4, <1>5, <1>6, <1>7, <1>8, <1>9, <1>10, StepCases
          DEF Wants, Abandons, StreamEnds, CloseChannel, Receive, OpenConnection,
              CheckContext, Forward, StoreEvent, DispatchEvent, Register,
              SubscribeToEvents, ReplayEvents, HandleNilEvent, SendStatsFails, vars

(* What the control plane expects of a machine changes in four ways.       *)
EndHeard(m) ==
    /\ want'[m] = "done" /\ machine' = machine
    /\ \/ Leaving(m)
       \/ ReplayEvents /\ worker.pc = "replay" /\ worker.at = m
          /\ worker.specs[m] = "terminated"

LEMMA TerminatedLeaves ==
    ASSUME AgreeInv, NEW m \in Machines, evt[<<m, "terminated">>] # "none"
    PROVE  Leaving(m) /\ Gone(m)
  BY DEF AgreeInv, LifeInv, WantInv, Leaving

LEMMA WantAfter ==
    ASSUME AgreeInv, [Next]_vars, NEW m \in Machines
    PROVE  \/ want'[m] = want[m]
           \/ Wants(m) /\ want[m] = "none" /\ want'[m] = "running"
           \/ Wants(m) /\ want[m] = "running" /\ want'[m] = "terminated"
           \/ Abandons(m) /\ want[m] = "running" /\ want'[m] = "done"
           \/ EndHeard(m)
  <1>0. TypeInv
    BY DEF AgreeInv
  <1>1. ASSUME NEW k \in Machines, Wants(k) \/ Abandons(k)
        PROVE  \/ want'[m] = want[m]
               \/ Wants(m) /\ want[m] = "none" /\ want'[m] = "running"
               \/ Wants(m) /\ want[m] = "running" /\ want'[m] = "terminated"
               \/ Abandons(m) /\ want[m] = "running" /\ want'[m] = "done"
    <2>1. CASE k = m
      BY <1>0, <1>1, <2>1 DEF Wants, Abandons, TypeInv, TypeOK
    <2>2. CASE k # m
      BY <1>0, <1>1, <2>2 DEF Wants, Abandons, TypeInv, TypeOK
    <2> QED BY <2>1, <2>2
  <1>2. ASSUME NEW c \in Connections, NEW e \in Event, Forward(c, e)
        PROVE  want'[m] = want[m] \/ EndHeard(m)
    <2>1. CASE want'[m] = want[m]
      BY <2>1
    <2>2. CASE want'[m] # want[m]
      <3>1. want'[m] = "done" /\ e = <<m, "terminated">> /\ machine' = machine
        BY <1>2, <2>2 DEF Forward, Send, Hears
      <3>2. evt[e] # "none"
        BY <1>2 DEF Forward, AgreeInv, TrailInv
      <3>3. Leaving(m)
        BY <3>1, <3>2, TerminatedLeaves
      <3> QED BY <3>1, <3>3 DEF EndHeard
    <2> QED BY <2>1, <2>2
  <1>3. ASSUME ReplayEvents
        PROVE  want'[m] = want[m] \/ EndHeard(m)
    <2>1. CASE want'[m] = want[m]
      BY <2>1
    <2>2. CASE want'[m] # want[m]
      <3>1. /\ want'[m] = "done" /\ machine' = machine /\ worker.pc = "replay"
            /\ <<m, "terminated">> \in PreviousEvents(worker.at) \cup FakeTermination(worker.at)
        BY <1>3, <2>2 DEF ReplayEvents, Send, Hears, At
      <3>2. /\ worker.at \in worker.todo /\ worker.at \in Machines
            /\ worker.specs[worker.at] \in Desired
        BY <1>0, <3>1 DEF TypeInv, TypeOK, Shape, WorkerState
      <3>3. CASE <<m, "terminated">> \in PreviousEvents(worker.at)
        <4>1. evt[<<m, "terminated">>] # "none"
          BY <3>3 DEF PreviousEvents, Stored
        <4> QED BY <3>1, <4>1, TerminatedLeaves DEF EndHeard
      <3>4. CASE <<m, "terminated">> \in FakeTermination(worker.at)
        <4>1. m = worker.at /\ ~worker.found
          BY <3>4 DEF FakeTermination
        <4>2. worker.specs[m] # "running"
          BY <3>1, <4>1 DEF AgreeInv, SyncInv, Synchronising, SyncOf
        <4>3. worker.specs[m] = "terminated"
          BY <3>2, <4>1, <4>2 DEF Desired
        <4> QED BY <1>3, <3>1, <4>1, <4>3 DEF EndHeard
      <3> QED BY <3>1, <3>3, <3>4
    <2> QED BY <2>1, <2>2
  <1>4. CASE want' = want
    BY <1>4
  <1> QED BY <1>1, <1>2, <1>3, <1>4, StepCases
          DEF Retire, DesiredStateChanged, StateChanged, StreamEnds, CloseChannel, Receive,
              OpenConnection, CheckContext, StoreEvent, DispatchEvent, SyncMachine,
              Register, SubscribeToEvents, UpdateFound, TerminateUnexpected,
              HandleIncomingEvent, HandleNilEvent, SendStatsFails, Restart, vars

(* The course of a machine while no agent is started again.                *)
LEMMA Course ==
    ASSUME AgreeInv, [Next]_vars, NEW m \in Machines
    PROVE  /\ Leaving(m)' => Leaving(m) \/ Asked(m)
           /\ ~Restart /\ Leaving(m) => Leaving(m)'
           /\ ~Restart /\ machine'[m].controller => machine[m].controller \/ Created(m)
           /\ ~Restart /\ machine[m].controller => machine'[m].controller \/ Leaving(m)
           /\ machine[m].row = "absent" => machine'[m].row = "absent" \/ Created(m)
           /\ Asked(m) => machine[m].controller
           /\ Created(m) \/ Asked(m) => want' = want
  <1>1. LifeInv /\ AbsentInv
    BY DEF AgreeInv
  <1>2. /\ machine[m].controller => machine[m].row # "absent"
        /\ machine[m].row = "terminated" <=> machine[m].state = "terminated"
        /\ machine[m].state = "terminated" => machine[m].desired = "terminated"
    BY <1>1 DEF LifeInv, AbsentInv
  <1>3. CASE Kept(m)
    BY <1>2, <1>3 DEF Kept, Leaving, Created, Asked
  <1>4. CASE Created(m)
    BY <1>2, <1>4, AbsentStays DEF Created, Leaving, Asked, AgreeInv, WantInv
  <1>5. CASE Asked(m)
    BY <1>2, <1>5 DEF Asked, Leaving, Created
  <1>6. CASE Told(m)
    BY <1>2, <1>6 DEF Told, Leaving, Created, Asked
  <1>7. CASE Reached(m)
    BY <1>2, <1>7 DEF Reached, Leaving, Created, Asked
  <1>8. CASE Retired(m)
    BY <1>2, <1>8 DEF Retired, Leaving, Created, Asked
  <1>9. CASE Reloaded(m)
    BY <1>2, <1>9 DEF Reloaded, Leaving, Created, Asked
  <1> QED BY <1>3, <1>4, <1>5, <1>6, <1>7, <1>8, <1>9, MachineAfter

LEMMA LifeStays ==
    ASSUME AgreeInv, [Next]_vars PROVE LifeInv'
  <1> SUFFICES ASSUME NEW m \in Machines
               PROVE  /\ machine'[m].row = "live" => machine'[m].controller
                      /\ machine'[m].row = "terminated" <=> machine'[m].state = "terminated"
                      /\ machine'[m].state = "terminated"
                           => machine'[m].desired = "terminated"
                      /\ machine'[m].controller => machine'[m].desired # "none"
                      /\ machine'[m].asked \subseteq {"terminated"}
                      /\ evt'[<<m, "terminated">>] # "none"
                           => machine'[m].state = "terminated"
    BY DEF LifeInv
  <1> DEFINE e == <<m, "terminated">>
  <1>1. /\ machine[m].row = "live" => machine[m].controller
        /\ machine[m].row = "terminated" <=> machine[m].state = "terminated"
        /\ machine[m].state = "terminated" => machine[m].desired = "terminated"
        /\ machine[m].controller => machine[m].desired # "none"
        /\ machine[m].asked \subseteq {"terminated"}
        /\ evt[e] # "none" => machine[m].state = "terminated"
        /\ machine[m].row \in {"absent", "live", "terminated"}
        /\ machine[m].controller => machine[m].row # "absent"
        /\ machine[m].row = "absent" => evt[e] = "none"
    BY EventTypes DEF AgreeInv, LifeInv, AbsentInv, TypeInv, TypeOK, Machine, EventsOf
  <1>2. /\ machine'[m].row = "live" => machine'[m].controller
        /\ machine'[m].row = "terminated" <=> machine'[m].state = "terminated"
        /\ machine'[m].state = "terminated" => machine'[m].desired = "terminated"
        /\ machine'[m].controller => machine'[m].desired # "none"
        /\ machine'[m].asked \subseteq {"terminated"}
        /\ machine[m].state = "terminated" => machine'[m].state = "terminated"
    BY <1>1, MachineAfter
       DEF Kept, Created, Asked, Told, Reached, Retired, Reloaded
  <1>3. ASSUME evt'[e] # "none" PROVE machine'[m].state = "terminated"
    <2>1. CASE evt[e] # "none"
      BY <1>1, <1>2, <2>1
    <2>2. CASE evt[e] = "none"
      <3>1. e \in Event
        BY EventTypes
      <3>2. ~Restart
        BY <1>3, <2>2, <3>1 DEF Restart
      <3>3. StateChanged(m, "terminated")
        <4>1. PICK k \in Machines, s \in {"running", "terminated"} :
                StateChanged(k, s) /\ e = <<k, s>>
          BY <1>3, <2>2, <3>1, <3>2, EventsAfter DEF AgreeInv
        <4>2. k = m /\ s = "terminated"
          BY <4>1
        <4> QED BY <4>1, <4>2
      <3>4. machine[m] \in Machine
        BY DEF AgreeInv, TypeInv, TypeOK
      <3> QED BY <3>3, <3>4 DEF StateChanged, AgreeInv, TypeInv, TypeOK, Machine
    <2> QED BY <2>1, <2>2
  <1> QED BY <1>2, <1>3

LEMMA WantStays ==
    ASSUME AgreeInv, [Next]_vars PROVE WantInv'
  <1> SUFFICES ASSUME NEW m \in Machines
               PROVE  /\ want'[m] = "none" => machine'[m].row = "absent"
                      /\ machine'[m].row = "absent" => ~Leaving(m)'
                      /\ Leaving(m)' => Gone(m)'
    BY DEF WantInv
  <1>1. /\ want[m] = "none" => machine[m].row = "absent"
        /\ machine[m].row = "absent" => ~Leaving(m)
        /\ Leaving(m) => want[m] \in {"terminated", "done"}
    BY DEF AgreeInv, WantInv, Gone
  <1>2. want'[m] = "none" => want[m] = "none"
    BY WantAfter DEF EndHeard
  <1>3. want[m] \in {"terminated", "done"} => want'[m] \in {"terminated", "done"}
    BY WantAfter DEF EndHeard
  <1>4. Created(m) => want[m] # "none" /\ machine'[m].row # "absent"
    BY DEF Created
  <1>5. Asked(m) => want[m] \in {"terminated", "done"}
    BY DEF Asked, Gone
  <1>6. machine'[m].row = "absent" => machine[m].row = "absent" /\ ~machine[m].controller
    BY RowsAfter DEF AgreeInv, AbsentInv
  <1>7. /\ Leaving(m)' => Leaving(m) \/ Asked(m)
        /\ machine[m].row = "absent" => machine'[m].row = "absent" \/ Created(m)
        /\ Asked(m) => machine[m].controller
        /\ Created(m) => want' = want
    BY Course
  <1> QED BY <1>1, <1>2, <1>3, <1>4, <1>5, <1>6, <1>7 DEF Gone

LEMMA TrailStays ==
    ASSUME TypeInv, TrailInv, [Next]_vars PROVE TrailInv'
  <1> SUFFICES ASSUME NEW c \in Connections,
                      NEW e \in conn'[c].checking \cup conn'[c].waiting
               PROVE  evt'[e] # "none"
    BY DEF TrailInv
  <1>0. conn[c] \in Connection /\ conn[c].checking \subseteq Event
        /\ conn[c].waiting \subseteq Event
    BY DEF TypeInv, TypeOK, Connection
  <1>1. ASSUME e \in Event, evt[e] # "none" PROVE evt'[e] # "none"
    <2>1. Restart => evt'[e] # "none"
      BY <1>1 DEF Restart
    <2> QED BY <1>1, <2>1, EventsAfter
  <1>2. CASE e \in conn[c].checking \cup conn[c].waiting
    BY <1>0, <1>1, <1>2 DEF TrailInv
  <1>3. CASE ConnectionFails
    <2>1. CASE c = Current
      BY <1>0, <1>2, <1>3, <2>1 DEF ConnectionFails, Connection, TypeInv, TypeOK
    <2>2. CASE c # Current
      BY <1>2, <1>3, <2>2 DEF ConnectionFails, TypeInv, TypeOK
    <2> QED BY <2>1, <2>2
  <1>4. CASE ~ConnectionFails
    <2>0. ASSUME Restart PROVE FALSE
      <3>1. conn'[c] = NoConnection
        BY <2>0 DEF Restart
      <3>2. conn'[c].checking = {} /\ conn'[c].waiting = {}
        BY <3>1 DEF NoConnection
      <3> QED BY <3>2
    <2>1. ASSUME OpenConnection(c) PROVE FALSE
      BY <2>1 DEF OpenConnection, NoConnection, TypeInv, TypeOK
    <2>2. ASSUME NEW k \in Event,
                 CheckContext(c, k) \/ Forward(c, k) \/ DispatchEvent(k)
          PROVE  k \in Event /\ evt[k] # "none"
      BY <2>2 DEF CheckContext, Forward, DispatchEvent, TrailInv
    <2>3. CASE \/ SameWire(conn'[c], conn[c])
               \/ SameWire(conn'[c], [conn[c] EXCEPT !.link = conn'[c].link])
               \/ SameWire(conn'[c], [conn[c] EXCEPT !.channel = conn'[c].channel])
               \/ SameWire(conn'[c], [conn[c] EXCEPT !.channel = "open"])
      BY <1>0, <1>2, <2>3 DEF SameWire, Connection
    <2>4. ASSUME NEW k \in Event, CheckContext(c, k),
                 conn'[c].waiting = IF conn[c].cancelled THEN conn[c].waiting
                                    ELSE conn[c].waiting \cup {k},
                 conn'[c].checking = conn[c].checking \ {k}
          PROVE  evt'[e] # "none"
      <3>1. e = k \/ e \in conn[c].checking \cup conn[c].waiting
        BY <2>4
      <3> QED BY <1>1, <1>2, <2>2, <2>4, <3>1
    <2>5. ASSUME NEW k \in Event, Forward(c, k),
                 SameWire(conn'[c], [conn[c] EXCEPT !.waiting = @ \ {k}])
          PROVE  evt'[e] # "none"
      BY <1>0, <1>2, <2>5 DEF SameWire, Connection
    <2>6. ASSUME NEW k \in Event, DispatchEvent(k),
                 SameWire(conn'[c], [conn[c] EXCEPT !.checking = @ \cup {k}])
          PROVE  evt'[e] # "none"
      <3>1. e = k \/ e \in conn[c].checking \cup conn[c].waiting
        BY <1>0, <2>6 DEF SameWire, Connection
      <3> QED BY <1>1, <1>2, <2>2, <2>6, <3>1
    <2> QED BY <1>4, <2>0, <2>1, <2>3, <2>4, <2>5, <2>6, WireAfter
  <1> QED BY <1>3, <1>4

(* What a step does to the messages that are under way.                    *)
SameQueue(k, l) == k.holding = l.holding /\ k.inbox = l.inbox

LEMMA QueueAfter ==
    ASSUME TypeInv, [Next]_vars, worker' # IdleWorker, worker.pc # "idle"
    PROVE  LET c == worker.conn
           IN /\ \/ SameQueue(conn'[c], conn[c])
                 \/ \E m \in Machines :
                      /\ Wants(m) /\ worker.pc # "register" /\ conn[c].link = "open"
                      /\ conn'[c].inbox = Append(conn[c].inbox, Msg(m, want'[m]))
                      /\ conn'[c].holding = conn[c].holding
                 \/ /\ conn[c].inbox # <<>> /\ conn[c].holding = None
                    /\ conn'[c].inbox = Tail(conn[c].inbox)
                    /\ conn'[c].holding = Head(conn[c].inbox)
                 \/ /\ HandleIncomingEvent /\ Handled
                    /\ conn'[c].holding = None /\ conn'[c].inbox = conn[c].inbox
              /\ \A m \in Machines :
                   Wants(m) /\ worker.pc # "register" /\ conn[c].link = "open"
                     => /\ conn'[c].inbox = Append(conn[c].inbox, Msg(m, want'[m]))
                        /\ conn'[c].holding = conn[c].holding
              /\ HandleIncomingEvent /\ Handled
                   => conn'[c].holding = None /\ conn'[c].inbox = conn[c].inbox
  <1> DEFINE c == worker.conn
             Kind == \/ SameQueue(conn'[c], conn[c])
                     \/ \E m \in Machines :
                          /\ Wants(m) /\ worker.pc # "register" /\ conn[c].link = "open"
                          /\ conn'[c].inbox = Append(conn[c].inbox, Msg(m, want'[m]))
                          /\ conn'[c].holding = conn[c].holding
                     \/ /\ conn[c].inbox # <<>> /\ conn[c].holding = None
                        /\ conn'[c].inbox = Tail(conn[c].inbox)
                        /\ conn'[c].holding = Head(conn[c].inbox)
                     \/ /\ HandleIncomingEvent /\ Handled
                        /\ conn'[c].holding = None /\ conn'[c].inbox = conn[c].inbox
  <1>0. /\ c \in Connections /\ conn[c] \in Connection
        /\ conn[c].receiver = "holding" <=> conn[c].holding # None
        /\ conn[c].receiver # "none" => worker.pc = "loop"
    BY DEF TypeInv, TypeOK, Shape, Current
  <1>1. ASSUME conn' = conn PROVE Kind
    BY <1>1 DEF SameQueue
  <1>2. ASSUME NEW m \in Machines, Wants(m)
        PROVE  IF worker.pc # "register" /\ conn[c].link = "open"
               THEN /\ conn'[c].inbox = Append(conn[c].inbox, Msg(m, want'[m]))
                    /\ conn'[c].holding = conn[c].holding
               ELSE SameQueue(conn'[c], conn[c])
    <2>1. Registered(c) <=> worker.pc # "register"
      BY <1>0 DEF Registered
    <2>2. Tell(Msg(m, want'[m]))
      BY <1>2 DEF Wants, Msg
    <2>3. CASE worker.pc # "register" /\ conn[c].link = "open"
      <3>1. conn'[c] = [conn[c] EXCEPT !.inbox = Append(@, Msg(m, want'[m]))]
        BY <1>0, <2>1, <2>2, <2>3 DEF Tell
      <3> QED BY <1>0, <2>3, <3>1 DEF Connection
    <2>4. CASE ~(worker.pc # "register" /\ conn[c].link = "open")
      <3>1. conn'[c] = conn[c]
        BY <1>0, <2>1, <2>2, <2>4 DEF Tell
      <3> QED BY <2>4, <3>1 DEF SameQueue
    <2> QED BY <2>3, <2>4
  <1>3. ASSUME NEW k \in Connections, Receive(k) PROVE Kind
    <2>1. CASE k # c
      BY <1>0, <1>3, <2>1 DEF Receive, SameQueue, TypeInv, TypeOK
    <2>2. CASE k = c
      <3>1. CASE /\ conn[c].inbox # <<>>
                 /\ conn' = [conn EXCEPT ![c].receiver = "holding", ![c].inbox = Tail(@),
                                         ![c].holding = Head(conn[c].inbox)]
        <4>1. conn'[c] = [conn[c] EXCEPT !.receiver = "holding",
                            !.inbox = Tail(conn[c].inbox), !.holding = Head(conn[c].inbox)]
          BY <1>0, <3>1 DEF TypeInv, TypeOK
        <4>2. conn[c].holding = None
          BY <1>0, <1>3, <2>2 DEF Receive
        <4>3. /\ conn'[c].inbox = Tail(conn[c].inbox)
              /\ conn'[c].holding = Head(conn[c].inbox)
          BY <1>0, <4>1 DEF Connection
        <4> QED BY <3>1, <4>2, <4>3
      <3>2. CASE conn' = [conn EXCEPT ![c].receiver = "ended"]
        BY <1>0, <3>2 DEF SameQueue, Connection, TypeInv, TypeOK
      <3> QED BY <1>3, <2>2, <3>1, <3>2 DEF Receive
    <2> QED BY <2>1, <2>2
  <1>4. ASSUME HandleIncomingEvent, Handled
        PROVE  conn'[c].holding = None /\ conn'[c].inbox = conn[c].inbox
    <2>1. conn'[c] = [conn[c] EXCEPT !.receiver = "receiving", !.holding = None]
      BY <1>0, <1>4 DEF Handled, Current, TypeInv, TypeOK
    <2> QED BY <1>0, <1>4, <2>1 DEF Connection
  <1>5. ASSUME NEW ch, NEW x,
               conn' = [conn EXCEPT ![c].channel = ch, ![c].receiver = x]
        PROVE  SameQueue(conn'[c], conn[c])
    <2>1. conn'[c] = [conn[c] EXCEPT !.channel = ch, !.receiver = x]
      BY <1>0, <1>5 DEF TypeInv, TypeOK
    <2> QED BY <1>0, <2>1 DEF SameQueue, Connection
  <1>6. ASSUME SubscribeToEvents \/ TerminateUnexpected PROVE SameQueue(conn'[c], conn[c])
    <2>1. CASE SubscribeToEvents
      <3>1. conn' = [conn EXCEPT ![c].channel = "open", ![c].receiver = conn[c].receiver]
        BY <2>1 DEF SubscribeToEvents, Following, Current, TypeInv, TypeOK
      <3> QED BY <1>5, <3>1
    <2>2. CASE TerminateUnexpected
      <3>1. conn' = [conn EXCEPT ![c].receiver = "receiving"]
        BY <2>2 DEF TerminateUnexpected, Following, Current
      <3>2. conn'[c] = [conn[c] EXCEPT !.receiver = "receiving"]
        BY <1>0, <3>1 DEF TypeInv, TypeOK
      <3> QED BY <1>0, <3>2 DEF SameQueue, Connection
    <2> QED BY <1>6, <2>1, <2>2
  <1>7. ASSUME NEW k \in Connections, StreamEnds(k) \/ CloseChannel(k)
        PROVE  SameQueue(conn'[c], conn[c])
    <2>1. CASE k # c
      BY <1>0, <1>7, <2>1 DEF StreamEnds, CloseChannel, SameQueue, TypeInv, TypeOK
    <2>2. CASE k = c
      <3>1. \/ \E how \in {"broken", "eof"} : conn'[c] = [conn[c] EXCEPT !.link = how]
            \/ conn'[c] = [conn[c] EXCEPT !.channel = "closed"]
        BY <1>0, <1>7, <2>2 DEF StreamEnds, CloseChannel, TypeInv, TypeOK
      <3> QED BY <1>0, <3>1 DEF SameQueue, Connection
    <2> QED BY <2>1, <2>2
  <1>8. ASSUME NEW k \in Connections, NEW e \in Event, CheckContext(k, e) \/ Forward(k, e)
        PROVE  SameQueue(conn'[c], conn[c])
    <2>1. CASE k # c
      BY <1>0, <1>8, <2>1 DEF CheckContext, Forward, SameQueue, TypeInv, TypeOK
    <2>2. CASE k = c /\ Forward(k, e)
      BY <1>0, <2>2 DEF Forward, SameQueue, Connection, TypeInv, TypeOK
    <2>3. CASE k = c /\ CheckContext(k, e)
      <3> DEFINE w == IF conn[c].cancelled THEN conn[c].waiting ELSE conn[c].waiting \cup {e}
      <3>1. conn'[c] = [conn[c] EXCEPT !.checking = @ \ {e}, !.waiting = w]
        BY <1>0, <2>3 DEF CheckContext, TypeInv, TypeOK
      <3> HIDE DEF w
      <3> QED BY <1>0, <3>1 DEF SameQueue, Connection
    <2> QED BY <1>8, <2>1, <2>2, <2>3
  <1>9. ASSUME NEW e \in Event, DispatchEvent(e) PROVE SameQueue(conn'[c], conn[c])
    <2>1. \/ conn'[c] = conn[c]
          \/ conn'[c] = [conn[c] EXCEPT !.checking = @ \cup {e}]
      BY <1>0, <1>9 DEF DispatchEvent
    <2> QED BY <1>0, <2>1 DEF SameQueue, Connection
  <1>10. ~ConnectionFails /\ ~Restart
    BY NoFailure
  <1>11. \A k \in Connections : ~OpenConnection(k)
    BY DEF OpenConnection, At
  <1>12. Kind
    <2>1. CASE \/ \E m \in Machines : SyncMachine(m)
               \/ Register \/ UpdateFound \/ ReplayEvents \/ HandleIncomingEvent
      <3>1. conn' = conn \/ (HandleIncomingEvent /\ Handled)
        BY <1>10, <2>1 DEF SyncMachine, Register, UpdateFound, ReplayEvents,
           HandleIncomingEvent
      <3> QED BY <1>1, <1>4, <3>1
    <2>2. CASE \/ \E m \in Machines : Abandons(m) \/ Retire(m)
               \/ \E m \in Machines : \E s \in {"running", "terminated"} :
                    DesiredStateChanged(m, s) \/ StateChanged(m, s)
               \/ \E e \in Event : StoreEvent(e)
               \/ HandleNilEvent \/ UNCHANGED vars
      BY <1>1, <2>2 DEF Abandons, Retire, DesiredStateChanged, StateChanged, StoreEvent,
         HandleNilEvent, vars
    <2>3. ~SendStatsFails
      BY <1>10 DEF SendStatsFails
    <2>4. ASSUME NEW m \in Machines, Wants(m) PROVE Kind
      BY <1>2, <2>4
    <2> QED BY <1>3, <1>6, <1>7, <1>8, <1>9, <1>10, <1>11, <2>1, <2>2, <2>3, <2>4,
            StepCases
  <1> QED BY <1>2, <1>4, <1>12

(* Messages in a queue that grows at its end and shrinks at its head.      *)
LEMMA InAppended ==
    ASSUME NEW q \in Seq(Message), NEW x, NEW y
    PROVE  InQueue(Append(q, y), x) <=> InQueue(q, x) \/ x = y
  <1>1. /\ DOMAIN q = 1 .. Len(q) /\ Len(q) \in Nat
        /\ DOMAIN Append(q, y) = 1 .. Len(q) + 1
        /\ \A k \in 1 .. Len(q) : Append(q, y)[k] = q[k]
        /\ Append(q, y)[Len(q) + 1] = y
    OBVIOUS
  <1>2. ASSUME InQueue(Append(q, y), x) PROVE InQueue(q, x) \/ x = y
    <2>1. PICK k \in 1 .. Len(q) + 1 : Append(q, y)[k] = x
      BY <1>1, <1>2 DEF InQueue
    <2>2. CASE k = Len(q) + 1
      BY <1>1, <2>1, <2>2
    <2>3. CASE k # Len(q) + 1
      <3>1. k \in 1 .. Len(q)
        BY <1>1, <2>1, <2>3
      <3> QED BY <1>1, <2>1, <3>1 DEF InQueue
    <2> QED BY <2>2, <2>3
  <1>3. ASSUME InQueue(q, x) PROVE InQueue(Append(q, y), x)
    <2>1. PICK k \in 1 .. Len(q) : q[k] = x
      BY <1>1, <1>3 DEF InQueue
    <2>2. k \in 1 .. Len(q) + 1 /\ Append(q, y)[k] = x
      BY <1>1, <2>1
    <2> QED BY <1>1, <2>2 DEF InQueue
  <1>4. ASSUME x = y PROVE InQueue(Append(q, y), x)
    <2>1. Len(q) + 1 \in 1 .. Len(q) + 1
      BY <1>1
    <2> QED BY <1>1, <1>4, <2>1 DEF InQueue
  <1> QED BY <1>2, <1>3, <1>4

LEMMA InTaken ==
    ASSUME NEW q \in Seq(Message), q # <<>>, NEW x
    PROVE  InQueue(q, x) <=> x = Head(q) \/ InQueue(Tail(q), x)
  <1>1. /\ DOMAIN q = 1 .. Len(q) /\ Len(q) \in Nat \ {0}
        /\ DOMAIN Tail(q) = 1 .. Len(q) - 1
        /\ \A k \in 1 .. Len(q) - 1 : Tail(q)[k] = q[k + 1]
        /\ Head(q) = q[1]
    OBVIOUS
  <1>2. ASSUME InQueue(q, x) PROVE x = Head(q) \/ InQueue(Tail(q), x)
    <2>1. PICK k \in 1 .. Len(q) : q[k] = x
      BY <1>1, <1>2 DEF InQueue
    <2>2. CASE k = 1
      BY <1>1, <2>1, <2>2
    <2>3. CASE k # 1
      <3>1. k - 1 \in 1 .. Len(q) - 1 /\ (k - 1) + 1 = k
        BY <1>1, <2>1, <2>3
      <3>2. Tail(q)[k - 1] = x
        BY <1>1, <2>1, <3>1
      <3> QED BY <1>1, <3>1, <3>2 DEF InQueue
    <2> QED BY <2>2, <2>3
  <1>3. ASSUME InQueue(Tail(q), x) PROVE InQueue(q, x)
    <2>1. PICK k \in 1 .. Len(q) - 1 : Tail(q)[k] = x
      BY <1>1, <1>3 DEF InQueue
    <2>2. k + 1 \in 1 .. Len(q) /\ q[k + 1] = x
      BY <1>1, <2>1
    <2> QED BY <1>1, <2>2 DEF InQueue
  <1>4. ASSUME x = Head(q) PROVE InQueue(q, x)
    <2>1. 1 \in 1 .. Len(q)
      BY <1>1
    <2> QED BY <1>1, <1>4, <2>1 DEF InQueue
  <1> QED BY <1>2, <1>3, <1>4

LEMMA OrderAppended ==
    ASSUME NEW k \in Connection, NEW l \in Connection, NEW y,
           InOrder(k), l.holding = k.holding, l.inbox = Append(k.inbox, y),
           \A x \in Message : k.holding = x \/ InQueue(k.inbox, x) => Later(x, y),
           None \notin Message
    PROVE  InOrder(l)
  <1> DEFINE q == k.inbox
             n == Len(q)
  <1>1. q \in Seq(Message) /\ k.holding \in Message \cup {None}
    BY DEF Connection
  <1>2. /\ DOMAIN q = 1 .. n /\ n \in Nat
        /\ DOMAIN l.inbox = 1 .. n + 1
        /\ \A i \in 1 .. n : l.inbox[i] = q[i] /\ q[i] \in Message
        /\ l.inbox[n + 1] = y
    BY <1>1
  <1> HIDE DEF n
  <1>3. ASSUME NEW i \in 1 .. n + 1, NEW j \in 1 .. n + 1, i < j
        PROVE  Later(l.inbox[i], l.inbox[j])
    <2>1. CASE j = n + 1
      <3>1. i \in 1 .. n
        BY <1>2, <1>3, <2>1
      <3>2. InQueue(q, q[i])
        BY <1>2, <3>1 DEF InQueue
      <3> QED BY <1>2, <2>1, <3>1, <3>2
    <2>2. CASE j # n + 1
      <3>1. i \in 1 .. n /\ j \in 1 .. n
        BY <1>2, <1>3, <2>2
      <3> QED BY <1>2, <1>3, <3>1 DEF InOrder
    <2> QED BY <2>1, <2>2
  <1>4. ASSUME k.holding # None, NEW j \in 1 .. n + 1
        PROVE  Later(l.holding, l.inbox[j])
    <2>1. CASE j = n + 1
      BY <1>1, <1>2, <1>4, <2>1
    <2>2. CASE j # n + 1
      <3>1. j \in 1 .. n
        BY <1>2, <1>4, <2>2
      <3> QED BY <1>2, <1>4, <3>1 DEF InOrder
    <2> QED BY <2>1, <2>2
  <1> QED BY <1>2, <1>3, <1>4 DEF InOrder

LEMMA OrderTaken ==
    ASSUME NEW k \in Connection, NEW l \in Connection, InOrder(k), k.inbox # <<>>,
           l.inbox = Tail(k.inbox), l.holding = Head(k.inbox) \/ l.holding = None
    PROVE  InOrder(l)
  <1> DEFINE q == k.inbox
             n == Len(q)
  <1>1. q \in Seq(Message)
    BY DEF Connection
  <1>2. /\ DOMAIN q = 1 .. n /\ n \in Nat \ {0}
        /\ DOMAIN l.inbox = 1 .. n - 1
        /\ \A i \in 1 .. n - 1 : l.inbox[i] = q[i + 1]
        /\ Head(q) = q[1]
    BY <1>1
  <1>3. \A i, j \in 1 .. n : i < j => Later(q[i], q[j])
    BY <1>2 DEF InOrder
  <1> HIDE DEF n
  <1>4. \A i, j \in 1 .. n - 1 : i < j => Later(l.inbox[i], l.inbox[j])
    <2> SUFFICES ASSUME NEW i \in 1 .. n - 1, NEW j \in 1 .. n - 1, i < j
                 PROVE  Later(l.inbox[i], l.inbox[j])
      OBVIOUS
    <2>1. i + 1 \in 1 .. n /\ j + 1 \in 1 .. n /\ i + 1 < j + 1
      BY <1>2
    <2> QED BY <1>2, <1>3, <2>1
  <1>5. \A j \in 1 .. n - 1 : Later(Head(q), l.inbox[j])
    <2> SUFFICES ASSUME NEW j \in 1 .. n - 1 PROVE Later(Head(q), l.inbox[j])
      OBVIOUS
    <2>1. j + 1 \in 1 .. n /\ 1 \in 1 .. n /\ 1 < j + 1
      BY <1>2
    <2> QED BY <1>2, <1>3, <2>1
  <1> QED BY <1>2, <1>4, <1>5 DEF InOrder

(* What is under way after a step: what was, what the control plane just   *)
(* told, and no longer what the loop just handled.                         *)
Tells(m, d) == Wants(m) /\ worker.pc # "register" /\ conn[Current].link = "open"
               /\ want'[m] = d
HandlesNow(m, d) ==
    HandleIncomingEvent /\ Handled /\ conn[Current].holding = Msg(m, d)

LEMMA QueueOrder ==
    ASSUME AgreeInv, TypeInv', [Next]_vars, worker' # IdleWorker, worker.pc # "idle"
    PROVE  InOrder(conn'[worker.conn])
  <1> DEFINE c == worker.conn
             k == conn[c]
             l == conn'[c]
  <1>1. k \in Connection /\ l \in Connection
    BY DEF AgreeInv, TypeInv, TypeOK, Shape, Current
  <1>2. InOrder(k) /\ \A m \in Machines : QueueOf(m)
    BY DEF AgreeInv, QueueInv, Current
  <1> HIDE DEF k, l
  <1>3. ASSUME SameQueue(l, k) PROVE InOrder(l)
    BY <1>2, <1>3 DEF SameQueue, InOrder
  <1>4. ASSUME NEW m \in Machines, Wants(m), l.holding = k.holding,
               l.inbox = Append(k.inbox, Msg(m, want'[m]))
        PROVE  InOrder(l)
    <2>1. ASSUME NEW x \in Message, k.holding = x \/ InQueue(k.inbox, x)
          PROVE  Later(x, Msg(m, want'[m]))
      <3>1. x = Msg(x.machine, x.desired) /\ x.machine \in Machines /\ x.desired \in Desired
        BY DEF Message, Msg
      <3>2. Pending(k, x.machine, x.desired)
        BY <2>1, <3>1 DEF Pending
      <3>3. ASSUME x.machine = m PROVE x.desired = "running" /\ want'[m] = "terminated"
        <4>1. /\ x.desired = "running" => want[m] # "none"
              /\ x.desired = "terminated" => Gone(m)
          BY <1>2, <3>2, <3>3 DEF QueueOf, k, Current
        <4>2. \/ want[m] = "none" /\ want'[m] = "running"
              \/ want[m] = "running" /\ want'[m] = "terminated"
          BY <1>4 DEF Wants, AgreeInv, TypeInv, TypeOK
        <4> QED BY <3>1, <4>1, <4>2 DEF Gone, Desired
      <3> QED BY <3>3 DEF Later, Msg
    <2> QED BY <1>1, <1>2, <1>4, <2>1, OrderAppended, NoneIsNoMessage
  <1>5. ASSUME k.inbox # <<>>, l.inbox = Tail(k.inbox), l.holding = Head(k.inbox)
        PROVE  InOrder(l)
    BY <1>1, <1>2, <1>5, OrderTaken
  <1>6. ASSUME l.holding = None, l.inbox = k.inbox PROVE InOrder(l)
    BY <1>2, <1>6 DEF InOrder
  <1> QED BY <1>3, <1>4, <1>5, <1>6, QueueAfter DEF AgreeInv, k, l

LEMMA PendingAfter ==
    ASSUME AgreeInv, TypeInv', [Next]_vars, worker' # IdleWorker, worker.pc # "idle",
           NEW m \in Machines, NEW d \in Desired
    PROVE  Pending(conn'[worker.conn], m, d)
             <=> (Pending(conn[worker.conn], m, d) \/ Tells(m, d)) /\ ~HandlesNow(m, d)
  <1> DEFINE c == worker.conn
             k == conn[c]
             l == conn'[c]
  <1>1. k \in Connection /\ l \in Connection /\ k.inbox \in Seq(Message)
    BY DEF AgreeInv, TypeInv, TypeOK, Shape, Current, Connection
  <1>2. InOrder(k)
    BY DEF AgreeInv, QueueInv, Current
  <1>3. Msg(m, d) # None /\ Msg(m, d) \in Message
    BY NoneIsNoMessage DEF Msg, Message
  <1>4. Tells(m, d) => ~HandlesNow(m, d)
    <2> SUFFICES ASSUME Wants(m), HandleIncomingEvent PROVE FALSE
      BY DEF Tells, HandlesNow
    <2> QED BY DEF Wants, HandleIncomingEvent, AgreeInv, TypeInv, TypeOK
  <1>5. CASE HandleIncomingEvent /\ Handled
    <2>1. l.holding = None /\ l.inbox = k.inbox
      BY <1>5, QueueAfter DEF AgreeInv
    <2>2. ~Tells(m, d)
      BY <1>5 DEF Tells, Wants, HandleIncomingEvent, AgreeInv, TypeInv, TypeOK
    <2>3. Pending(l, m, d) <=> InQueue(k.inbox, Msg(m, d))
      BY <1>3, <2>1 DEF Pending
    <2>4. ASSUME k.holding = Msg(m, d) PROVE ~InQueue(k.inbox, Msg(m, d))
      <3>1. SUFFICES ASSUME NEW i \in DOMAIN k.inbox, k.inbox[i] = Msg(m, d) PROVE FALSE
        BY DEF InQueue
      <3>2. Later(Msg(m, d), Msg(m, d))
        BY <1>2, <1>3, <2>4, <3>1 DEF InOrder
      <3> QED BY <3>2 DEF Later, Msg
    <2> QED BY <1>5, <2>2, <2>3, <2>4 DEF Pending, HandlesNow, Current
  <1>6. CASE ~(HandleIncomingEvent /\ Handled)
    <2>0. ~HandlesNow(m, d)
      BY <1>6 DEF HandlesNow
    <2>1. ASSUME NEW j \in Machines, Wants(j), worker.pc # "register", k.link = "open",
                 l.inbox = Append(k.inbox, Msg(j, want'[j])), l.holding = k.holding
          PROVE  Pending(l, m, d) <=> Pending(k, m, d) \/ Tells(m, d)
      <3>1. Pending(l, m, d) <=> Pending(k, m, d) \/ Msg(m, d) = Msg(j, want'[j])
        BY <1>1, <2>1, InAppended DEF Pending
      <3>2. Msg(m, d) = Msg(j, want'[j]) <=> m = j /\ want'[m] = d
        BY DEF Msg
      <3>3. Tells(m, d) <=> m = j /\ want'[m] = d
        <4>1. ASSUME Wants(m) PROVE m = j
          BY <2>1, <4>1 DEF Wants, AgreeInv, TypeInv, TypeOK
        <4> QED BY <2>1, <4>1 DEF Tells, Current
      <3> QED BY <3>1, <3>2, <3>3
    <2>2. CASE ~\E j \in Machines : Wants(j) /\ worker.pc # "register" /\ k.link = "open"
      <3>1. ~Tells(m, d)
        BY <2>2 DEF Tells, Current
      <3>2. CASE SameQueue(l, k)
        BY <2>0, <3>1, <3>2 DEF SameQueue, Pending
      <3>3. CASE /\ k.inbox # <<>> /\ k.holding = None
                 /\ l.inbox = Tail(k.inbox) /\ l.holding = Head(k.inbox)
        BY <1>1, <1>3, <2>0, <3>1, <3>3, InTaken DEF Pending
      <3> QED BY <1>6, <2>2, <3>2, <3>3, QueueAfter DEF AgreeInv
    <2> QED BY <2>0, <2>1, <2>2, QueueAfter DEF AgreeInv
  <1> QED BY <1>5, <1>6

(* What a step does to the worker while it has a connection.               *)
SameTask == /\ worker'.specs = worker.specs /\ worker'.todo = worker.todo
            /\ worker'.at = worker.at /\ worker'.found = worker.found
            /\ worker'.expected = worker.expected
FromTo(before, after) == worker.pc = before /\ worker'.pc = after
Registers ==
    /\ FromTo("register", "subscribe")
    /\ worker'.specs = want /\ worker'.expected = worker.expected
    /\ worker'.todo = {m \in Machines : want[m] \in {"running", "terminated"}}
    /\ UNCHANGED <<machine, want, conn>>
Looks(m) ==
    /\ worker.pc = "sync" /\ m \in worker.todo
    /\ worker'.specs = worker.specs /\ worker'.todo = worker.todo
    /\ worker'.expected = worker.expected /\ worker'.at = m /\ want' = want
    /\ \/ /\ worker'.pc = "update" /\ machine[m].controller
          /\ machine[m].desired # worker.specs[m] /\ machine' = machine
       \/ /\ worker'.pc = "replay" /\ worker'.found = TRUE /\ machine[m].controller
          /\ machine[m].desired = worker.specs[m] /\ machine' = machine
       \/ /\ worker'.pc = "replay" /\ ~machine[m].controller
          /\ worker.specs[m] = "terminated" /\ machine' = machine
       \/ /\ worker'.pc = "replay" /\ worker'.found = TRUE
          /\ machine[m].row = "absent" /\ worker.specs[m] = "running"
          /\ machine' = [machine EXCEPT ![m] = NewMachine("running")]
Replays ==
    /\ FromTo("replay", "sync") /\ worker'.specs = worker.specs
    /\ worker'.todo = worker.todo \ {worker.at} /\ machine' = machine
    /\ worker'.expected = worker.expected \cup IF worker.found THEN {worker.at} ELSE {}

LEMMA TaskAfter ==
    ASSUME TypeInv, [Next]_vars, worker' # IdleWorker, worker.pc # "idle"
    PROVE  /\ worker'.conn = worker.conn
           /\ \/ /\ SameTask /\ worker'.pc = worker.pc
                 /\ worker.pc \in {"subscribe", "sync", "update", "replay"} =>
                      /\ ~TerminateUnexpected /\ ~UpdateFound
                      /\ \A m \in Machines : ~SyncMachine(m)
              \/ Register /\ Registers
              \/ SameTask /\ FromTo("subscribe", "sync") /\ UNCHANGED <<machine, want>>
              \/ \E m \in Machines : SyncMachine(m) /\ Looks(m)
              \/ /\ SameTask /\ FromTo("update", "replay") /\ UpdateFound
                 /\ machine[worker.at].controller
              \/ ReplayEvents /\ Replays
              \/ /\ SameTask /\ FromTo("sync", "loop") /\ TerminateUnexpected
                 /\ worker.todo = {}
  <1>0. worker \in WorkerState
    BY DEF TypeInv, TypeOK
  <1>1. ~ConnectionFails /\ ~Restart
    BY NoFailure
  <1>2. ASSUME Register PROVE Registers /\ worker'.conn = worker.conn
    <2>1. /\ worker.pc = "register" /\ UNCHANGED <<machine, want, conn>>
          /\ worker' = [worker EXCEPT
               !.pc = "subscribe", !.specs = want,
               !.todo = {m \in Machines : want[m] \in {"running", "terminated"}}]
      BY <1>1, <1>2 DEF Register, At, Following
    <2> QED BY <1>0, <2>1 DEF Registers, FromTo, WorkerState
  <1>3. ASSUME SubscribeToEvents
        PROVE  /\ SameTask /\ FromTo("subscribe", "sync") /\ worker'.conn = worker.conn
               /\ UNCHANGED <<machine, want>>
    BY <1>0, <1>3 DEF SubscribeToEvents, Proceed, Following, At, WorkerState, SameTask, FromTo
  <1>4. ASSUME NEW m \in Machines, SyncMachine(m)
        PROVE  Looks(m) /\ worker'.conn = worker.conn
    <2>1. /\ worker.pc = "sync" /\ m \in worker.todo /\ want' = want
          /\ worker.specs[m] \in Desired
      BY <1>4 DEF SyncMachine, At, TypeInv, Shape
    <2>2. CASE /\ machine[m].controller \/ worker.specs[m] = "terminated"
               /\ worker' = [worker EXCEPT
                    !.pc = IF machine[m].controller /\ machine[m].desired # worker.specs[m]
                           THEN "update" ELSE "replay",
                    !.at = m, !.found = ~~machine[m].controller]
               /\ machine' = machine
      <3>1. /\ worker'.specs = worker.specs /\ worker'.todo = worker.todo
            /\ worker'.expected = worker.expected /\ worker'.at = m
            /\ worker'.conn = worker.conn
        BY <1>0, <2>2 DEF WorkerState
      <3>2. machine[m].controller \in BOOLEAN
        BY DEF TypeInv, TypeOK, Machine
      <3>3. CASE machine[m].controller /\ machine[m].desired # worker.specs[m]
        <4>1. worker'.pc = "update"
          BY <1>0, <2>2, <3>3 DEF WorkerState
        <4> QED BY <2>1, <2>2, <3>1, <3>3, <4>1 DEF Looks
      <3>4. CASE machine[m].controller /\ machine[m].desired = worker.specs[m]
        <4>1. worker'.pc = "replay" /\ worker'.found = TRUE
          BY <1>0, <2>2, <3>4 DEF WorkerState
        <4> QED BY <2>1, <2>2, <3>1, <3>4, <4>1 DEF Looks
      <3>5. CASE ~machine[m].controller
        <4>1. worker'.pc = "replay"
          BY <1>0, <2>2, <3>5 DEF WorkerState
        <4> QED BY <2>1, <2>2, <3>1, <3>5, <4>1 DEF Looks
      <3> QED BY <3>3, <3>4, <3>5
    <2>3. CASE /\ machine[m].row = "absent" /\ worker.specs[m] = "running"
               /\ machine' = [machine EXCEPT ![m] = NewMachine("running")]
               /\ worker' = [worker EXCEPT !.pc = "replay", !.at = m, !.found = TRUE]
      <3>1. /\ worker'.specs = worker.specs /\ worker'.todo = worker.todo
            /\ worker'.expected = worker.expected /\ worker'.at = m
            /\ worker'.conn = worker.conn
            /\ worker'.pc = "replay" /\ worker'.found = TRUE
        BY <1>0, <2>3 DEF WorkerState
      <3> QED BY <2>1, <2>3, <3>1 DEF Looks
    <2>4. worker.specs[m] # "terminated" => worker.specs[m] = "running"
      BY <2>1 DEF Desired
    <2> QED BY <1>1, <1>4, <2>2, <2>3, <2>4 DEF SyncMachine, Create, NewMachine
  <1>5. ASSUME UpdateFound
        PROVE  /\ SameTask /\ FromTo("update", "replay") /\ worker'.conn = worker.conn
               /\ machine[worker.at].controller
    BY <1>0, <1>1, <1>5 DEF UpdateFound, At, WorkerState, SameTask, FromTo
  <1>6. ASSUME ReplayEvents PROVE Replays /\ worker'.conn = worker.conn
    <2>1. /\ worker.pc = "replay" /\ machine' = machine /\ Following("replay") = "sync"
      BY <1>6 DEF ReplayEvents, At, Following
    <2> DEFINE more == IF worker.found THEN {worker.at} ELSE {}
    <2>2. worker' = [worker EXCEPT
               !.pc = "sync", !.todo = @ \ {worker.at}, !.at = None,
               !.found = FALSE, !.synced = @ \cup {worker.at},
               !.expected = @ \cup more]
      BY <1>1, <1>6, <2>1 DEF ReplayEvents
    <2>3. /\ worker'.specs = worker.specs /\ worker'.todo = worker.todo \ {worker.at}
          /\ worker'.pc = "sync" /\ worker'.expected = worker.expected \cup more
          /\ worker'.conn = worker.conn
      <3> HIDE DEF more
      <3> QED BY <1>0, <2>2 DEF WorkerState
    <2> QED BY <2>1, <2>3 DEF Replays, FromTo
  <1>7. ASSUME TerminateUnexpected
        PROVE  /\ SameTask /\ FromTo("sync", "loop") /\ worker'.conn = worker.conn
               /\ worker.todo = {}
    BY <1>0, <1>7 DEF TerminateUnexpected, Proceed, Following, At, WorkerState, SameTask,
       FromTo
  <1>8. ASSUME HandleIncomingEvent
        PROVE  SameTask /\ FromTo("loop", "loop") /\ worker'.conn = worker.conn
    <2>1. worker.pc = "loop"
      BY <1>8 DEF HandleIncomingEvent, At
    <2>2. \/ worker' = worker
          \/ worker' = [worker EXCEPT !.synced = @ \cup {conn[Current].holding.machine}]
      BY <1>1, <1>8 DEF HandleIncomingEvent
    <2> QED BY <1>0, <2>1, <2>2 DEF WorkerState, SameTask, FromTo
  <1>9. \A c \in Connections : ~OpenConnection(c)
    BY DEF OpenConnection, At
  <1>10. ~SendStatsFails
    BY <1>1 DEF SendStatsFails
  <1>11. ASSUME worker' = worker PROVE SameTask /\ worker'.pc = worker.pc
                                      /\ worker'.conn = worker.conn
    BY <1>11 DEF SameTask
  <1>12. ASSUME worker.pc \in {"subscribe", "sync", "update", "replay"},
                worker'.pc = worker.pc
         PROVE  /\ ~TerminateUnexpected /\ ~UpdateFound
                /\ \A m \in Machines : ~SyncMachine(m)
    BY <1>4, <1>5, <1>7, <1>12 DEF FromTo, Looks
  <1>13. CASE \/ \E m \in Machines : Wants(m) \/ Abandons(m) \/ Retire(m)
              \/ \E m \in Machines : \E s \in {"running", "terminated"} :
                   DesiredStateChanged(m, s) \/ StateChanged(m, s)
              \/ \E c \in Connections : StreamEnds(c) \/ CloseChannel(c) \/ Receive(c)
              \/ \E c \in Connections : \E e \in Event : CheckContext(c, e) \/ Forward(c, e)
              \/ \E e \in Event : StoreEvent(e) \/ DispatchEvent(e)
              \/ HandleNilEvent \/ UNCHANGED vars
    <2>1. worker' = worker
      BY <1>13 DEF Wants, Abandons, Retire, DesiredStateChanged, StateChanged, StreamEnds,
         CloseChannel, Receive, CheckContext, Forward, StoreEvent, DispatchEvent,
         HandleNilEvent, vars
    <2> QED BY <1>11, <1>12, <2>1
  <1>14. HandleIncomingEvent => worker.pc = "loop" /\ worker'.pc = worker.pc
    BY <1>8 DEF FromTo
  <1> QED BY <1>1, <1>2, <1>3, <1>4, <1>5, <1>6, <1>7, <1>8, <1>9, <1>10, <1>13, <1>14,
          StepCases

(* Where a step takes the worker.                                          *)
LEMMA PcAfter ==
    ASSUME TypeInv, [Next]_vars, worker' # IdleWorker, worker.pc # "idle"
    PROVE  \/ worker'.pc = worker.pc
           \/ FromTo("register", "subscribe") /\ Registers
           \/ FromTo("subscribe", "sync")
           \/ worker.pc = "sync" /\ worker'.pc \in {"update", "replay", "loop"}
           \/ FromTo("update", "replay") \/ FromTo("replay", "sync")
  <1>1. ASSUME NEW m \in Machines, Looks(m)
        PROVE  worker.pc = "sync" /\ worker'.pc \in {"update", "replay"}
    BY <1>1 DEF Looks
  <1>2. Registers => FromTo("register", "subscribe")
    BY DEF Registers
  <1>3. Replays => FromTo("replay", "sync")
    BY DEF Replays
  <1>4. FromTo("sync", "loop") => worker.pc = "sync" /\ worker'.pc = "loop"
    BY DEF FromTo
  <1> QED BY <1>1, <1>2, <1>3, <1>4, TaskAfter

(* What is true of a machine whatever the step, and what a step that does  *)
(* not touch it leaves true.                                               *)
LEMMA Steady ==
    ASSUME AgreeInv, [Next]_vars, worker' # IdleWorker, NEW m \in Machines
    PROVE  /\ Leaving(m)' => Leaving(m) \/ Asked(m)
           /\ Leaving(m) => Leaving(m)'
           /\ machine'[m].controller => machine[m].controller \/ Created(m)
           /\ machine[m].controller => machine'[m].controller \/ Leaving(m)
           /\ machine[m].row = "absent" => machine'[m].row = "absent" \/ Created(m)
           /\ want'[m] = "none" => want[m] = "none"
           /\ Gone(m) => Gone(m)'
  <1>1. ~Restart
    BY NoFailure
  <1>2. want'[m] = "none" => want[m] = "none"
    BY WantAfter DEF EndHeard
  <1>3. Gone(m) => Gone(m)'
    BY WantAfter DEF EndHeard, Gone
  <1> QED BY <1>1, <1>2, <1>3, Course

LEMMA SameMachine ==
    ASSUME NEW m \in Machines, machine'[m] = machine[m]
    PROVE  Leaving(m)' <=> Leaving(m)
  BY DEF Leaving

LEMMA SyncStays ==
    ASSUME AgreeInv, [Next]_vars PROVE SyncInv'
  <1> SUFFICES ASSUME worker'.pc \in {"subscribe", "sync", "update", "replay"},
                      NEW m \in Machines
               PROVE  SyncOf(m)'
    BY DEF SyncInv, Synchronising
  <1> DEFINE s == worker.specs[m]
  <1>1. TypeInv /\ worker' # IdleWorker
    BY DEF AgreeInv, IdleWorker
  <1>2. worker.pc # "idle"
    BY <1>1, WorkerAfter
  <1>3. /\ s \in {"none", "running", "terminated", "done"} /\ machine[m] \in Machine
        /\ worker.expected \subseteq Machines
    BY <1>1 DEF TypeInv, TypeOK, WorkerState, Want
  <1>4. CASE Registers
    <2>1. SyncOf(m)' <=>
            /\ want[m] = "none" => machine[m].row = "absent"
            /\ want[m] = "running" => ~Leaving(m)
            /\ want[m] \in {"terminated", "done"} => Gone(m)
            /\ m \in worker.expected => want[m] # "done"
      BY <1>4, SameMachine DEF Registers, FromTo, SyncOf, Gone
    <2>2. worker.expected = {}
      BY <1>4 DEF Registers, FromTo, AgreeInv, QueueInv
    <2> QED BY <2>1, <2>2 DEF AgreeInv, WantInv, Gone
  <1>5. CASE worker.pc \in {"subscribe", "sync", "update", "replay"}
    <2>0. SyncOf(m)
      BY <1>5 DEF AgreeInv, SyncInv, Synchronising
    <2>1. /\ Leaving(m)' => Leaving(m) \/ Asked(m)
          /\ Leaving(m) => Leaving(m)'
          /\ machine'[m].controller => machine[m].controller \/ Created(m)
          /\ machine[m].controller => machine'[m].controller \/ Leaving(m)
          /\ machine[m].row = "absent" => machine'[m].row = "absent" \/ Created(m)
          /\ want'[m] = "none" => want[m] = "none"
          /\ Gone(m) => Gone(m)'
      BY <1>1, Steady
    <2>2. CASE SameTask /\ worker'.pc = worker.pc
      <3>1. ~Created(m) /\ ~Asked(m)
        <4>1. ~TerminateUnexpected /\ ~UpdateFound /\ ~SyncMachine(m)
          BY <1>1, <1>2, <1>5, <2>2, TaskAfter DEF Registers, Looks, FromTo, Replays
        <4> QED BY <1>5, <4>1 DEF Created, Asked
      <3> QED BY <2>0, <2>1, <2>2, <3>1 DEF SyncOf, SameTask
    <2>3. CASE SameTask /\ FromTo("subscribe", "sync") /\ UNCHANGED <<machine, want>>
      BY <2>0, <2>3, SameMachine DEF SyncOf, SameTask, FromTo, Gone
    <2>4. ASSUME NEW k \in Machines, Looks(k), m # k PROVE SyncOf(m)'
      <3>1. machine'[m] = machine[m]
        BY <2>4 DEF Looks, TypeInv, TypeOK, AgreeInv
      <3>2. Leaving(m)' <=> Leaving(m)
        BY <3>1, SameMachine
      <3> QED BY <2>0, <2>1, <2>4, <3>1, <3>2 DEF SyncOf, Looks
    <2>5. ASSUME Looks(m) PROVE SyncOf(m)'
      <3>0. s \in {"running", "terminated"}
        BY <1>1, <2>5 DEF Looks, TypeInv, Shape, Desired
      <3>1. CASE machine' = machine /\ (machine[m].controller \/ s = "terminated")
        <4>1. Leaving(m)' <=> Leaving(m)
          BY <3>1, SameMachine
        <4>2. worker'.pc = "update" => s = "terminated"
          <5>1. SUFFICES ASSUME worker'.pc = "update", s = "running" PROVE FALSE
            BY <3>0
          <5>2. machine[m].controller /\ machine[m].desired # "running"
            BY <2>5, <5>1 DEF Looks
          <5>3. machine[m].desired # "none"
            BY <5>2 DEF AgreeInv, LifeInv
          <5>4. machine[m].desired = "terminated"
            BY <1>3, <5>2, <5>3 DEF Machine, Desired
          <5> QED BY <2>0, <5>1, <5>4 DEF SyncOf, Leaving
        <4>3. worker'.pc = "replay" =>
                /\ s = "running" => worker'.found /\ machine[m].controller
                /\ s = "terminated" /\ machine[m].controller => Leaving(m)
          <5>1. machine[m].controller => machine[m].row # "absent"
            BY DEF AgreeInv, AbsentInv
          <5> QED BY <2>5, <3>0, <3>1, <5>1 DEF Looks, Leaving
        <4> QED BY <2>0, <2>1, <2>5, <3>1, <4>1, <4>2, <4>3 DEF SyncOf, Looks
      <3>2. CASE /\ worker'.pc = "replay" /\ worker'.found = TRUE
                 /\ machine[m].row = "absent" /\ s = "running"
                 /\ machine' = [machine EXCEPT ![m] = NewMachine("running")]
        <4>1. machine'[m] = NewMachine("running")
          BY <1>1, <3>2 DEF TypeInv, TypeOK
        <4>2. /\ machine'[m].controller = TRUE /\ machine'[m].desired = "running"
              /\ machine'[m].asked = {}
          BY <4>1 DEF NewMachine, NoMachine
        <4>3. ~Leaving(m)'
          BY <4>2 DEF Leaving
        <4> QED BY <2>0, <2>1, <2>5, <3>2, <4>2, <4>3 DEF SyncOf, Looks
      <3> QED BY <2>5, <3>1, <3>2 DEF Looks
    <2>6. CASE SameTask /\ FromTo("update", "replay") /\ UpdateFound
               /\ machine[worker.at].controller
      <3>1. ~Created(m)
        BY <2>6 DEF Created, FromTo
      <3>2. CASE m # worker.at
        <4>1. ~Asked(m)
          BY <2>6, <3>2 DEF Asked, FromTo, TerminateUnexpected, At
        <4> QED BY <2>0, <2>1, <2>6, <3>1, <3>2, <4>1 DEF SyncOf, SameTask, FromTo
      <3>3. CASE m = worker.at
        <4>1. s = "terminated"
          BY <2>0, <2>6, <3>3 DEF SyncOf, FromTo
        <4>2. UpdateDesiredState({m}, "terminated")
          BY <2>6, <3>3, <4>1 DEF UpdateFound
        <4>3. machine'[m].asked = machine[m].asked \cup {"terminated"}
          <5>1. machine'[m] = [machine[m] EXCEPT !.asked = @ \cup {"terminated"}]
            BY <2>6, <3>3, <4>2 DEF UpdateDesiredState
          <5> QED BY <1>3, <5>1 DEF Machine
        <4>4. Leaving(m)'
          BY <4>3 DEF Leaving
        <4> QED BY <2>0, <2>1, <2>6, <3>1, <3>3, <4>1, <4>4 DEF SyncOf, SameTask, FromTo
      <3> QED BY <3>2, <3>3
    <2>7. CASE Replays
      <3>1. Leaving(m)' <=> Leaving(m)
        BY <2>7, SameMachine DEF Replays
      <3>2. m = worker.at => s # "done"
        BY <1>1, <2>7 DEF Replays, FromTo, TypeInv, Shape, Desired
      <3>3. /\ m \in worker.expected => m \in worker'.expected
            /\ m \in worker'.expected => m \in worker.expected \/ m = worker.at
            /\ m = worker.at /\ worker.found => m \in worker'.expected
            /\ m \notin worker'.todo => m \notin worker.todo \/ m = worker.at
        BY <2>7 DEF Replays
      <3>4. /\ worker.pc = "replay" /\ worker'.pc = "sync" /\ worker'.specs[m] = s
            /\ machine'[m] = machine[m]
        BY <2>7 DEF Replays, FromTo
      <3> HIDE DEF s
      <3> QED BY <2>0, <2>1, <3>1, <3>2, <3>3, <3>4 DEF SyncOf, s
    <2>8. ~Registers
      BY <1>5 DEF Registers, FromTo
    <2>9. ASSUME NEW k \in Machines, Looks(k) PROVE SyncOf(m)'
      BY <2>4, <2>5, <2>9
    <2>10. FromTo("sync", "loop") => FALSE
      BY DEF FromTo
    <2> QED BY <1>1, <1>2, <2>2, <2>3, <2>6, <2>7, <2>8, <2>9, <2>10, TaskAfter
  <1>6. worker.pc \in {"register", "subscribe", "sync", "update", "replay", "loop"}
    BY <1>1, <1>2 DEF TypeInv, TypeOK, WorkerState
  <1>7. worker.pc = "register" => Registers
    BY <1>1, <1>2, PcAfter DEF FromTo
  <1>8. worker.pc # "loop"
    BY <1>1, <1>2, PcAfter DEF FromTo
  <1> QED BY <1>4, <1>5, <1>6, <1>7, <1>8

LEMMA LoopHandles ==
    ASSUME HandleIncomingEvent, worker' # IdleWorker PROVE Handled
  BY DEF HandleIncomingEvent, ConnectionFails

LEMMA SpecsAfter ==
    ASSUME TypeInv, [Next]_vars, worker' # IdleWorker, worker.pc # "idle"
    PROVE  worker'.conn = worker.conn /\ (worker'.specs = worker.specs \/ Registers)
  <1>1. \A m \in Machines : Looks(m) => worker'.specs = worker.specs
    BY DEF Looks
  <1>2. Replays \/ SameTask => worker'.specs = worker.specs
    BY DEF Replays, SameTask
  <1> QED BY <1>1, <1>2, TaskAfter

(* A connection that was just opened has nothing under way.                *)
LEMMA NothingPending ==
    ASSUME NEW k, k.holding = None, k.inbox = <<>>
    PROVE  /\ \A m \in Machines, d \in Desired : ~Pending(k, m, d)
           /\ InOrder(k)
  <1>1. DOMAIN <<>> = {}
    OBVIOUS
  <1>2. \A m \in Machines, d \in Desired : Msg(m, d) # None
    BY NoneIsNoMessage DEF Msg, Message
  <1> QED BY <1>1, <1>2 DEF Pending, InQueue, InOrder

LEMMA RegisteringQueue ==
    ASSUME AgreeInv, worker.pc = "register"
    PROVE  /\ conn[Current].holding = None /\ conn[Current].inbox = <<>>
           /\ worker.expected = {}
  BY DEF AgreeInv, QueueInv, TypeInv, TypeOK, Shape

LEMMA QueueStays ==
    ASSUME AgreeInv, TypeInv', [Next]_vars PROVE QueueInv'
  <1> DEFINE c == worker'.conn
  <1>0. TypeInv
    BY DEF AgreeInv
  <1>1. CASE worker'.pc = "idle"
    BY <1>1 DEF QueueInv
  <1>2. CASE worker'.pc # "idle" /\ worker.pc = "idle"
    <2>1. PICK k \in Connections : OpenConnection(k) /\ worker'.conn = k
                                   /\ worker'.pc = "register"
      BY <1>0, <1>2, WorkerAfter DEF IdleWorker
    <2>2. conn'[k] = [NoConnection EXCEPT !.link = "open"] /\ worker'.expected = {}
      BY <2>1 DEF OpenConnection, IdleWorker, AgreeInv, TypeInv, TypeOK
    <2>3. conn'[k].holding = None /\ conn'[k].inbox = <<>>
      BY <2>2 DEF NoConnection
    <2>4. /\ \A m \in Machines, d \in Desired : ~Pending(conn'[k], m, d)
          /\ InOrder(conn'[k])
      BY <2>3, NothingPending
    <2> QED BY <2>1, <2>2, <2>3, <2>4 DEF QueueInv, QueueOf, Current, Desired
  <1>3. CASE worker'.pc # "idle" /\ worker.pc # "idle"
    <2>0. worker' # IdleWorker /\ c = worker.conn /\ c \in Connections
      BY <1>0, <1>3, SpecsAfter DEF IdleWorker, TypeInv, Shape, Current
    <2>1. worker'.pc = "register" => conn'[c].inbox = <<>> /\ worker'.expected = {}
      <3> SUFFICES ASSUME worker'.pc = "register"
                   PROVE  conn'[c].inbox = <<>> /\ worker'.expected = {}
        OBVIOUS
      <3>1. worker.pc = "register"
        BY <1>0, <1>3, <2>0, PcAfter DEF FromTo
      <3>2. conn[c].inbox = <<>> /\ worker.expected = {}
        BY <2>0, <3>1, RegisteringQueue DEF Current
      <3>3. ~HandleIncomingEvent
        BY <3>1 DEF HandleIncomingEvent, At
      <3>4. conn'[c].inbox = <<>>
        BY <1>0, <1>3, <2>0, <3>1, <3>2, <3>3, QueueAfter DEF SameQueue
      <3>5. SameTask
        BY <1>0, <1>3, <2>0, <3>1, TaskAfter DEF Registers, FromTo, Looks, Replays
      <3> QED BY <3>2, <3>4, <3>5 DEF SameTask
    <2>2. InOrder(conn'[c])
      BY <1>3, <2>0, QueueOrder
    <2>3. ASSUME NEW m \in Machines PROVE QueueOf(m)'
      <3>0. /\ QueueOf(m) /\ "running" \in Desired /\ "terminated" \in Desired
        BY <1>3 DEF AgreeInv, QueueInv, Desired
      <3>1. /\ want'[m] = "none" => want[m] = "none"
            /\ Gone(m) => Gone(m)'
            /\ machine[m].row = "absent" => machine'[m].row = "absent" \/ Created(m)
        BY <2>0, Steady
      <3>2. ASSUME Pending(conn[c], m, "running"), ~HandlesNow(m, "running")
            PROVE  /\ want'[m] # "none" /\ machine'[m].row = "absent"
                   /\ Synchronising' => worker'.specs[m] = "none"
        <4>1. /\ want[m] # "none" /\ machine[m].row = "absent"
              /\ Synchronising => worker.specs[m] = "none"
          BY <2>0, <3>0, <3>2 DEF QueueOf, Current
        <4>2. ~Created(m)
          BY <3>2, <4>1 DEF Created, HandlesNow, Synchronising
        <4>3. ~Registers
          <5>1. worker.pc = "register" => ~Pending(conn[c], m, "running")
            BY <2>0, <3>0, RegisteringQueue, NothingPending DEF Current
          <5> QED BY <3>2, <5>1 DEF Registers, FromTo
        <4>4. worker'.specs = worker.specs
          BY <1>0, <1>3, <2>0, <4>3, SpecsAfter
        <4>5. Synchronising' => Synchronising
          BY <1>0, <1>3, <2>0, <4>3, PcAfter DEF Synchronising, FromTo
        <4> QED BY <3>1, <4>1, <4>2, <4>4, <4>5
      <3>3. ASSUME Tells(m, "running")
            PROVE  /\ want'[m] # "none" /\ machine'[m].row = "absent"
                   /\ Synchronising' => worker'.specs[m] = "none"
        <4>1. want[m] = "none" /\ want'[m] = "running" /\ machine' = machine
              /\ worker' = worker
          BY <3>3 DEF Tells, Wants, AgreeInv, TypeInv, TypeOK
        <4>2. machine[m].row = "absent"
          BY <4>1 DEF AgreeInv, WantInv
        <4>3. Synchronising => worker.specs[m] = "none"
          <5>1. worker.specs[m] \in {"none", "running", "terminated", "done"}
            BY DEF AgreeInv, TypeInv, TypeOK, WorkerState, Want
          <5> QED BY <4>1, <5>1 DEF AgreeInv, SyncInv, SyncOf, Gone
        <4> QED BY <4>1, <4>2, <4>3 DEF Synchronising
      <3>4. Pending(conn'[c], m, "terminated") => Gone(m)'
        <4>1. Pending(conn[c], m, "terminated") => Gone(m)
          BY <2>0, <3>0 DEF QueueOf, Current
        <4>2. Tells(m, "terminated") => Gone(m)'
          BY DEF Tells, Gone
        <4> QED BY <1>3, <2>0, <3>0, <3>1, <4>1, <4>2, PendingAfter
      <3>5. Pending(conn'[c], m, "running") =>
              /\ want'[m] # "none" /\ machine'[m].row = "absent"
              /\ Synchronising' => worker'.specs[m] = "none"
        BY <1>3, <2>0, <3>0, <3>2, <3>3, PendingAfter
      <3> QED BY <3>4, <3>5 DEF QueueOf, Current
    <2> QED BY <2>1, <2>2, <2>3 DEF QueueInv, Current
  <1> QED BY <1>1, <1>2, <1>3

(* A machine is served, or let go, until a message says otherwise.         *)
LEMMA PcOpen ==
    ASSUME TypeInv, [Next]_vars, worker' # IdleWorker,
           worker.pc \notin {"idle", "register"}
    PROVE  /\ worker'.conn = worker.conn /\ worker'.specs = worker.specs
           /\ worker'.pc \notin {"idle", "register"}
           /\ worker.pc = "loop" => worker'.pc = "loop"
           /\ worker.pc # "loop" /\ worker'.pc = "loop" =>
                FromTo("sync", "loop") /\ TerminateUnexpected /\ worker.todo = {}
  <1>1. ~Registers
    BY DEF Registers, FromTo
  <1>2. worker'.conn = worker.conn /\ worker'.specs = worker.specs
    BY <1>1, SpecsAfter
  <1>3. /\ worker'.pc \notin {"idle", "register"}
        /\ worker.pc = "loop" => worker'.pc = "loop"
    BY <1>1, PcAfter DEF FromTo
  <1>4. ASSUME worker.pc # "loop", worker'.pc = "loop"
        PROVE  FromTo("sync", "loop") /\ TerminateUnexpected /\ worker.todo = {}
    <2>1. \A m \in Machines : ~Looks(m)
      BY <1>4 DEF Looks
    <2>2. ~Replays /\ ~FromTo("subscribe", "sync") /\ ~FromTo("update", "replay")
      BY <1>4 DEF Replays, FromTo
    <2> QED BY <1>1, <1>4, <2>1, <2>2, TaskAfter
  <1> QED BY <1>2, <1>3, <1>4

LEMMA ServingStays ==
    ASSUME AgreeInv, [Next]_vars, worker' # IdleWorker,
           worker.pc \notin {"idle", "register"},
           NEW m \in Machines, Serving(m), ~HandlesNow(m, "terminated")
    PROVE  Serving(m)'
  <1>0. TypeInv
    BY DEF AgreeInv
  <1>1. ~Leaving(m) /\ Serves(m)
    BY DEF Serving
  <1>2. ASSUME worker.pc = "sync", worker.todo = {}
        PROVE  m \in worker.expected /\ machine[m].controller
    BY <1>1, <1>2 DEF Serves, At, AgreeInv, SyncInv, Synchronising, SyncOf
  <1>3. ~Asked(m)
    <2>1. ASSUME UpdateFound, worker.pc = "update", worker.specs[m] = "terminated"
          PROVE  FALSE
      BY <1>1, <2>1 DEF Serves, At
    <2>2. ASSUME TerminateUnexpected, m \notin worker.expected PROVE FALSE
      BY <1>2, <2>2 DEF TerminateUnexpected, At
    <2>3. ASSUME HandleIncomingEvent, conn[Current].holding = Msg(m, "terminated")
          PROVE  FALSE
      BY <2>3, LoopHandles DEF HandlesNow
    <2> QED BY <2>1, <2>2, <2>3 DEF Asked
  <1>4. /\ ~Leaving(m)'
        /\ machine[m].controller => machine'[m].controller
    BY <1>1, <1>3, Steady
  <1>5. Serves(m)'
    <2>1. CASE worker'.pc # "loop"
      BY <1>0, <1>1, <2>1, PcOpen DEF Serves, At
    <2>2. CASE worker.pc = "loop"
      BY <1>0, <1>1, <1>4, <2>2, PcOpen DEF Serves, At
    <2>3. CASE worker.pc # "loop" /\ worker'.pc = "loop"
      <3>1. worker.pc = "sync" /\ worker.todo = {}
        BY <1>0, <2>3, PcOpen DEF FromTo
      <3> QED BY <1>2, <1>4, <2>3, <3>1 DEF Serves, At
    <2> QED BY <2>1, <2>2, <2>3
  <1> QED BY <1>4, <1>5 DEF Serving

LEMMA EndingStays ==
    ASSUME AgreeInv, [Next]_vars, worker' # IdleWorker,
           worker.pc \notin {"idle", "register"},
           NEW m \in Machines, Ending(m), ~HandlesNow(m, "running")
    PROVE  Ending(m)'
  <1>0. TypeInv
    BY DEF AgreeInv
  <1>1. /\ Leaving(m) => Leaving(m)'
        /\ machine'[m].controller => machine[m].controller \/ Created(m)
    BY Steady
  <1>2. CASE worker'.pc # "loop"
    BY <1>0, <1>2, PcOpen DEF Ending, At
  <1>3. CASE worker.pc = "loop"
    <2>1. ~Created(m)
      BY <1>3 DEF Created, HandlesNow
    <2> QED BY <1>0, <1>1, <1>3, <2>1, PcOpen DEF Ending, At
  <1>4. CASE worker.pc # "loop" /\ worker'.pc = "loop"
    <2>1. worker.pc = "sync" /\ worker.todo = {} /\ TerminateUnexpected
      BY <1>0, <1>4, PcOpen DEF FromTo
    <2>2. /\ worker.specs[m] = "terminated" /\ machine[m].controller => Leaving(m)
          /\ worker.specs[m] = "done" => m \notin worker.expected
      BY <2>1 DEF AgreeInv, SyncInv, Synchronising, SyncOf
    <2>3. ~Created(m)
      BY <1>4, <2>1 DEF Created, TerminateUnexpected, SyncMachine
    <2>4. ASSUME m \notin worker.expected, machine[m].controller PROVE Leaving(m)'
      <3>1. UpdateDesiredState(Machines \ worker.expected, "terminated")
        BY <2>1 DEF TerminateUnexpected, Expected
      <3>2. machine'[m].asked = machine[m].asked \cup {"terminated"}
        BY <1>0, <2>4, <3>1, AskedOne
      <3> QED BY <3>2 DEF Leaving
    <2>5. worker.specs[m] \in {"terminated", "done"}
      BY <1>4 DEF Ending, At
    <2> QED BY <1>1, <1>4, <2>2, <2>3, <2>4, <2>5 DEF Ending, At
  <1> QED BY <1>2, <1>3, <1>4

LEMMA OpenStays ==
    ASSUME AgreeInv, TypeInv', [Next]_vars PROVE OpenInv'
  <1> SUFFICES ASSUME worker'.pc \notin {"idle", "register"},
                      conn'[worker'.conn].link = "open", NEW m \in Machines
               PROVE  OpenOf(m)'
    BY DEF OpenInv, Current
  <1> DEFINE c == worker.conn
             p == Pending(conn[c], m, "running")
             t == Pending(conn[c], m, "terminated")
  <1>0. TypeInv /\ worker' # IdleWorker /\ ~Restart /\ ~ConnectionFails
    BY NoFailure DEF AgreeInv, IdleWorker
  <1>1. worker.pc # "idle" /\ worker'.conn = c /\ c \in Connections
    <2>1. worker.pc # "idle"
      BY <1>0, WorkerAfter
    <2> QED BY <1>0, <2>1, SpecsAfter DEF TypeInv, Shape, Current
  <1>2. conn[c].link = "open"
    <2>1. ~OpenConnection(c)
      BY <1>1 DEF OpenConnection, At
    <2>2. conn[c] \in Connection
      BY <1>0, <1>1 DEF TypeInv, TypeOK
    <2>3. /\ \A x : SameWire(conn'[c], [conn[c] EXCEPT !.channel = x])
                      => conn'[c].link = conn[c].link
          /\ \A x : SameWire(conn'[c], [conn[c] EXCEPT !.waiting = x])
                      => conn'[c].link = conn[c].link
          /\ \A x : SameWire(conn'[c], [conn[c] EXCEPT !.checking = x])
                      => conn'[c].link = conn[c].link
          /\ SameWire(conn'[c], conn[c]) => conn'[c].link = conn[c].link
      BY <2>2 DEF SameWire, Connection
    <2> QED BY <1>0, <1>1, <2>1, <2>3, WireAfter
  <1>3. OpenOf(m)' <=>
          LET starts == Pending(conn'[c], m, "running")
              ends   == Pending(conn'[c], m, "terminated")
          IN /\ starts => want'[m] = "running" \/ (want'[m] = "terminated" /\ ends)
             /\ ends => want'[m] = "terminated"
             /\ ~starts /\ (ends \/ want'[m] = "running") => Serving(m)'
             /\ ~starts /\ ~ends /\ want'[m] \in {"terminated", "done"} => Ending(m)'
    BY <1>1 DEF OpenOf, Current, Gone
  <1>4. /\ Pending(conn'[c], m, "running")
             <=> (p \/ Tells(m, "running")) /\ ~HandlesNow(m, "running")
        /\ Pending(conn'[c], m, "terminated")
             <=> (t \/ Tells(m, "terminated")) /\ ~HandlesNow(m, "terminated")
    BY <1>0, <1>1, PendingAfter DEF Desired
  <1>5. CASE worker.pc = "register"
    <2>1. Registers
      BY <1>0, <1>1, <1>5, PcAfter DEF FromTo
    <2>2. ~p /\ ~t /\ ~Tells(m, "running") /\ ~Tells(m, "terminated")
      BY <1>5, RegisteringQueue, NothingPending DEF Current, Desired, Tells
    <2>3. Leaving(m) => Gone(m)
      BY DEF AgreeInv, WantInv
    <2>4. /\ worker'.pc = "subscribe" /\ worker'.specs = want /\ want' = want
          /\ Leaving(m)' <=> Leaving(m)
      BY <2>1, SameMachine DEF Registers, FromTo
    <2> QED BY <1>3, <1>4, <2>2, <2>3, <2>4 DEF Serving, Serves, Ending, At, Gone
  <1>6. CASE worker.pc # "register"
    <2>0. worker.pc \notin {"idle", "register"}
      BY <1>1, <1>6
    <2>1. /\ p => want[m] = "running" \/ (want[m] = "terminated" /\ t)
          /\ t => want[m] = "terminated"
          /\ ~p /\ (t \/ want[m] = "running") => Serving(m)
          /\ ~p /\ ~t /\ Gone(m) => Ending(m)
      BY <1>2, <2>0 DEF AgreeInv, OpenInv, OpenOf, Current
    <2>2. /\ p => machine[m].row = "absent"
          /\ p /\ Synchronising => worker.specs[m] = "none"
      BY <2>0 DEF AgreeInv, QueueInv, QueueOf, Current
    <2>3. /\ ~HandlesNow(m, "terminated") /\ Serving(m) => Serving(m)'
          /\ ~HandlesNow(m, "running") /\ Ending(m) => Ending(m)'
      BY <1>0, <2>0, ServingStays, EndingStays
    <2>4. CASE Wants(m)
      <3>1. \/ want[m] = "none" /\ want'[m] = "running"
            \/ want[m] = "running" /\ want'[m] = "terminated"
        BY <1>0, <2>4 DEF Wants, TypeInv, TypeOK
      <3>2. /\ Tells(m, "running") <=> want'[m] = "running"
            /\ Tells(m, "terminated") <=> want'[m] = "terminated"
        BY <1>2, <2>0, <2>4 DEF Tells, Current
      <3>3. \A d : ~HandlesNow(m, d)
        BY <1>0, <2>4 DEF HandlesNow, HandleIncomingEvent, Wants, TypeInv, TypeOK
      <3> QED BY <1>3, <1>4, <2>1, <2>3, <3>1, <3>2, <3>3 DEF Gone
    <2>5. CASE HandlesNow(m, "running")
      <3>1. HandleIncomingEvent /\ conn[c].holding = Msg(m, "running")
            /\ worker.pc = "loop"
        BY <2>5 DEF HandlesNow, HandleIncomingEvent, At, Current
      <3>2. p /\ ~HandlesNow(m, "terminated")
        BY <3>1 DEF Pending, HandlesNow, Msg, Current
      <3>3. want' = want /\ ~Wants(m)
        BY <1>0, <3>1 DEF HandleIncomingEvent, Wants, TypeInv, TypeOK
      <3>4. machine' = [machine EXCEPT ![m] = NewMachine("running")]
        BY <1>0, <3>1 DEF HandleIncomingEvent, Create, NewMachine, Current, Msg
      <3>5. machine'[m] = NewMachine("running")
        BY <1>0, <3>4 DEF TypeInv, TypeOK
      <3>6. /\ machine'[m].controller = TRUE /\ machine'[m].desired = "running"
            /\ machine'[m].asked = {}
        BY <3>5 DEF NewMachine, NoMachine
      <3>7. worker'.pc = "loop"
        BY <1>0, <2>0, <3>1, PcOpen
      <3>8. Serving(m)'
        BY <3>6, <3>7 DEF Serving, Serves, Leaving, At
      <3> QED BY <1>3, <1>4, <2>1, <3>2, <3>3, <3>8, <2>5 DEF Tells
    <2>6. CASE HandlesNow(m, "terminated")
      <3>1. HandleIncomingEvent /\ conn[c].holding = Msg(m, "terminated")
            /\ worker.pc = "loop" /\ Handled
        BY <2>6 DEF HandlesNow, HandleIncomingEvent, At, Current
      <3>2. t /\ ~HandlesNow(m, "running")
        BY <3>1 DEF Pending, HandlesNow, Msg, Current
      <3>3. want' = want /\ ~Wants(m)
        BY <1>0, <3>1 DEF HandleIncomingEvent, Wants, TypeInv, TypeOK
      <3>4. ~p
        <4>1. SUFFICES ASSUME p PROVE FALSE
          OBVIOUS
        <4>2. conn[c].holding # None /\ InOrder(conn[c])
              /\ conn[c].holding # Msg(m, "running")
          BY <1>0, <1>1, <3>1, HandledMessage DEF AgreeInv, QueueInv, Current, Msg
        <4>3. PICK j \in DOMAIN conn[c].inbox : conn[c].inbox[j] = Msg(m, "running")
          BY <4>1, <4>2 DEF Pending, InQueue
        <4>4. Later(Msg(m, "terminated"), Msg(m, "running"))
          BY <3>1, <4>2, <4>3 DEF InOrder
        <4> QED BY <4>4 DEF Later, Msg
      <3>5. UpdateDesiredState({m}, "terminated") /\ machine[m].controller
        BY <1>0, <3>1 DEF HandleIncomingEvent, Current, Msg
      <3>6. Leaving(m)'
        BY <1>0, <3>5, AskedOne DEF Leaving
      <3>7. worker'.pc = "loop"
        BY <1>0, <2>0, <3>1, PcOpen
      <3>8. Ending(m)'
        BY <3>6, <3>7 DEF Ending, At
      <3> QED BY <1>3, <1>4, <2>1, <2>6, <3>2, <3>3, <3>4, <3>8 DEF Tells
    <2>7. CASE ~Wants(m) /\ ~HandlesNow(m, "running") /\ ~HandlesNow(m, "terminated")
      <3>1. /\ Pending(conn'[c], m, "running") <=> p
            /\ Pending(conn'[c], m, "terminated") <=> t
        BY <1>4, <2>7 DEF Tells
      <3>2. CASE want'[m] = want[m]
        BY <1>3, <2>1, <2>3, <2>7, <3>1, <3>2 DEF Gone
      <3>3. ~Abandons(m)
        BY <1>1, <1>2, <2>0 DEF Abandons, Registered
      <3>4. CASE EndHeard(m)
        <4>1. ~p /\ ~t /\ Gone(m)
          <5>1. CASE Leaving(m)
            <6>1. machine[m].row # "absent" /\ Gone(m)
              BY <5>1 DEF AgreeInv, WantInv
            <6> QED BY <2>1, <2>2, <5>1, <6>1 DEF Serving
          <5>2. CASE worker.pc = "replay" /\ worker.at = m /\ worker.specs[m] = "terminated"
            <6>1. Gone(m)
              BY <5>2 DEF AgreeInv, SyncInv, Synchronising, SyncOf
            <6>2. ~Serving(m)
              BY <5>2 DEF Serving, Serves, At
            <6> QED BY <2>1, <2>2, <5>2, <6>1, <6>2 DEF Synchronising
          <5> QED BY <3>4, <5>1, <5>2 DEF EndHeard
        <4> QED BY <1>3, <2>1, <2>3, <2>7, <3>1, <3>4, <4>1 DEF EndHeard
      <3> QED BY <2>7, <3>2, <3>3, <3>4, WantAfter
    <2> QED BY <2>4, <2>5, <2>6, <2>7
  <1> QED BY <1>5, <1>6

LEMMA InitialAgreement ==
    ASSUME Init PROVE AgreeInv
  <1>1. TypeInv
    BY InitialTypeInv
  <1>2. /\ \A m \in Machines : machine[m] = NoMachine /\ want[m] = "none"
        /\ \A e \in Event : evt[e] = "none"
        /\ conn = [c \in Connections |-> NoConnection] /\ worker = IdleWorker
    BY DEF Init
  <1>3. AbsentInv /\ LifeInv /\ WantInv
    <2>1. \A m \in Machines :
            /\ machine[m].row = "absent" /\ ~machine[m].controller
            /\ machine[m].state = "pending" /\ machine[m].desired = "none"
            /\ machine[m].asked = {}
      BY <1>2 DEF NoMachine
    <2>2. \A m \in Machines : evt[<<m, "terminated">>] = "none"
      BY <1>2, EventTypes
    <2>3. AbsentInv
      BY <1>2, <2>1 DEF AbsentInv, EventsOf
    <2> QED BY <1>2, <2>1, <2>2, <2>3 DEF LifeInv, WantInv, Leaving
  <1>4. TrailInv
    BY <1>2 DEF TrailInv, NoConnection
  <1>5. SyncInv /\ QueueInv /\ OpenInv
    BY <1>2 DEF SyncInv, Synchronising, QueueInv, OpenInv, IdleWorker
  <1> QED BY <1>1, <1>3, <1>4, <1>5 DEF AgreeInv

LEMMA AgreementStays ==
    ASSUME AgreeInv, [Next]_vars PROVE AgreeInv'
  <1>1. TypeInv'
    BY TypeStays DEF AgreeInv
  <1>2. AbsentInv' /\ TrailInv'
    BY AbsentStays, TrailStays DEF AgreeInv
  <1> QED BY <1>1, <1>2, LifeStays, WantStays, SyncStays, QueueStays, OpenStays
          DEF AgreeInv

(* In the dispatch loop, with no message under way on a stream that works, *)
(* the node runs what the control plane expects, and nothing else but what *)
(* it is about to terminate (connection.go, dispatch.go).                  *)
THEOREM AgreementCorrect == Spec => []AgreesWhenIdle
  <1>1. ASSUME AgreeInv PROVE AgreesWhenIdle
    <2> SUFFICES ASSUME worker.pc = "loop", conn[Current].link = "open",
                        conn[Current].inbox = <<>>, conn[Current].receiver = "receiving",
                        NEW m \in Machines
                 PROVE  IF want[m] = "running" THEN machine[m].controller /\ ~Leaving(m)
                        ELSE machine[m].controller => Leaving(m)
      BY DEF AgreesWhenIdle, At, Leaving
    <2>1. Current \in Connections
      BY <1>1 DEF AgreeInv, TypeInv, Shape
    <2>2. conn[Current].holding = None
      BY <1>1, <2>1 DEF AgreeInv, TypeInv, TypeOK
    <2>3. ~Pending(conn[Current], m, "running") /\ ~Pending(conn[Current], m, "terminated")
      BY <2>2, NothingPending DEF Desired
    <2>4. OpenOf(m)
      BY <1>1 DEF AgreeInv, OpenInv
    <2>5. want[m] = "none" => ~machine[m].controller
      BY <1>1 DEF AgreeInv, WantInv, AbsentInv
    <2>6. want[m] \in {"none", "running", "terminated", "done"}
      BY <1>1 DEF AgreeInv, TypeInv, TypeOK, Want
    <2> QED BY <2>3, <2>4, <2>5, <2>6 DEF OpenOf, Serving, Serves, Ending, At, Gone
  <1> QED BY InitialAgreement, AgreementStays, <1>1, PTL DEF Spec
================================================================================
