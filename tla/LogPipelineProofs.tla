---------------------------- MODULE LogPipelineProofs ----------------------------
(***************************************************************************)
(* Proofs about LogPipeline, for any number of connections, followers and  *)
(* lines: its type invariant, that the guest's log service and the         *)
(* runtime's each implement LogFeed, and that the file has each line once. *)
(* The last part has the proofs about LogRequests, the requests of the     *)
(* agent's clients: that they are answered in full, and that what a client *)
(* gets implements LogFeed too.                                            *)
(***************************************************************************)
EXTENDS LogPipeline, TLAPS

(* Every step of the module is one of these.                               *)
LEMMA StepCases ==
    ASSUME [Next]_vars
    PROVE  \/ WriteLine \/ LockHandlers \/ Unlock
           \/ \E s \in Streams :
                \/ HandleEntry(s) \/ ReadHistoricalLog(s) \/ HistoryEnds(s)
                \/ AddHandler(s) \/ Unsubscribe(s) \/ ServerSend(s) \/ ServerReturns(s)
                \/ Break(s) \/ Connect(s)
           \/ Receive \/ LookUpHandlers \/ LineDone \/ StreamOver
           \/ \E f \in Followers :
                \/ HandToFollower(f) \/ Follow(f) \/ ReadLog(f) \/ EndOfLogs(f)
                \/ Attach(f) \/ SendLive(f) \/ HangUp(f) \/ Leave(f)
           \/ UNCHANGED vars
  BY DEF Next, Writer, Guest, Relay, Request

-------------------------------------------------------------------------------
(* Lines in hand are lines: at the writer, at a server and at the relay.   *)
InHand ==
    /\ guest.writer # "idle" => guest.lines >= 1
    /\ guest.todo # {} => guest.writer = "sending"
    /\ \A s \in Streams : stream[s].server = "sending" => stream[s].holding \in Line
    /\ relay.pc # "receive" => Len(file) >= 1

(* They are when nothing is in hand.                                       *)
LEMMA TypeInit ==
    ASSUME LogPipelineAssumption, Init
    PROVE  TypeOK /\ InHand
  <1>1. NoStream \in StreamState /\ NoFollower \in FollowerState
    BY LogPipelineAssumption
    DEF NoStream, StreamState, NoFollower, FollowerState, LogPipelineAssumption, Line
  <1>2. file \in Seq(Line) /\ file = <<>>
    BY DEF Init
  <1>3. guest \in GuestState /\ relay \in RelayState
    BY DEF Init, GuestState, RelayState, LogPipelineAssumption
  <1>4. stream \in [Streams -> StreamState] /\ follower \in [Followers -> FollowerState]
    BY <1>1 DEF Init
  <1>5. /\ \A s \in Streams : stream[s].pos <= guest.lines /\ stream[s].server = "none"
        /\ \A f \in Followers : follower[f].pos <= Len(file)
    BY <1>2 DEF Init, NoStream, NoFollower
  <1> QED BY <1>2, <1>3, <1>4, <1>5 DEF Init, TypeOK, InHand

(* An update of one connection, with the lines as they are or one more.    *)
StreamUpdate(s) ==
    /\ \E new \in StreamState :
         /\ stream' = [stream EXCEPT ![s] = new]
         /\ new.pos <= guest'.lines
         /\ new.server = "sending" => new.holding \in Line
    /\ UNCHANGED <<file, follower>>
    /\ guest' \in GuestState /\ guest'.lines = guest.lines /\ guest'.writer = guest.writer
    /\ guest'.todo \subseteq guest.todo

(* The same of a follower.                                                 *)
FollowerUpdate(f) ==
    /\ \E new \in FollowerState :
         follower' = [follower EXCEPT ![f] = new] /\ new.pos <= Len(file)
    /\ UNCHANGED <<guest, stream, file, flawed, faults>>
    /\ relay' \in RelayState /\ relay'.pc = relay.pc
    /\ crashed' \in BOOLEAN

(* Such a step keeps to the types.                                         *)
LEMMA StreamUpdateType ==
    ASSUME TypeOK, InHand, NEW s \in Streams, StreamUpdate(s),
           relay' \in RelayState, relay'.pc = relay.pc,
           crashed' \in BOOLEAN, flawed' \in BOOLEAN, faults' \in Nat
    PROVE  TypeOK' /\ InHand'
  BY DEF TypeOK, InHand, StreamUpdate

(* And so does such a one of a follower.                                   *)
LEMMA FollowerUpdateType ==
    ASSUME TypeOK, InHand, NEW f \in Followers, FollowerUpdate(f)
    PROVE  TypeOK' /\ InHand'
  BY DEF TypeOK, InHand, FollowerUpdate

(* What a server is handed.                                                *)
LEMMA GiveType ==
    ASSUME TypeOK, NEW s \in Streams, NEW line \in Line, line <= guest.lines, Give(s, line)
    PROVE  \E new \in StreamState :
             /\ stream' = [stream EXCEPT ![s] = new]
             /\ new.pos <= guest.lines
             /\ new.server = "sending" => new.holding \in Line
  <1>. DEFINE new == [stream[s] EXCEPT
                        !.server = "sending", !.holding = line, !.got = Append(@, line),
                        !.pos = IF stream[s].reader = "live" THEN @ ELSE line]
  <1>1. stream[s] \in StreamState /\ stream[s].pos <= guest.lines
    BY DEF TypeOK
  <1>2. Append(stream[s].got, line) \in Seq(Line) /\ line \in 0..MaxLines
    BY <1>1 DEF StreamState, Line
  <1>3. new \in StreamState /\ new.pos <= guest.lines /\ new.holding = line
    BY <1>1, <1>2 DEF StreamState
  <1>4. stream' = [stream EXCEPT ![s] = new]
    BY DEF Give
  <1> QED BY <1>3, <1>4

(* The steps in the guest.                                                 *)
LEMMA TypeGuest ==
    ASSUME LogPipelineAssumption, TypeOK, InHand, NEW s \in Streams,
           \/ HandleEntry(s) \/ ReadHistoricalLog(s) \/ HistoryEnds(s) \/ AddHandler(s)
           \/ Unsubscribe(s) \/ ServerSend(s) \/ ServerReturns(s) \/ Break(s)
    PROVE  TypeOK' /\ InHand'
  <1>0. stream[s] \in StreamState /\ stream[s].pos <= guest.lines
        /\ guest.lines \in 0..MaxLines /\ MaxLines \in Nat
    BY DEF TypeOK, GuestState, LogPipelineAssumption
  <1>1. StreamUpdate(s)
    <2>1. CASE HandleEntry(s)
      <3>1. guest.lines \in Line /\ guest.lines <= guest.lines
        BY <1>0, <2>1 DEF HandleEntry, Locked, InHand, Line
      <3>2. guest' = [guest EXCEPT !.todo = @ \ {s}]
        BY <2>1 DEF HandleEntry
      <3>3. guest' \in GuestState /\ guest'.lines = guest.lines
            /\ guest'.writer = guest.writer /\ guest'.todo \subseteq guest.todo
        BY <3>2 DEF TypeOK, GuestState
      <3> QED BY <2>1, <3>1, <3>3, GiveType DEF HandleEntry, StreamUpdate
    <2>2. CASE ReadHistoricalLog(s)
      <3>1. stream[s].pos + 1 \in Line /\ stream[s].pos + 1 <= guest.lines
        BY <1>0, <2>2 DEF ReadHistoricalLog, Line, StreamState
      <3> QED BY <2>2, <3>1, GiveType DEF ReadHistoricalLog, StreamUpdate, TypeOK
    <2>3. CASE HistoryEnds(s) \/ AddHandler(s) \/ Unsubscribe(s)
      <3>1. \A r \in {"attaching", "live", "done"} :
              [stream[s] EXCEPT !.reader = r] \in StreamState
        BY <1>0 DEF StreamState
      <3>2. PICK r \in {"attaching", "live", "done"} :
              stream' = [stream EXCEPT ![s].reader = r]
        BY <2>3 DEF HistoryEnds, AddHandler, Unsubscribe
      <3>5. stream' = [stream EXCEPT ![s] = [stream[s] EXCEPT !.reader = r]]
        BY <3>2
      <3>3. stream[s].server = "sending" => stream[s].holding \in Line
        BY DEF InHand
      <3>4. UNCHANGED <<guest, file, follower>>
        BY <2>3 DEF HistoryEnds, AddHandler, Unsubscribe
      <3>6. [stream[s] EXCEPT !.reader = r].pos = stream[s].pos
            /\ [stream[s] EXCEPT !.reader = r].server = stream[s].server
            /\ [stream[s] EXCEPT !.reader = r].holding = stream[s].holding
        BY <1>0 DEF StreamState
      <3> QED BY <1>0, <3>1, <3>5, <3>3, <3>4, <3>6 DEF StreamUpdate, TypeOK
    <2>4. CASE Break(s)
      <3>1. [stream[s] EXCEPT !.link = "broken"] \in StreamState
        BY <1>0 DEF StreamState
      <3>2. stream' = [stream EXCEPT ![s] = [stream[s] EXCEPT !.link = "broken"]]
        BY <2>4 DEF Break
      <3>3. stream[s].server = "sending" => stream[s].holding \in Line
        BY DEF InHand
      <3> QED BY <1>0, <2>4, <3>1, <3>2, <3>3 DEF Break, StreamUpdate, TypeOK, StreamState
    <2>5. CASE ServerSend(s) \/ ServerReturns(s)
      <3>0. 0 \in 0..MaxLines /\ <<>> \in Seq(Line)
        BY <1>0
      <3>1. Returned(s) \in StreamState /\ Returned(s).pos = stream[s].pos
            /\ Returned(s).server = "gone"
        BY <1>0, <3>0 DEF Returned, NoStream, StreamState
      <3>2. [stream[s] EXCEPT !.server = "receiving", !.holding = 0] \in StreamState
        BY <1>0, <3>0 DEF StreamState
      <3>3. stream[s].server = "sending" =>
              [stream[s] EXCEPT !.server = "receiving", !.holding = 0,
                                !.wire = Append(@, stream[s].holding)] \in StreamState
        <4> SUFFICES ASSUME stream[s].server = "sending"
                     PROVE  [stream[s] EXCEPT !.server = "receiving", !.holding = 0,
                                !.wire = Append(@, stream[s].holding)] \in StreamState
          OBVIOUS
        <4>1. Append(stream[s].wire, stream[s].holding) \in Seq(Line)
          BY <1>0 DEF StreamState, InHand
        <4> QED BY <1>0, <3>0, <4>1 DEF StreamState
      <3>4. UNCHANGED <<guest, file, follower>>
        BY <2>5 DEF ServerSend, ServerReturns
      <3>5. \/ stream' = [stream EXCEPT ![s] = Returned(s)]
            \/ stream' = [stream EXCEPT ![s] = [stream[s] EXCEPT !.server = "receiving",
                                                                 !.holding = 0]]
            \/ /\ stream[s].server = "sending"
               /\ stream' = [stream EXCEPT ![s] =
                    [stream[s] EXCEPT !.server = "receiving", !.holding = 0,
                                      !.wire = Append(@, stream[s].holding)]]
        BY <2>5 DEF ServerSend, ServerReturns
      <3> QED BY <1>0, <3>1, <3>2, <3>3, <3>4, <3>5 DEF StreamUpdate, TypeOK, StreamState
    <2> QED BY <2>1, <2>2, <2>3, <2>4, <2>5
  <1>2. relay' = relay /\ crashed' = crashed /\ (flawed' = flawed \/ AddHandler(s))
        /\ (faults' = faults \/ faults' = faults + 1)
    BY DEF HandleEntry, ReadHistoricalLog, HistoryEnds, AddHandler, Unsubscribe,
       ServerSend, ServerReturns, Break, TypeOK
  <1>3. flawed' \in BOOLEAN /\ faults' \in Nat
    <2>1. faults' \in Nat
      BY <1>2 DEF TypeOK
    <2>2. CASE AddHandler(s)
      <3>1. flawed' = (flawed \/ stream[s].pos < guest.lines \/ guest.writer = "written")
        BY <2>2 DEF AddHandler
      <3>2. (flawed \/ stream[s].pos < guest.lines \/ guest.writer = "written") \in BOOLEAN
        OBVIOUS
      <3> QED BY <2>1, <3>1, <3>2
    <2> QED BY <1>2, <2>1, <2>2 DEF TypeOK
  <1> QED BY <1>1, <1>2, <1>3, StreamUpdateType DEF TypeOK

(* The steps of the service's writer.                                      *)
LEMMA TypeWriter ==
    ASSUME LogPipelineAssumption, TypeOK, InHand, WriteLine \/ LockHandlers \/ Unlock
    PROVE  TypeOK' /\ InHand'
  <1>1. guest' \in GuestState /\ guest'.lines >= guest.lines
        /\ (guest'.writer # "idle" => guest'.lines >= 1)
        /\ (guest'.todo # {} => guest'.writer = "sending")
    <2>1. guest \in GuestState /\ guest.lines \in 0..MaxLines /\ MaxLines \in Nat
      BY DEF TypeOK, GuestState, LogPipelineAssumption
    <2>2. CASE WriteLine
      <3>1. guest' = [guest EXCEPT !.lines = @ + 1, !.writer = "written"]
            /\ guest.lines < MaxLines /\ guest.todo = {}
        BY <2>2 DEF WriteLine, InHand
      <3>2. guest.lines + 1 \in 0..MaxLines /\ guest.lines + 1 >= 1
        BY <2>1, <3>1
      <3>3. guest' = [lines |-> guest.lines + 1, writer |-> "written", todo |-> guest.todo]
        BY <2>1, <3>1 DEF GuestState
      <3>4. guest' \in GuestState
        BY <2>1, <3>2, <3>3 DEF GuestState
      <3> QED BY <2>1, <3>1, <3>2, <3>3, <3>4
    <2>3. CASE LockHandlers
      <3>1. guest' = [guest EXCEPT !.writer = "sending", !.todo = Handlers]
            /\ guest.lines >= 1 /\ Handlers \subseteq Streams
        BY <2>3 DEF LockHandlers, InHand, Handlers
      <3>2. guest' = [lines |-> guest.lines, writer |-> "sending", todo |-> Handlers]
        BY <2>1, <3>1 DEF GuestState
      <3>3. guest' \in GuestState
        BY <2>1, <3>1, <3>2 DEF GuestState
      <3> QED BY <2>1, <3>1, <3>2, <3>3
    <2>4. CASE Unlock
      BY <2>1, <2>4 DEF Unlock, GuestState, InHand, Locked
    <2> QED BY <2>2, <2>3, <2>4
  <1>2. UNCHANGED <<stream, relay, file, follower, crashed, flawed, faults>>
    BY DEF WriteLine, LockHandlers, Unlock
  <1> QED BY <1>1, <1>2 DEF TypeOK, InHand, GuestState, StreamState

(* The steps of the runtime's listener.                                    *)
LEMMA TypeRelay ==
    ASSUME LogPipelineAssumption, TypeOK, InHand,
           \/ \E s \in Streams : Connect(s)
           \/ Receive \/ LookUpHandlers \/ LineDone \/ StreamOver
    PROVE  TypeOK' /\ InHand'
  <1>0. /\ relay \in RelayState /\ faults \in Nat /\ file \in Seq(Line) /\ MaxLines \in Nat
        /\ guest \in GuestState
    BY DEF TypeOK, LogPipelineAssumption
  <1>1. ASSUME NEW s \in Streams, Connect(s) PROVE TypeOK' /\ InHand'
    <2>. DEFINE new == [NoStream EXCEPT !.reader = "history", !.server = "receiving"]
    <2>0. 0 \in 0..MaxLines /\ <<>> \in Seq(Line)
      BY <1>0
    <2>1. new \in StreamState /\ new.pos = 0 /\ new.server = "receiving"
      BY <2>0 DEF NoStream, StreamState
    <2>2. stream' = [stream EXCEPT ![s] = new]
      BY <1>1 DEF Connect
    <2>3. StreamUpdate(s)
      <3>1. UNCHANGED <<guest, file, follower>>
        BY <1>1 DEF Connect
      <3>2. guest.lines \in Nat
        BY <1>0 DEF GuestState
      <3>3. new.pos <= guest'.lines /\ new.server # "sending"
        BY <2>1, <3>1, <3>2
      <3> HIDE DEF new
      <3>4. \E n \in StreamState :
              /\ stream' = [stream EXCEPT ![s] = n]
              /\ n.pos <= guest'.lines
              /\ n.server = "sending" => n.holding \in Line
        BY <2>1, <2>2, <3>3
      <3> QED BY <1>0, <3>1, <3>4 DEF StreamUpdate
    <2>4. relay' \in RelayState /\ relay'.pc = relay.pc
      BY <1>0, <1>1 DEF Connect, RelayState
    <2> QED BY <1>1, <2>3, <2>4, StreamUpdateType DEF Connect, TypeOK
  <1>2. ASSUME NEW s \in Streams, NEW wire \in Seq(Line),
               stream' = [stream EXCEPT ![s].wire = wire]
        PROVE  /\ stream' \in [Streams -> StreamState]
               /\ \A t \in Streams : /\ stream'[t].pos = stream[t].pos
                                     /\ stream'[t].server = stream[t].server
                                     /\ stream'[t].holding = stream[t].holding
    <2>1. stream[s] \in StreamState
      BY DEF TypeOK
    <2>2. [stream[s] EXCEPT !.wire = wire] \in StreamState
      BY <1>2, <2>1 DEF StreamState
    <2>3. stream' = [stream EXCEPT ![s] = [stream[s] EXCEPT !.wire = wire]]
      BY <1>2
    <2> QED BY <2>1, <2>2, <2>3 DEF TypeOK, StreamState
  <1>3. CASE Receive
    <2>1. relay.at \in Streams /\ stream[relay.at].wire \in Seq(Line)
          /\ stream[relay.at].wire # <<>>
      BY <1>0, <1>3 DEF Receive, RelayState, TypeOK, StreamState
    <2>2. Head(stream[relay.at].wire) \in Line /\ Tail(stream[relay.at].wire) \in Seq(Line)
      BY <2>1
    <2>3. stream' = [stream EXCEPT ![relay.at].wire = Tail(@)]
      BY <1>3 DEF Receive, WriteLog
    <2>. DEFINE line == Head(stream[relay.at].wire)
                next == [relay EXCEPT !.seq = @ + 1]
    <2>a. \/ relay' = next /\ UNCHANGED <<file, flawed, faults>>
          \/ /\ file' = Append(file, line) /\ relay' = [next EXCEPT !.pc = "handlers"]
             /\ UNCHANGED <<flawed, faults>>
          \/ /\ faults' = faults + 1 /\ flawed' = TRUE /\ file' = file
             /\ relay' = [next EXCEPT !.counted = @ + 1]
      BY <1>3 DEF Receive, WriteLog
    <2>b. relay.pc = "receive"
      BY <1>3 DEF Receive, WriteLog
    <2>c. /\ next \in RelayState /\ next.pc = "receive"
          /\ [next EXCEPT !.pc = "handlers"] \in RelayState
          /\ [next EXCEPT !.counted = @ + 1] \in RelayState
          /\ [next EXCEPT !.counted = @ + 1].pc = "receive"
      <3>1. relay.seq + 1 \in Nat
        BY <1>0 DEF RelayState
      <3>2. next \in RelayState /\ next.pc = "receive"
        BY <1>0, <2>b, <3>1 DEF RelayState
      <3>3. next.counted + 1 \in Nat
        BY <3>2 DEF RelayState
      <3> HIDE DEF next
      <3> QED BY <3>2, <3>3 DEF RelayState
    <2>d. Append(file, line) \in Seq(Line) /\ Len(Append(file, line)) = Len(file) + 1
          /\ Len(file) \in Nat
      BY <1>0, <2>2
    <2>e. flawed \in BOOLEAN
      BY DEF TypeOK
    <2>4. file' \in Seq(Line) /\ Len(file') >= Len(file)
          /\ (relay'.pc # "receive" => Len(file') >= 1)
      <3> HIDE DEF next, line
      <3>1. \/ file' = file /\ relay'.pc = "receive"
            \/ file' = Append(file, line)
        BY <2>a, <2>c
      <3>2. CASE file' = file /\ relay'.pc = "receive"
        BY <1>0, <2>d, <3>2
      <3>3. CASE file' = Append(file, line)
        <4>1. file' \in Seq(Line)
          BY <2>d, <3>3
        <4>2. Len(file') = Len(file) + 1
          BY <2>d, <3>3
        <4> QED BY <2>d, <4>1, <4>2
      <3> QED BY <3>1, <3>2, <3>3
    <2>5. relay' \in RelayState
      <3> HIDE DEF next
      <3> QED BY <2>a, <2>c
    <2>6. flawed' \in BOOLEAN /\ faults' \in Nat
      <3> HIDE DEF next, line
      <3>1. (flawed' = flawed \/ flawed' = TRUE) /\ (faults' = faults \/ faults' = faults + 1)
        BY <2>a
      <3>2. flawed' \in BOOLEAN
        BY <2>e, <3>1
      <3> QED BY <1>0, <3>1, <3>2
    <2>7. UNCHANGED <<guest, follower, crashed>>
      BY <1>3 DEF Receive, WriteLog
    <2>8. stream' = [stream EXCEPT ![relay.at].wire = Tail(stream[relay.at].wire)]
      BY <2>3
    <2>9. \A f \in Followers : follower'[f].pos <= Len(file')
      BY <1>0, <2>4, <2>7 DEF TypeOK, FollowerState
    <2> QED BY <1>2, <2>1, <2>2, <2>4, <2>5, <2>6, <2>7, <2>8, <2>9 DEF TypeOK, InHand
  <1>4. CASE LookUpHandlers \/ LineDone
    <2>1. relay' \in RelayState /\ (relay'.pc # "receive" => relay.pc # "receive")
      <3>1. CASE LookUpHandlers
        <4>1. relay' = [relay EXCEPT !.pc = "handing", !.todo = Live]
              /\ relay.pc = "handlers" /\ Live \subseteq Followers
          BY <3>1 DEF LookUpHandlers, Live
        <4> HIDE DEF Live
        <4> QED BY <1>0, <4>1 DEF RelayState
      <3>2. CASE LineDone
        <4>1. relay' = [relay EXCEPT !.pc = "receive", !.counted = @ + 1]
          BY <3>2 DEF LineDone
        <4>2. relay.counted + 1 \in Nat
          BY <1>0 DEF RelayState
        <4> QED BY <1>0, <4>1, <4>2 DEF RelayState
      <3> QED BY <1>4, <3>1, <3>2
    <2> QED BY <1>4, <2>1 DEF LookUpHandlers, LineDone, TypeOK, InHand
  <1>5. CASE StreamOver
    <2>1. relay.at \in Streams
      BY <1>0, <1>5 DEF StreamOver, RelayState
    <2>2. relay' \in RelayState /\ relay'.pc = relay.pc
      BY <1>0, <1>5 DEF StreamOver, RelayState
    <2>3. stream' = [stream EXCEPT ![relay.at].wire = <<>>] /\ <<>> \in Seq(Line)
      BY <1>5 DEF StreamOver
    <2> QED BY <1>2, <1>5, <2>1, <2>2, <2>3 DEF StreamOver, TypeOK, InHand
  <1> QED BY <1>1, <1>3, <1>4, <1>5

(* The steps of a follower.                                                *)
LEMMA TypeFollower ==
    ASSUME TypeOK, InHand, NEW f \in Followers,
           \/ HandToFollower(f) \/ Follow(f) \/ ReadLog(f) \/ EndOfLogs(f)
           \/ Attach(f) \/ SendLive(f) \/ HangUp(f) \/ Leave(f)
    PROVE  TypeOK' /\ InHand'
  <1>0. /\ follower[f] \in FollowerState /\ follower[f].pos <= Len(file)
        /\ Len(file) \in Nat /\ relay \in RelayState /\ crashed \in BOOLEAN
        /\ follower \in [Followers -> FollowerState]
    BY DEF TypeOK
  <1>1. CASE HandToFollower(f)
    <2>1. Len(file) \in Nat \ {0}
      BY <1>0, <1>1 DEF HandToFollower, InHand
    <2>2. [follower[f] EXCEPT !.buffer = Append(@, Len(file))] \in FollowerState
      <3>1. Append(follower[f].buffer, Len(file)) \in Seq(Nat \ {0})
        BY <1>0, <2>1 DEF FollowerState
      <3> QED BY <1>0, <3>1 DEF FollowerState
    <2>3. relay' \in RelayState /\ relay'.pc = relay.pc
      BY <1>0, <1>1 DEF HandToFollower, RelayState
    <2>4. \/ follower' = [follower EXCEPT ![f] = follower[f]]
          \/ follower' = [follower EXCEPT ![f] =
               [follower[f] EXCEPT !.buffer = Append(@, Len(file))]]
      BY <1>0, <1>1 DEF HandToFollower
    <2>5. FollowerUpdate(f)
      BY <1>0, <1>1, <2>2, <2>3, <2>4 DEF HandToFollower, FollowerUpdate, FollowerState
    <2> QED BY <2>5, FollowerUpdateType
  <1>2. CASE Follow(f) \/ EndOfLogs(f) \/ HangUp(f)
    <2>1. \A p \in {"history", "attaching"} :
            [follower[f] EXCEPT !.pc = p] \in FollowerState
            /\ [follower[f] EXCEPT !.pc = p].pos = follower[f].pos
      BY <1>0 DEF FollowerState
    <2>2. <<>> \in Seq(Nat \ {0}) /\ follower[f].buffer \in Seq(Nat \ {0})
      BY <1>0 DEF FollowerState
    <2>3. \A p \in {"leaving", "gone"} :
            /\ [NoFollower EXCEPT !.pc = p] \in FollowerState
            /\ [NoFollower EXCEPT !.pc = p].pos = 0
            /\ [NoFollower EXCEPT !.buffer = follower[f].buffer, !.pc = p] \in FollowerState
            /\ [NoFollower EXCEPT !.buffer = follower[f].buffer, !.pc = p].pos = 0
      BY <2>2 DEF FollowerState, NoFollower
    <2>4. \/ \E p \in {"history", "attaching"} :
               follower' = [follower EXCEPT ![f] = [follower[f] EXCEPT !.pc = p]]
          \/ follower' = [follower EXCEPT ![f] = [NoFollower EXCEPT !.pc = "gone"]]
          \/ \E p \in {"leaving", "gone"} :
               follower' = [follower EXCEPT ![f] =
                              [NoFollower EXCEPT !.buffer = follower[f].buffer, !.pc = p]]
      BY <1>2 DEF Follow, EndOfLogs, HangUp
    <2>5. UNCHANGED <<guest, stream, relay, file, crashed, flawed, faults>>
      BY <1>2 DEF Follow, EndOfLogs, HangUp
    <2>6. FollowerUpdate(f)
      <3>1. \E new \in FollowerState :
              follower' = [follower EXCEPT ![f] = new] /\ new.pos <= Len(file)
        <4>1. CASE \E p \in {"history", "attaching"} :
                     follower' = [follower EXCEPT ![f] = [follower[f] EXCEPT !.pc = p]]
          BY <1>0, <2>1, <4>1
        <4>2. CASE follower' = [follower EXCEPT ![f] = [NoFollower EXCEPT !.pc = "gone"]]
          <5>. DEFINE new == [NoFollower EXCEPT !.pc = "gone"]
          <5>1. new \in FollowerState /\ new.pos <= Len(file)
            BY <1>0, <2>3
          <5> QED BY <4>2, <5>1
        <4>3. CASE \E p \in {"leaving", "gone"} :
                     follower' = [follower EXCEPT ![f] =
                                    [NoFollower EXCEPT !.buffer = follower[f].buffer, !.pc = p]]
          <5>1. PICK p \in {"leaving", "gone"} :
                  follower' = [follower EXCEPT ![f] =
                                 [NoFollower EXCEPT !.buffer = follower[f].buffer, !.pc = p]]
            BY <4>3
          <5>. DEFINE new == [NoFollower EXCEPT !.buffer = follower[f].buffer, !.pc = p]
          <5>2. new \in FollowerState /\ new.pos = 0
            BY <2>2 DEF FollowerState, NoFollower
          <5>3. new.pos <= Len(file)
            BY <1>0, <5>2
          <5> QED BY <5>1, <5>2, <5>3
        <4> QED BY <2>4, <4>1, <4>2, <4>3
      <3> QED BY <1>0, <2>5, <3>1 DEF FollowerUpdate
    <2> QED BY <2>6, FollowerUpdateType
  <1>3. CASE ReadLog(f) \/ SendLive(f)
    <2>1. CASE ReadLog(f)
      <3>1. follower[f].pos + 1 \in Nat \ {0} /\ follower[f].pos + 1 <= Len(file)
        BY <1>0, <2>1 DEF ReadLog, FollowerState
      <3>2. Append(follower[f].got, follower[f].pos + 1) \in Seq(Nat \ {0})
        BY <1>0, <3>1 DEF FollowerState
      <3>. DEFINE new == [follower[f] EXCEPT !.pos = @ + 1,
                                   !.got = Append(@, follower[f].pos + 1)]
      <3>3. new \in FollowerState /\ new.pos = follower[f].pos + 1
        BY <1>0, <3>1, <3>2 DEF FollowerState
      <3>4. follower' = [follower EXCEPT ![f] = new]
        BY <2>1 DEF ReadLog
      <3>5. FollowerUpdate(f)
        BY <1>0, <2>1, <3>1, <3>3, <3>4 DEF ReadLog, FollowerUpdate
      <3> QED BY <3>5, FollowerUpdateType
    <2>2. CASE SendLive(f)
      <3>1. Head(follower[f].buffer) \in Nat \ {0}
            /\ Tail(follower[f].buffer) \in Seq(Nat \ {0})
        BY <1>0, <2>2 DEF SendLive, FollowerState
      <3>2. Append(follower[f].got, Head(follower[f].buffer)) \in Seq(Nat \ {0})
        BY <1>0, <3>1 DEF FollowerState
      <3>. DEFINE new == [follower[f] EXCEPT !.got = Append(@, Head(follower[f].buffer)),
                                             !.buffer = Tail(@)]
      <3>3. new \in FollowerState /\ new.pos = follower[f].pos
        BY <1>0, <3>1, <3>2 DEF FollowerState
      <3>4. follower' = [follower EXCEPT ![f] = new]
        BY <2>2 DEF SendLive
      <3>5. FollowerUpdate(f)
        BY <1>0, <2>2, <3>3, <3>4 DEF SendLive, FollowerUpdate
      <3> QED BY <3>5, FollowerUpdateType
    <2> QED BY <1>3, <2>1, <2>2
  <1>4. CASE Attach(f) \/ Leave(f)
    <2>1. \A p \in {"live", "gone"} :
            [follower[f] EXCEPT !.pc = p] \in FollowerState
            /\ [follower[f] EXCEPT !.pc = p].pos = follower[f].pos
      BY <1>0 DEF FollowerState
    <2>2. \E p \in {"live", "gone"} :
            follower' = [follower EXCEPT ![f] = [follower[f] EXCEPT !.pc = p]]
      BY <1>4 DEF Attach, Leave
    <2>3. relay' \in RelayState /\ relay'.pc = relay.pc /\ crashed' \in BOOLEAN
      <3>1. PICK todo \in SUBSET Followers : MapChanges(todo)
        <4>1. relay.todo \cup {f} \in SUBSET Followers /\ relay.todo \ {f} \in SUBSET Followers
          BY <1>0 DEF RelayState
        <4> QED BY <1>4, <4>1 DEF Attach, Leave
      <3>2. (relay' = relay \/ relay' = [relay EXCEPT !.todo = todo])
            /\ (crashed' = FALSE \/ crashed' = TRUE)
        BY <3>1 DEF MapChanges
      <3>3. [relay EXCEPT !.todo = todo] \in RelayState
            /\ [relay EXCEPT !.todo = todo].pc = relay.pc
        BY <1>0 DEF RelayState
      <3> QED BY <1>0, <3>2, <3>3
    <2>4. FollowerUpdate(f)
      BY <1>0, <1>4, <2>1, <2>2, <2>3 DEF Attach, Leave, FollowerUpdate
    <2> QED BY <2>4, FollowerUpdateType
  <1> QED BY <1>1, <1>2, <1>3, <1>4

(* No step of the module breaks the types.                                 *)
LEMMA TypeStep ==
    ASSUME LogPipelineAssumption, TypeOK, InHand, [Next]_vars
    PROVE  TypeOK' /\ InHand'
  <1>1. CASE UNCHANGED vars
    BY <1>1 DEF vars, TypeOK, InHand
  <1> QED BY StepCases, TypeWriter, TypeGuest, TypeRelay, TypeFollower, <1>1

(* The variables of both log services keep to their types, and no line is  *)
(* known before it is written.                                             *)
THEOREM PipelineTypeCorrect == Spec => []TypeOK
  <1>1. Init => TypeOK /\ InHand
    BY LogPipelineAssumption, TypeInit
  <1>2. TypeOK /\ InHand /\ [Next]_vars => TypeOK' /\ InHand'
    BY LogPipelineAssumption, TypeStep
  <1> QED BY <1>1, <1>2, PTL DEF Spec

-------------------------------------------------------------------------------
(* The stored lines first, each with its number, then live ones: rising,   *)
(* and none before the last stored one.                                    *)
Shape(lines, p) ==
    /\ p \in 0..Len(lines)
    /\ \A i \in 1..p : lines[i] = i
    /\ \A i \in (p + 1)..Len(lines) : lines[i] >= p
    /\ \A i, j \in (p + 1)..Len(lines) : i < j => lines[i] < lines[j]

(* Such lines are what LogFeed allows.                                     *)
LEMMA ShapeOfFeed ==
    ASSUME NEW lines \in Seq(Nat), NEW p \in Nat, Shape(lines, p)
    PROVE  /\ GuestFeed!InOrder(lines) /\ GuestFeed!OneTwiceAtMost(lines)
           /\ RuntimeFeed!InOrder(lines) /\ RuntimeFeed!OneTwiceAtMost(lines)
  <1>1. DOMAIN lines = 1..Len(lines) /\ Len(lines) \in Nat
    OBVIOUS
  <1>2. \A i \in 1..Len(lines) : lines[i] \in Nat
    OBVIOUS
  <1>3. ASSUME NEW i \in 1..Len(lines), NEW j \in 1..Len(lines), i < j
        PROVE  lines[i] <= lines[j]
    <2>1. CASE j <= p
      BY <1>3, <2>1, <1>1 DEF Shape
    <2>2. CASE i <= p /\ j > p
      <3>1. lines[i] = i /\ lines[j] >= p
        BY <2>2, <1>1 DEF Shape
      <3> QED BY <1>2, <2>2, <3>1
    <2>3. CASE i > p
      <3>1. lines[i] < lines[j]
        BY <1>3, <2>3, <1>1 DEF Shape
      <3> QED BY <1>2, <3>1
    <2> QED BY <1>1, <2>1, <2>2, <2>3
  <1>4. ASSUME NEW i \in 1..Len(lines), i > 1, lines[i] = lines[i - 1]
        PROVE  i = p + 1
    <2>1. CASE i <= p
      <3>1. lines[i] = i /\ lines[i - 1] = i - 1
        BY <1>4, <2>1, <1>1 DEF Shape
      <3>2. i - 1 # i
        BY <1>1
      <3> QED BY <1>4, <3>1, <3>2
    <2>2. CASE i > p + 1
      <3>1. lines[i - 1] < lines[i]
        BY <1>4, <2>2, <1>1 DEF Shape
      <3> QED BY <1>2, <1>4, <3>1
    <2> QED BY <1>1, <2>1, <2>2
  <1>5. GuestFeed!InOrder(lines) /\ RuntimeFeed!InOrder(lines)
    BY <1>1, <1>3 DEF GuestFeed!InOrder, RuntimeFeed!InOrder
  <1>6. GuestFeed!OneTwiceAtMost(lines) /\ RuntimeFeed!OneTwiceAtMost(lines)
    BY <1>1, <1>4 DEF GuestFeed!OneTwiceAtMost, RuntimeFeed!OneTwiceAtMost
  <1> QED BY <1>5, <1>6

(* One more stored line keeps the shape.                                   *)
LEMMA ShapeStored ==
    ASSUME NEW lines \in Seq(Nat), NEW p \in Nat, Shape(lines, p), Len(lines) = p
    PROVE  Shape(Append(lines, p + 1), p + 1)
  <1>1. /\ Len(Append(lines, p + 1)) = p + 1
        /\ \A i \in 1..p : Append(lines, p + 1)[i] = lines[i]
        /\ Append(lines, p + 1)[p + 1] = p + 1
    OBVIOUS
  <1> QED BY <1>1 DEF Shape

(* And so does one more live line, later than the live ones before it.     *)
LEMMA ShapeLive ==
    ASSUME NEW lines \in Seq(Nat), NEW p \in Nat, Shape(lines, p),
           NEW line \in Nat, line >= p,
           \A i \in (p + 1)..Len(lines) : lines[i] < line
    PROVE  Shape(Append(lines, line), p)
  <1>1. /\ Len(Append(lines, line)) = Len(lines) + 1 /\ Len(lines) \in Nat
        /\ \A i \in 1..Len(lines) : Append(lines, line)[i] = lines[i]
        /\ Append(lines, line)[Len(lines) + 1] = line
    OBVIOUS
  <1> DEFINE new == Append(lines, line)
  <1> HIDE DEF new
  <1>2. Len(new) = Len(lines) + 1 /\ \A i \in 1..Len(lines) : new[i] = lines[i]
    BY <1>1 DEF new
  <1>3. new[Len(lines) + 1] = line
    BY <1>1 DEF new
  <1> QED BY <1>1, <1>2, <1>3 DEF Shape, new

(* What such lines begin with has their shape.                             *)
LEMMA ShapePrefix ==
    ASSUME NEW lines \in Seq(Nat), NEW front \in Seq(Nat), NEW p \in Nat,
           Shape(lines, p), p <= Len(front), Len(front) <= Len(lines),
           \A i \in 1..Len(front) : front[i] = lines[i]
    PROVE  Shape(front, p)
  <1>1. Len(front) \in Nat /\ Len(lines) \in Nat
    OBVIOUS
  <1>2. \A i \in 1..p : front[i] = i
    BY <1>1 DEF Shape
  <1>3. \A i \in (p + 1)..Len(front) :
          /\ front[i] = lines[i] /\ i \in (p + 1)..Len(lines)
    BY <1>1
  <1>4. \A i \in (p + 1)..Len(front) : front[i] >= p
    BY <1>3 DEF Shape
  <1>5. \A i, j \in (p + 1)..Len(front) : i < j => front[i] < front[j]
    BY <1>3 DEF Shape
  <1>6. p \in 0..Len(front)
    BY <1>1
  <1> QED BY <1>2, <1>4, <1>5, <1>6 DEF Shape

-------------------------------------------------------------------------------
(* What a connection's reader got: nothing before its server receives and  *)
(* after it returned; else the stored lines up to pos and live ones, the   *)
(* last of them older than one that is on its way to it.                   *)
Fed(str, lines, pending) ==
    /\ str.server \in {"none", "gone"} => str.got = <<>>
    /\ str.server \in {"receiving", "sending"} =>
         /\ Shape(str.got, str.pos)
         /\ str.reader \in {"history", "attaching"} => Len(str.got) = str.pos
         /\ \A i \in (str.pos + 1)..Len(str.got) :
              str.got[i] <= lines /\ (pending => str.got[i] < lines)

Pending(s) == guest.writer = "written" \/ s \in guest.todo

GuestInv ==
    \A s \in Streams :
      /\ Fed(stream[s], guest.lines, Pending(s))
      /\ s \in guest.todo => stream[s].reader = "live"

GuestGot == [s \in Streams |-> stream[s].got]

(* Nothing has been got when nothing is connected.                         *)
LEMMA GuestInit ==
    ASSUME Init
    PROVE  GuestInv /\ GuestFeed!Init
  BY DEF Init, NoStream, GuestInv, Fed, GuestFeed!Init

(* A line got by a connection's reader is one LogFeed delivers.            *)
LEMMA GuestDeliver ==
    ASSUME NEW s \in Streams, NEW line \in 1..guest.lines,
           stream[s].got \in Seq(Nat), NEW p \in Nat,
           Shape(Append(stream[s].got, line), p),
           \A t \in Streams : stream'[t].got = IF t = s THEN Append(stream[s].got, line)
                                                        ELSE stream[t].got,
           guest'.lines = guest.lines, guest.lines \in Nat
    PROVE  GuestFeed!Next
  <1>1. Append(stream[s].got, line) \in Seq(Nat)
    OBVIOUS
  <1>2. /\ GuestFeed!InOrder(Append(stream[s].got, line))
        /\ GuestFeed!OneTwiceAtMost(Append(stream[s].got, line))
    BY <1>1, ShapeOfFeed
  <1>3. GuestGot[s] = stream[s].got
    BY DEF GuestGot
  <1>4. GuestGot' = [GuestGot EXCEPT ![s] = Append(GuestGot[s], line)]
    BY <1>3 DEF GuestGot
  <1>5. GuestFeed!Deliver(s, line)
    BY <1>2, <1>3, <1>4 DEF GuestFeed!Deliver, GuestGot
  <1> QED BY <1>5 DEF GuestFeed!Next

(* A connection's reader starts again.                                     *)
LEMMA GuestStartsAgain ==
    ASSUME NEW s \in Streams,
           \A t \in Streams : stream'[t].got = IF t = s THEN <<>> ELSE stream[t].got,
           guest'.lines = guest.lines
    PROVE  GuestFeed!Next
  <1>1. GuestGot' = [GuestGot EXCEPT ![s] = <<>>]
    BY DEF GuestGot
  <1>2. GuestFeed!StartAgain(s)
    BY <1>1 DEF GuestFeed!StartAgain, GuestGot
  <1> QED BY <1>2 DEF GuestFeed!Next

(* Nothing was got, and nothing was written.                               *)
LEMMA GuestStutters ==
    ASSUME \A t \in Streams : stream'[t].got = stream[t].got,
           guest'.lines = guest.lines
    PROVE  UNCHANGED <<guest.lines, GuestGot>>
  BY DEF GuestGot

(* Lines are numbers.                                                      *)
LEMMA LinesAreNumbers ==
    ASSUME NEW q \in Seq(Line)
    PROVE  q \in Seq(Nat)
  <1>1. Line \subseteq Nat
    BY DEF Line
  <1>2. ASSUME NEW i \in 1..Len(q) PROVE q[i] \in Nat
    <2>1. q[i] \in Line
      OBVIOUS
    <2> QED BY <1>1, <2>1
  <1> QED BY <1>2

(* The writer's steps.                                                     *)
LEMMA GuestWriter ==
    ASSUME TypeOK, InHand, GuestInv, WriteLine \/ LockHandlers \/ Unlock
    PROVE  GuestInv' /\ [GuestFeed!Next]_<<guest.lines, GuestGot>>
  <1>0. /\ guest \in GuestState /\ guest.lines \in Nat
        /\ \A s \in Streams : stream[s] \in StreamState
    BY DEF TypeOK, GuestState
  <1>1. CASE WriteLine
    <2>1. guest'.lines = guest.lines + 1 /\ guest'.writer = "written"
          /\ guest'.todo = guest.todo /\ stream' = stream
      BY <1>0, <1>1 DEF WriteLine, GuestState
    <2>2. ASSUME NEW s \in Streams
          PROVE  Fed(stream[s], guest.lines + 1, Pending(s)')
      <3>1. stream[s].got \in Seq(Nat) /\ stream[s].pos \in Nat
        BY <1>0, LinesAreNumbers DEF StreamState
      <3>2. \A i \in (stream[s].pos + 1)..Len(stream[s].got) : stream[s].got[i] \in Nat
        BY <3>1
      <3> QED BY <1>0, <3>2 DEF GuestInv, Fed
    <2>3. GuestInv'
      BY <2>1, <2>2 DEF GuestInv
    <2>4. GuestFeed!WriteLine
      BY <2>1 DEF GuestFeed!WriteLine
    <2> QED BY <2>3, <2>4 DEF GuestFeed!Next
  <1>2. CASE LockHandlers \/ Unlock
    <2>1. guest'.lines = guest.lines /\ stream' = stream
      BY <1>0, <1>2 DEF LockHandlers, Unlock, GuestState
    <2>2. \A s \in Streams :
            /\ Pending(s)' => Pending(s)
            /\ s \in guest'.todo => stream[s].reader = "live"
      <3>1. CASE LockHandlers
        <4>1. guest.writer = "written" /\ guest'.todo = Handlers
          BY <1>0, <3>1 DEF LockHandlers, GuestState
        <4> QED BY <4>1 DEF Pending, Handlers
      <3>2. CASE Unlock
        <4>1. guest'.writer = "idle" /\ guest'.todo = {}
          BY <1>0, <3>2 DEF Unlock, GuestState
        <4> QED BY <4>1 DEF Pending
      <3> QED BY <1>2, <3>1, <3>2
    <2>3. GuestInv'
      BY <2>1, <2>2 DEF GuestInv, Fed
    <2> QED BY <2>1, <2>3, GuestStutters
  <1> QED BY <1>1, <1>2

(* A step that touches one connection and leaves the writer alone.         *)
LEMMA OneStream ==
    ASSUME GuestInv, NEW s \in Streams,
           \A t \in Streams \ {s} : stream'[t] = stream[t],
           guest'.lines = guest.lines, guest'.writer = guest.writer,
           guest'.todo \subseteq guest.todo,
           Fed(stream'[s], guest.lines, Pending(s)'),
           s \in guest'.todo => stream'[s].reader = "live"
    PROVE  GuestInv'
  <1>1. \A t \in Streams : Pending(t)' => Pending(t)
    BY DEF Pending
  <1>2. ASSUME NEW t \in Streams \ {s}
        PROVE  Fed(stream'[t], guest.lines, Pending(t)')
    BY <1>1 DEF GuestInv, Fed
  <1> QED BY <1>2 DEF GuestInv

(* Lines handed to a server: a live one by the writer, a stored one by the *)
(* reader.                                                                 *)
LEMMA GuestGives ==
    ASSUME TypeOK, InHand, GuestInv, NEW s \in Streams,
           HandleEntry(s) \/ ReadHistoricalLog(s)
    PROVE  GuestInv' /\ GuestFeed!Next
  <1>0. /\ guest \in GuestState /\ guest.lines \in Nat
        /\ stream[s] \in StreamState /\ stream[s].pos <= guest.lines
        /\ stream \in [Streams -> StreamState]
    BY DEF TypeOK, GuestState
  <1>1. stream[s].got \in Seq(Nat) /\ stream[s].pos \in Nat /\ Len(stream[s].got) \in Nat
    <2>1. stream[s].got \in Seq(Line) /\ stream[s].pos \in Nat
      BY <1>0 DEF StreamState
    <2> QED BY <2>1, LinesAreNumbers
  <1>2. stream[s].server = "receiving" /\ Shape(stream[s].got, stream[s].pos)
    BY DEF HandleEntry, ReadHistoricalLog, Give, GuestInv, Fed
  <1>3. PICK line \in 1..guest.lines, p \in Nat :
          /\ stream' = [stream EXCEPT ![s].server = "sending", ![s].holding = line,
                          ![s].got = Append(@, line), ![s].pos = p]
          /\ Shape(Append(stream[s].got, line), p)
          /\ stream[s].reader \in {"history", "attaching"} => Len(stream[s].got) + 1 = p
          /\ \A i \in (p + 1)..Len(Append(stream[s].got, line)) :
               Append(stream[s].got, line)[i] <= guest.lines
          /\ ~Pending(s)' \/ Len(stream[s].got) + 1 = p
          /\ guest'.lines = guest.lines /\ guest'.writer = guest.writer
          /\ guest'.todo \subseteq guest.todo
    <2>1. CASE HandleEntry(s)
      <3>1. /\ guest.writer = "sending" /\ s \in guest.todo /\ stream[s].reader = "live"
            /\ Give(s, guest.lines)
        BY <2>1 DEF HandleEntry, Locked, GuestInv
      <3>2. guest.lines \in 1..guest.lines
        BY <1>0, <3>1 DEF InHand
      <3>3. stream' = [stream EXCEPT ![s].server = "sending", ![s].holding = guest.lines,
                         ![s].got = Append(@, guest.lines), ![s].pos = stream[s].pos]
        BY <3>1 DEF Give
      <3>4. \A i \in (stream[s].pos + 1)..Len(stream[s].got) :
              stream[s].got[i] < guest.lines
        BY <1>2, <3>1 DEF GuestInv, Fed, Pending
      <3>5. Shape(Append(stream[s].got, guest.lines), stream[s].pos)
        BY <1>0, <1>1, <1>2, <3>4, ShapeLive
      <3>6. guest' = [guest EXCEPT !.todo = @ \ {s}]
        BY <2>1 DEF HandleEntry
      <3>7. /\ guest'.lines = guest.lines /\ guest'.writer = guest.writer
            /\ guest'.todo = guest.todo \ {s} /\ ~Pending(s)'
        BY <1>0, <3>1, <3>6 DEF GuestState, Pending
      <3>8. ASSUME NEW i \in (stream[s].pos + 1)..Len(Append(stream[s].got, guest.lines))
            PROVE  Append(stream[s].got, guest.lines)[i] <= guest.lines
        <4>1. CASE i \in 1..Len(stream[s].got)
          <5>1. Append(stream[s].got, guest.lines)[i] = stream[s].got[i]
            BY <1>1, <4>1
          <5>2. stream[s].got[i] \in Nat /\ stream[s].got[i] < guest.lines
            BY <1>1, <3>4, <4>1
          <5> QED BY <1>0, <5>1, <5>2
        <4>2. CASE i = Len(stream[s].got) + 1
          BY <1>0, <1>1, <4>2
        <4>3. i \in 1..Len(stream[s].got) \/ i = Len(stream[s].got) + 1
          BY <1>1
        <4> QED BY <4>1, <4>2, <4>3
      <3> QED BY <1>1, <3>1, <3>2, <3>3, <3>5, <3>7, <3>8
    <2>2. CASE ReadHistoricalLog(s)
      <3>1. /\ stream[s].reader = "history" /\ stream[s].pos < guest.lines
            /\ Give(s, stream[s].pos + 1) /\ guest' = guest
        BY <2>2 DEF ReadHistoricalLog
      <3>2. Len(stream[s].got) = stream[s].pos
        BY <1>2, <3>1 DEF GuestInv, Fed
      <3>3. stream' = [stream EXCEPT ![s].server = "sending", ![s].holding = stream[s].pos + 1,
                         ![s].got = Append(@, stream[s].pos + 1),
                         ![s].pos = stream[s].pos + 1]
        BY <3>1 DEF Give
      <3>4. Shape(Append(stream[s].got, stream[s].pos + 1), stream[s].pos + 1)
        BY <1>1, <1>2, <3>2, ShapeStored
      <3>5. Len(Append(stream[s].got, stream[s].pos + 1)) = stream[s].pos + 1
        BY <1>1, <3>2
      <3>6. stream[s].pos + 1 \in 1..guest.lines /\ stream[s].pos + 1 \in Nat
        BY <1>0, <1>1, <3>1
      <3> DEFINE q == stream[s].pos + 1
                 new == Append(stream[s].got, q)
      <3>7. \A i \in (q + 1)..Len(new) : new[i] <= guest.lines
        BY <1>1, <3>5
      <3>8. Len(stream[s].got) + 1 = q
        BY <3>2
      <3> HIDE DEF q, new
      <3>9. /\ q \in 1..guest.lines /\ q \in Nat
            /\ stream' = [stream EXCEPT ![s].server = "sending", ![s].holding = q,
                            ![s].got = Append(@, q), ![s].pos = q]
            /\ Shape(Append(stream[s].got, q), q)
        BY <3>3, <3>4, <3>6 DEF q, new
      <3> QED BY <3>1, <3>7, <3>8, <3>9 DEF new
    <2> QED BY <2>1, <2>2
  <1> DEFINE new == Append(stream[s].got, line)
  <1>4. /\ stream'[s].server = "sending" /\ stream'[s].got = new /\ stream'[s].pos = p
        /\ stream'[s].reader = stream[s].reader
        /\ \A t \in Streams \ {s} : stream'[t] = stream[t]
    <2>1. stream'[s] = [stream[s] EXCEPT !.server = "sending", !.holding = line,
                                         !.got = new, !.pos = p]
      BY <1>0, <1>3
    <2>2. \A t \in Streams \ {s} : stream'[t] = stream[t]
      BY <1>0, <1>3
    <2> HIDE DEF new
    <2> QED BY <1>0, <2>1, <2>2 DEF StreamState
  <1>5. new \in Seq(Nat) /\ Len(new) = Len(stream[s].got) + 1
    BY <1>1
  <1>6. /\ Shape(new, p)
        /\ \A i \in (p + 1)..Len(new) : new[i] <= guest.lines
    BY <1>3
  <1>7. GuestFeed!Next
    <2>1. \A t \in Streams : stream'[t].got = IF t = s THEN new ELSE stream[t].got
      BY <1>4
    <2> QED BY <1>0, <1>1, <1>3, <2>1, GuestDeliver
  <1> HIDE DEF new
  <1>8. Fed(stream'[s], guest.lines, Pending(s)')
    <2>1. \A i \in (p + 1)..Len(new) : ~Pending(s)'
      BY <1>1, <1>3, <1>5
    <2> QED BY <1>3, <1>4, <1>5, <1>6, <2>1 DEF Fed
  <1>9. s \in guest'.todo => stream'[s].reader = "live"
    BY <1>3, <1>4 DEF GuestInv
  <1>10. GuestInv'
    BY <1>3, <1>4, <1>8, <1>9, OneStream
  <1> QED BY <1>7, <1>10

(* The other steps in the guest, and the runtime's connecting: the reader  *)
(* has got what it had, or starts again.                                   *)
LEMMA GuestTurns ==
    ASSUME TypeOK, InHand, GuestInv, NEW s \in Streams,
           \/ HistoryEnds(s) \/ AddHandler(s) \/ Unsubscribe(s) \/ ServerSend(s)
           \/ ServerReturns(s) \/ Break(s) \/ Connect(s)
    PROVE  GuestInv' /\ [GuestFeed!Next]_<<guest.lines, GuestGot>>
  <1>0. /\ stream[s] \in StreamState /\ stream \in [Streams -> StreamState]
        /\ Fed(stream[s], guest.lines, Pending(s))
        /\ s \in guest.todo => stream[s].reader = "live" /\ guest.writer = "sending"
    BY DEF TypeOK, GuestInv, InHand
  <1>1. guest' = guest /\ Pending(s)' = Pending(s)
    <2>1. guest' = guest
      BY DEF HistoryEnds, AddHandler, Unsubscribe, ServerSend, ServerReturns, Break, Connect
    <2> QED BY <2>1 DEF Pending
  <1>2. ASSUME \A t \in Streams \ {s} : stream'[t] = stream[t],
               stream'[s].got = stream[s].got, stream'[s].pos = stream[s].pos,
               stream'[s].server \in {"none", "gone"}
                 => stream[s].server \in {"none", "gone"},
               stream'[s].server \in {"receiving", "sending"}
                 => stream[s].server \in {"receiving", "sending"},
               \/ stream'[s].reader = stream[s].reader
               \/ /\ stream'[s].reader = "attaching" /\ stream[s].reader = "history"
               \/ /\ stream'[s].reader \in {"live", "done"} /\ s \notin guest.todo
        PROVE  GuestInv' /\ [GuestFeed!Next]_<<guest.lines, GuestGot>>
    <2>1. Fed(stream'[s], guest.lines, Pending(s)')
      BY <1>0, <1>1, <1>2 DEF Fed
    <2>2. s \in guest'.todo => stream'[s].reader = "live"
      BY <1>0, <1>1, <1>2
    <2>3. GuestInv'
      BY <1>1, <1>2, <2>1, <2>2, OneStream
    <2>4. \A t \in Streams : stream'[t].got = stream[t].got
      BY <1>2
    <2> QED BY <1>1, <2>3, <2>4, GuestStutters
  <1>3. ASSUME \A t \in Streams \ {s} : stream'[t] = stream[t],
               stream'[s].got = <<>>,
               \/ stream'[s].server = "gone" /\ stream'[s].reader = stream[s].reader
               \/ stream'[s].pos = 0 /\ s \notin guest.todo
        PROVE  GuestInv' /\ [GuestFeed!Next]_<<guest.lines, GuestGot>>
    <2>1. Len(stream'[s].got) = 0
      BY <1>3
    <2>2. stream'[s].pos = 0 => Shape(stream'[s].got, stream'[s].pos)
      BY <2>1 DEF Shape
    <2>3. Fed(stream'[s], guest.lines, Pending(s)')
      BY <1>3, <2>1, <2>2 DEF Fed
    <2>4. s \in guest'.todo => stream'[s].reader = "live"
      BY <1>0, <1>1, <1>3
    <2>5. GuestInv'
      BY <1>1, <1>3, <2>3, <2>4, OneStream
    <2>6. \A t \in Streams : stream'[t].got = IF t = s THEN <<>> ELSE stream[t].got
      BY <1>3
    <2> QED BY <1>1, <2>5, <2>6, GuestStartsAgain
  <1>4. CASE HistoryEnds(s) \/ AddHandler(s) \/ Unsubscribe(s)
    <2>1. PICK r \in {"attaching", "live", "done"} :
            /\ stream' = [stream EXCEPT ![s].reader = r]
            /\ r = "attaching" => stream[s].reader = "history"
      BY <1>4 DEF HistoryEnds, AddHandler, Unsubscribe
    <2>2. stream'[s] = [stream[s] EXCEPT !.reader = r]
          /\ \A t \in Streams \ {s} : stream'[t] = stream[t]
      BY <1>0, <2>1
    <2>3. r # "attaching" => s \notin guest.todo
      BY <1>0, <1>4 DEF HistoryEnds, AddHandler, Unsubscribe, Locked
    <2>4. /\ stream'[s].got = stream[s].got /\ stream'[s].pos = stream[s].pos
          /\ stream'[s].server = stream[s].server /\ stream'[s].reader = r
      BY <1>0, <2>2 DEF StreamState
    <2> QED BY <1>2, <2>1, <2>2, <2>3, <2>4
  <1>5. CASE Break(s)
    <2>1. stream'[s] = [stream[s] EXCEPT !.link = "broken"]
          /\ \A t \in Streams \ {s} : stream'[t] = stream[t]
      BY <1>0, <1>5 DEF Break
    <2>2. /\ stream'[s].got = stream[s].got /\ stream'[s].pos = stream[s].pos
          /\ stream'[s].server = stream[s].server /\ stream'[s].reader = stream[s].reader
      BY <1>0, <2>1 DEF StreamState
    <2> QED BY <1>2, <2>1, <2>2
  <1>6. CASE ServerSend(s) \/ ServerReturns(s)
    <2>1. CASE stream' = [stream EXCEPT ![s] = Returned(s)]
      <3>1. stream'[s] = Returned(s) /\ \A t \in Streams \ {s} : stream'[t] = stream[t]
        BY <1>0, <2>1
      <3>2. /\ stream'[s].got = <<>> /\ stream'[s].server = "gone"
            /\ stream'[s].reader = stream[s].reader
        BY <3>1 DEF Returned, NoStream
      <3> QED BY <1>3, <3>1, <3>2
    <2>2. CASE /\ stream[s].server = "sending"
               /\ \E wire : stream' = [stream EXCEPT ![s].server = "receiving",
                                          ![s].holding = 0, ![s].wire = wire]
      <3>1. PICK wire : stream' = [stream EXCEPT ![s].server = "receiving",
                                     ![s].holding = 0, ![s].wire = wire]
        BY <2>2
      <3>2. stream'[s] = [stream[s] EXCEPT !.server = "receiving", !.holding = 0,
                                           !.wire = wire]
            /\ \A t \in Streams \ {s} : stream'[t] = stream[t]
        BY <1>0, <3>1
      <3>3. /\ stream'[s].got = stream[s].got /\ stream'[s].pos = stream[s].pos
            /\ stream'[s].server = "receiving" /\ stream'[s].reader = stream[s].reader
        BY <1>0, <3>2 DEF StreamState
      <3> QED BY <1>2, <2>2, <3>2, <3>3
    <2>3. CASE /\ stream[s].server = "sending"
               /\ stream' = [stream EXCEPT ![s].server = "receiving", ![s].holding = 0]
      <3>1. stream'[s] = [stream[s] EXCEPT !.server = "receiving", !.holding = 0]
            /\ \A t \in Streams \ {s} : stream'[t] = stream[t]
        BY <1>0, <2>3
      <3>2. /\ stream'[s].got = stream[s].got /\ stream'[s].pos = stream[s].pos
            /\ stream'[s].server = "receiving" /\ stream'[s].reader = stream[s].reader
        BY <1>0, <3>1 DEF StreamState
      <3> QED BY <1>2, <2>3, <3>1, <3>2
    <2>4. \/ stream' = [stream EXCEPT ![s] = Returned(s)]
          \/ /\ stream[s].server = "sending"
             /\ stream' = [stream EXCEPT ![s].server = "receiving", ![s].holding = 0,
                                         ![s].wire = Append(@, stream[s].holding)]
          \/ /\ stream[s].server = "sending"
             /\ stream' = [stream EXCEPT ![s].server = "receiving", ![s].holding = 0]
      BY <1>6 DEF ServerSend, ServerReturns
    <2>5. \/ stream' = [stream EXCEPT ![s] = Returned(s)]
          \/ /\ stream[s].server = "sending"
             /\ \E wire : stream' = [stream EXCEPT ![s].server = "receiving",
                                        ![s].holding = 0, ![s].wire = wire]
          \/ /\ stream[s].server = "sending"
             /\ stream' = [stream EXCEPT ![s].server = "receiving", ![s].holding = 0]
      BY <2>4
    <2> QED BY <2>1, <2>2, <2>3, <2>5
  <1>7. CASE Connect(s)
    <2>1. stream'[s] = [NoStream EXCEPT !.reader = "history", !.server = "receiving"]
          /\ \A t \in Streams \ {s} : stream'[t] = stream[t]
      BY <1>0, <1>7 DEF Connect
    <2>2. stream'[s].got = <<>> /\ stream'[s].pos = 0
      BY <2>1 DEF NoStream
    <2>3. s \notin guest.todo
      BY <1>0, <1>7 DEF Connect, Free
    <2> QED BY <1>3, <2>1, <2>2, <2>3
  <1> QED BY <1>4, <1>5, <1>6, <1>7

(* The steps of the runtime take lines off a wire at most.                 *)
LEMMA GuestUntouched ==
    ASSUME TypeOK, GuestInv,
           \/ Receive \/ LookUpHandlers \/ LineDone \/ StreamOver
           \/ \E f \in Followers :
                \/ HandToFollower(f) \/ Follow(f) \/ ReadLog(f) \/ EndOfLogs(f)
                \/ Attach(f) \/ SendLive(f) \/ HangUp(f) \/ Leave(f)
           \/ UNCHANGED vars
    PROVE  GuestInv' /\ UNCHANGED <<guest.lines, GuestGot>>
  <1>0. stream \in [Streams -> StreamState] /\ relay \in RelayState
    BY DEF TypeOK
  <1>1. guest' = guest
    BY DEF Receive, LookUpHandlers, LineDone, StreamOver, HandToFollower, Follow, ReadLog,
       EndOfLogs, Attach, SendLive, HangUp, Leave, vars
  <1>2. \/ stream' = stream
        \/ /\ relay.at \in Streams
           /\ \E wire : stream' = [stream EXCEPT ![relay.at].wire = wire]
    <2>1. CASE Receive
      <3>1. stream' = [stream EXCEPT ![relay.at].wire = Tail(stream[relay.at].wire)]
            /\ relay.at \in Streams
        BY <1>0, <2>1 DEF Receive, RelayState
      <3> QED BY <3>1
    <2>2. CASE StreamOver
      <3>1. stream' = [stream EXCEPT ![relay.at].wire = <<>>] /\ relay.at \in Streams
        BY <1>0, <2>2 DEF StreamOver, RelayState
      <3> QED BY <3>1
    <2>3. CASE \/ LookUpHandlers \/ LineDone
               \/ \E f \in Followers :
                    \/ HandToFollower(f) \/ Follow(f) \/ ReadLog(f) \/ EndOfLogs(f)
                    \/ Attach(f) \/ SendLive(f) \/ HangUp(f) \/ Leave(f)
               \/ UNCHANGED vars
      BY <2>3 DEF LookUpHandlers, LineDone, HandToFollower, Follow, ReadLog,
         EndOfLogs, Attach, SendLive, HangUp, Leave, vars
    <2> QED BY <2>1, <2>2, <2>3
  <1>3. \A t \in Streams : /\ stream'[t].got = stream[t].got
                           /\ stream'[t].pos = stream[t].pos
                           /\ stream'[t].server = stream[t].server
                           /\ stream'[t].reader = stream[t].reader
    <2>1. CASE stream' = stream
      BY <2>1
    <2>2. CASE /\ relay.at \in Streams
               /\ \E wire : stream' = [stream EXCEPT ![relay.at].wire = wire]
      <3>1. PICK wire : stream' = [stream EXCEPT ![relay.at].wire = wire]
        BY <2>2
      <3>2. /\ stream'[relay.at] = [stream[relay.at] EXCEPT !.wire = wire]
            /\ \A t \in Streams \ {relay.at} : stream'[t] = stream[t]
        BY <1>0, <2>2, <3>1
      <3> QED BY <1>0, <2>2, <3>2 DEF StreamState
    <2> QED BY <1>2, <2>1, <2>2
  <1>4. GuestInv'
    BY <1>1, <1>3 DEF GuestInv, Fed, Pending
  <1> QED BY <1>1, <1>3, <1>4, GuestStutters

(* The guest's log service (logservice/service.go and read.go, initserver  *)
(* GetLogs) implements LogFeed: whatever breaks, a reader gets the lines   *)
(* in order, and at most the one it turned live at twice.                  *)
THEOREM GuestFeedCorrect == Spec => GuestFeed!Spec
  <1>1. Init => TypeOK /\ InHand /\ GuestInv /\ GuestFeed!Init
    BY LogPipelineAssumption, TypeInit, GuestInit
  <1>2. TypeOK /\ InHand /\ GuestInv /\ [Next]_vars
          => /\ (TypeOK /\ InHand /\ GuestInv)'
             /\ [GuestFeed!Next]_<<guest.lines, GuestGot>>
    <2> SUFFICES ASSUME TypeOK, InHand, GuestInv, [Next]_vars
                 PROVE  /\ TypeOK' /\ InHand' /\ GuestInv'
                        /\ [GuestFeed!Next]_<<guest.lines, GuestGot>>
      OBVIOUS
    <2>1. TypeOK' /\ InHand'
      BY LogPipelineAssumption, TypeStep
    <2>2. GuestInv' /\ [GuestFeed!Next]_<<guest.lines, GuestGot>>
      BY StepCases, GuestWriter, GuestGives, GuestTurns, GuestUntouched
    <2> QED BY <2>1, <2>2
  <1> QED BY <1>1, <1>2, PTL DEF Spec, GuestFeed!Spec, GuestGot

-------------------------------------------------------------------------------
(* What a follower got and what waits in its channel, in this order.       *)
Coming(fol) == fol.got \o fol.buffer

FollowerFed(fol, n, pending) ==
    /\ fol.pc \in {"none", "leaving", "gone"} => fol.got = <<>>
    /\ fol.pc \in {"none", "history", "attaching"} => fol.buffer = <<>>
    /\ fol.pc = "none" => fol.pos = 0
    /\ fol.pc \in {"history", "attaching"} => Len(fol.got) = fol.pos
    /\ fol.pc \in {"history", "attaching", "live"} =>
         /\ Shape(Coming(fol), fol.pos)
         /\ fol.pos <= Len(fol.got)
         /\ \A i \in (fol.pos + 1)..Len(Coming(fol)) :
              Coming(fol)[i] <= n /\ (pending => Coming(fol)[i] < n)

OnItsWay(f) == relay.pc = "handlers" \/ f \in relay.todo

RuntimeInv ==
    /\ relay.todo # {} => relay.pc = "handing"
    /\ \A f \in Followers :
         /\ FollowerFed(follower[f], Len(file), OnItsWay(f))
         /\ f \in relay.todo => follower[f].pc \in {"live", "leaving", "gone"}

RuntimeGot == [f \in Followers |-> follower[f].got]

(* Nothing has been got when nobody follows.                               *)
LEMMA RuntimeInit ==
    ASSUME Init
    PROVE  RuntimeInv /\ RuntimeFeed!Init
  <1>1. Len(file) = 0
    BY DEF Init
  <1> QED BY <1>1 DEF Init, NoFollower, RuntimeInv, FollowerFed, RuntimeFeed!Init

(* A line got by a follower is one LogFeed delivers.                       *)
LEMMA RuntimeDeliver ==
    ASSUME NEW f \in Followers, NEW line \in 1..Len(file),
           follower[f].got \in Seq(Nat), NEW p \in Nat,
           Shape(Append(follower[f].got, line), p),
           \A g \in Followers : follower'[g].got = IF g = f THEN Append(follower[f].got, line)
                                                            ELSE follower[g].got,
           file' = file, Len(file) \in Nat
    PROVE  RuntimeFeed!Next
  <1>1. Append(follower[f].got, line) \in Seq(Nat)
    OBVIOUS
  <1>2. /\ RuntimeFeed!InOrder(Append(follower[f].got, line))
        /\ RuntimeFeed!OneTwiceAtMost(Append(follower[f].got, line))
    BY <1>1, ShapeOfFeed
  <1>3. RuntimeGot[f] = follower[f].got
    BY DEF RuntimeGot
  <1>4. RuntimeGot' = [RuntimeGot EXCEPT ![f] = Append(RuntimeGot[f], line)]
    BY <1>3 DEF RuntimeGot
  <1>5. RuntimeFeed!Deliver(f, line)
    BY <1>2, <1>3, <1>4 DEF RuntimeFeed!Deliver, RuntimeGot
  <1> QED BY <1>5 DEF RuntimeFeed!Next

(* A follower starts again.                                                *)
LEMMA RuntimeStartsAgain ==
    ASSUME NEW f \in Followers,
           \A g \in Followers : follower'[g].got = IF g = f THEN <<>> ELSE follower[g].got,
           file' = file
    PROVE  RuntimeFeed!Next
  <1>1. RuntimeGot' = [RuntimeGot EXCEPT ![f] = <<>>]
    BY DEF RuntimeGot
  <1>2. RuntimeFeed!StartAgain(f)
    BY <1>1 DEF RuntimeFeed!StartAgain, RuntimeGot
  <1> QED BY <1>2 DEF RuntimeFeed!Next

(* Nothing was got, and nothing was written.                               *)
LEMMA RuntimeStutters ==
    ASSUME \A g \in Followers : follower'[g].got = follower[g].got, file' = file
    PROVE  UNCHANGED <<Len(file), RuntimeGot>>
  BY DEF RuntimeGot

(* What a follower holds is a sequence of numbers.                         *)
LEMMA ComingType ==
    ASSUME TypeOK, NEW f \in Followers
    PROVE  /\ follower[f] \in FollowerState
           /\ follower[f].got \in Seq(Nat) /\ follower[f].buffer \in Seq(Nat)
           /\ follower[f].pos \in Nat /\ Coming(follower[f]) \in Seq(Nat)
           /\ Len(follower[f].got) \in Nat /\ Len(follower[f].buffer) \in Nat
           /\ Len(Coming(follower[f])) = Len(follower[f].got) + Len(follower[f].buffer)
  <1>1. follower[f] \in FollowerState
    BY DEF TypeOK
  <1>2. /\ follower[f].got \in Seq(Nat \ {0}) /\ follower[f].buffer \in Seq(Nat \ {0})
        /\ follower[f].pos \in Nat
    BY <1>1 DEF FollowerState
  <1>3. \A q \in Seq(Nat \ {0}) : q \in Seq(Nat)
    <2> TAKE q \in Seq(Nat \ {0})
    <2>1. \A i \in 1..Len(q) : q[i] \in Nat
      OBVIOUS
    <2> QED BY <2>1
  <1>4. follower[f].got \in Seq(Nat) /\ follower[f].buffer \in Seq(Nat)
    BY <1>2, <1>3
  <1> QED BY <1>1, <1>2, <1>4 DEF Coming

(* With nothing in the channel, what comes is what it got.                 *)
LEMMA ComingStored ==
    ASSUME NEW got \in Seq(Nat)
    PROVE  got \o <<>> = got
  OBVIOUS

(* A step of one follower, with the relay in the middle of a line or not.  *)
LEMMA OneFollower ==
    ASSUME RuntimeInv, NEW f \in Followers, file' = file,
           \A g \in Followers \ {f} : follower'[g] = follower[g],
           relay'.pc = relay.pc, relay'.todo \subseteq relay.todo \cup {f},
           relay'.todo # {} => relay'.pc = "handing",
           FollowerFed(follower'[f], Len(file), OnItsWay(f)'),
           f \in relay'.todo => follower'[f].pc \in {"live", "leaving", "gone"}
    PROVE  RuntimeInv'
  <1>1. \A g \in Followers \ {f} : OnItsWay(g)' => OnItsWay(g)
    BY DEF OnItsWay
  <1>2. ASSUME NEW g \in Followers \ {f}
        PROVE  /\ FollowerFed(follower'[g], Len(file), OnItsWay(g)')
               /\ g \in relay'.todo => follower'[g].pc \in {"live", "leaving", "gone"}
    BY <1>1 DEF RuntimeInv, FollowerFed
  <1> QED BY <1>2 DEF RuntimeInv

(* The relay's steps: a line is written to the file, and its handlers are  *)
(* looked up and done with.                                                *)
LEMMA RuntimeRelay ==
    ASSUME TypeOK, RuntimeInv, Receive \/ LookUpHandlers \/ LineDone
    PROVE  RuntimeInv' /\ [RuntimeFeed!Next]_<<Len(file), RuntimeGot>>
  <1>0. relay \in RelayState /\ file \in Seq(Line) /\ follower' = follower
        /\ Len(file) \in Nat
    BY DEF TypeOK, Receive, LookUpHandlers, LineDone
  <1>1. CASE Receive
    <2>1. relay.pc = "receive" /\ relay.todo = {}
      BY <1>1 DEF Receive, RuntimeInv
    <2>2. /\ relay'.todo = relay.todo
          /\ \/ file' = file /\ relay'.pc = "receive"
             \/ \E line \in Line : file' = Append(file, line)
      <3>1. relay.at \in Streams /\ stream[relay.at].wire \in Seq(Line)
            /\ stream[relay.at].wire # <<>>
        BY <1>0, <1>1 DEF Receive, RelayState, TypeOK, StreamState
      <3>2. Head(stream[relay.at].wire) \in Line
        BY <3>1
      <3>3. \/ /\ relay' = [relay EXCEPT !.seq = @ + 1] /\ file' = file
            \/ /\ relay' = [[relay EXCEPT !.seq = @ + 1] EXCEPT !.pc = "handlers"]
               /\ file' = Append(file, Head(stream[relay.at].wire))
            \/ /\ relay' = [[relay EXCEPT !.seq = @ + 1] EXCEPT !.counted = @ + 1]
               /\ file' = file
        BY <1>1 DEF Receive, WriteLog
      <3>4. relay'.todo = relay.todo
        BY <1>0, <3>3 DEF RelayState
      <3>5. file' = file => relay'.pc = "receive" \/ \E line \in Line : file' = Append(file, line)
        BY <1>0, <2>1, <3>2, <3>3 DEF RelayState
      <3> QED BY <3>2, <3>3, <3>4, <3>5
    <2>3. CASE file' = file /\ relay'.pc = "receive"
      <3>1. \A f \in Followers : ~OnItsWay(f)'
        BY <2>1, <2>2, <2>3 DEF OnItsWay
      <3>2. RuntimeInv'
        BY <1>0, <2>1, <2>2, <2>3, <3>1 DEF RuntimeInv, FollowerFed
      <3> QED BY <1>0, <2>3, <3>2, RuntimeStutters
    <2>4. CASE \E line \in Line : file' = Append(file, line)
      <3>1. Len(file') = Len(file) + 1
        BY <1>0, <2>4
      <3>2. ASSUME NEW f \in Followers
            PROVE  FollowerFed(follower[f], Len(file) + 1, OnItsWay(f)')
        <4>0. Coming(follower[f]) \in Seq(Nat)
          BY ComingType
        <4>1. ASSUME NEW i \in 1..Len(Coming(follower[f]))
              PROVE  Coming(follower[f])[i] \in Nat
          <5> HIDE DEF Coming
          <5> QED BY <4>0
        <4>2. follower[f].pos \in Nat
          BY ComingType
        <4> HIDE DEF Coming
        <4> QED BY <1>0, <4>1, <4>2 DEF RuntimeInv, FollowerFed
      <3>3. RuntimeInv'
        BY <1>0, <2>1, <2>2, <3>1, <3>2 DEF RuntimeInv
      <3>4. RuntimeFeed!WriteLine
        BY <1>0, <3>1 DEF RuntimeFeed!WriteLine
      <3> QED BY <3>3, <3>4 DEF RuntimeFeed!Next
    <2> QED BY <2>2, <2>3, <2>4
  <1>2. CASE LookUpHandlers \/ LineDone
    <2>1. file' = file
      BY <1>2 DEF LookUpHandlers, LineDone
    <2>2. /\ relay'.todo # {} => relay'.pc = "handing"
          /\ \A f \in Followers :
               /\ OnItsWay(f)' => OnItsWay(f)
               /\ f \in relay'.todo => follower[f].pc \in {"live", "leaving", "gone"}
      <3>1. CASE LookUpHandlers
        <4>1. relay.pc = "handlers" /\ relay'.pc = "handing" /\ relay'.todo = Live
          BY <1>0, <3>1 DEF LookUpHandlers, RelayState
        <4> QED BY <4>1 DEF OnItsWay, Live
      <3>2. CASE LineDone
        <4>1. relay'.pc = "receive" /\ relay'.todo = {}
          BY <1>0, <3>2 DEF LineDone, RelayState
        <4> QED BY <4>1 DEF OnItsWay
      <3> QED BY <1>2, <3>1, <3>2
    <2>3. RuntimeInv'
      BY <1>0, <2>1, <2>2 DEF RuntimeInv, FollowerFed
    <2> QED BY <1>0, <2>1, <2>3, RuntimeStutters
  <1> QED BY <1>1, <1>2

(* The guest's steps, and the runtime's connecting, leave the runtime's    *)
(* file, its handlers and its followers alone.                             *)
LEMMA RuntimeUntouched ==
    ASSUME TypeOK, RuntimeInv,
           \/ WriteLine \/ LockHandlers \/ Unlock \/ StreamOver
           \/ \E s \in Streams :
                \/ HandleEntry(s) \/ ReadHistoricalLog(s) \/ HistoryEnds(s)
                \/ AddHandler(s) \/ Unsubscribe(s) \/ ServerSend(s) \/ ServerReturns(s)
                \/ Break(s) \/ Connect(s)
           \/ UNCHANGED vars
    PROVE  RuntimeInv' /\ UNCHANGED <<Len(file), RuntimeGot>>
  <1>0. relay \in RelayState
    BY DEF TypeOK
  <1>1. file' = file /\ follower' = follower
    BY DEF WriteLine, LockHandlers, Unlock, StreamOver, HandleEntry, ReadHistoricalLog,
       HistoryEnds, AddHandler, Unsubscribe, ServerSend, ServerReturns, Break, Connect, vars
  <1>2. relay'.pc = relay.pc /\ relay'.todo = relay.todo
    <2>1. CASE StreamOver
      BY <1>0, <2>1 DEF StreamOver, RelayState
    <2>2. CASE \E s \in Streams : Connect(s)
      BY <1>0, <2>2 DEF Connect, RelayState
    <2>3. CASE relay' = relay
      BY <2>3
    <2>4. \/ StreamOver \/ (\E s \in Streams : Connect(s)) \/ relay' = relay
      BY DEF WriteLine, LockHandlers, Unlock, HandleEntry, ReadHistoricalLog,
         HistoryEnds, AddHandler, Unsubscribe, ServerSend, ServerReturns, Break, vars
    <2> QED BY <2>1, <2>2, <2>3, <2>4
  <1>3. RuntimeInv'
    BY <1>1, <1>2 DEF RuntimeInv, FollowerFed, OnItsWay
  <1> QED BY <1>1, <1>3, RuntimeStutters

(* A channel gets a line.                                                  *)
LEMMA ChannelGets ==
    ASSUME NEW got \in Seq(Nat), NEW buffer \in Seq(Nat), NEW line \in Nat
    PROVE  got \o Append(buffer, line) = Append(got \o buffer, line)
  <1> DEFINE x == got \o Append(buffer, line)
             y == Append(got \o buffer, line)
  <1>1. /\ x \in Seq(Nat) /\ y \in Seq(Nat)
        /\ Len(x) = Len(got) + Len(buffer) + 1 /\ Len(y) = Len(x)
    OBVIOUS
  <1>2. ASSUME NEW i \in 1..Len(x) PROVE x[i] = y[i]
    OBVIOUS
  <1> HIDE DEF x, y
  <1>3. x = y
    BY <1>1, <1>2
  <1> QED BY <1>3 DEF x, y

(* A channel gives its first line.                                         *)
LEMMA ChannelGives ==
    ASSUME NEW got \in Seq(Nat), NEW buffer \in Seq(Nat), buffer # <<>>
    PROVE  /\ Append(got, Head(buffer)) \o Tail(buffer) = got \o buffer
           /\ (got \o buffer)[Len(got) + 1] = Head(buffer)
           /\ \A i \in 1..Len(got) : (got \o buffer)[i] = got[i]
  <1> DEFINE x == Append(got, Head(buffer)) \o Tail(buffer)
             y == got \o buffer
  <1>1. /\ Head(buffer) = buffer[1] /\ buffer[1] \in Nat /\ Len(buffer) >= 1
        /\ Tail(buffer) \in Seq(Nat) /\ Len(Tail(buffer)) = Len(buffer) - 1
    OBVIOUS
  <1>2. /\ x \in Seq(Nat) /\ y \in Seq(Nat)
        /\ Len(x) = Len(got) + Len(buffer) /\ Len(y) = Len(x)
    BY <1>1
  <1>3. ASSUME NEW i \in 1..Len(x) PROVE x[i] = y[i]
    BY <1>1
  <1>4. y[Len(got) + 1] = Head(buffer)
    <2>1. Len(got) + 1 \in 1..Len(y)
      BY <1>1
    <2> QED BY <1>1, <2>1
  <1>5. \A i \in 1..Len(got) : y[i] = got[i]
    OBVIOUS
  <1>6. x = y
    <2> HIDE DEF x, y
    <2> QED BY <1>2, <1>3
  <1> QED BY <1>4, <1>5, <1>6

(* A follower whose lines stay what they were.                             *)
LEMMA RuntimeSameLines ==
    ASSUME NEW f \in Followers, follower \in [Followers -> FollowerState],
           NEW new, follower' = [follower EXCEPT ![f] = new], new.got = follower[f].got,
           file' = file
    PROVE  UNCHANGED <<Len(file), RuntimeGot>>
  <1>1. \A g \in Followers : follower'[g].got = follower[g].got
    BY Zenon
  <1> QED BY <1>1, RuntimeStutters

(* The handler puts the line in the channel, or finds the request over.    *)
LEMMA RuntimeHands ==
    ASSUME TypeOK, InHand, RuntimeInv, NEW f \in Followers, HandToFollower(f)
    PROVE  RuntimeInv' /\ UNCHANGED <<Len(file), RuntimeGot>>
  <1>0. /\ follower \in [Followers -> FollowerState] /\ relay \in RelayState
        /\ Len(file) \in Nat /\ follower[f].pos <= Len(file) /\ file' = file
    BY DEF TypeOK, HandToFollower
  <1>1. /\ relay.pc = "handing" /\ f \in relay.todo
        /\ relay'.pc = relay.pc /\ relay'.todo = relay.todo \ {f} /\ ~OnItsWay(f)'
    BY <1>0 DEF HandToFollower, RelayState, OnItsWay
  <1>2. /\ OnItsWay(f) /\ FollowerFed(follower[f], Len(file), TRUE)
        /\ follower[f].pc \in {"live", "leaving", "gone"}
    BY <1>1 DEF OnItsWay, RuntimeInv
  <1>3. CASE follower[f].pc \in {"leaving", "gone"}
    <2>1. follower' = follower
      BY <1>3 DEF HandToFollower
    <2>2. FollowerFed(follower'[f], Len(file), OnItsWay(f)')
      BY <1>1, <1>2, <2>1 DEF FollowerFed
    <2>3. RuntimeInv'
      BY <1>0, <1>1, <2>1, <2>2, OneFollower
    <2> QED BY <1>0, <2>1, <2>3, RuntimeStutters
  <1>4. CASE follower[f].pc = "live"
    <2> DEFINE n == Len(file)
               new == [follower[f] EXCEPT !.buffer = Append(@, n)]
    <2>1. follower' = [follower EXCEPT ![f] = new]
      BY <1>0, <1>4 DEF HandToFollower
    <2>2. /\ new.pc = "live" /\ new.pos = follower[f].pos
          /\ new.got = follower[f].got /\ new.buffer = Append(follower[f].buffer, n)
      BY <1>0, <1>4 DEF FollowerState
    <2>3. Coming(new) = Append(Coming(follower[f]), n)
      <3>1. follower[f].got \in Seq(Nat) /\ follower[f].buffer \in Seq(Nat) /\ n \in Nat
        BY <1>0, ComingType
      <3>2. new.got \o new.buffer = Append(follower[f].got \o follower[f].buffer, n)
        <4> HIDE DEF n, new
        <4> QED BY <2>2, <3>1, ChannelGets
      <3> QED BY <3>2 DEF Coming
    <2>4. /\ Coming(follower[f]) \in Seq(Nat) /\ follower[f].pos \in Nat
          /\ Len(follower[f].got) \in Nat
      BY ComingType
    <2>5. /\ Shape(Coming(follower[f]), follower[f].pos)
          /\ follower[f].pos <= Len(follower[f].got)
          /\ \A i \in (follower[f].pos + 1)..Len(Coming(follower[f])) :
               Coming(follower[f])[i] < n
      BY <1>2, <1>4 DEF FollowerFed
    <2> HIDE DEF n, new
    <2>6. n \in Nat /\ n >= follower[f].pos
      BY <1>0, <2>4 DEF n
    <2>7. Shape(Coming(new), follower[f].pos)
      <3> HIDE DEF Coming
      <3> QED BY <2>3, <2>4, <2>5, <2>6, ShapeLive
    <2>8. ASSUME NEW i \in (follower[f].pos + 1)..Len(Coming(new))
          PROVE  Coming(new)[i] <= n
      <3> DEFINE old == Coming(follower[f])
      <3>1. old \in Seq(Nat) /\ Len(old) \in Nat
        BY <2>4
      <3>2. \A j \in (follower[f].pos + 1)..Len(old) : old[j] < n
        BY <2>5
      <3>3. Coming(new) = Append(old, n)
        BY <2>3
      <3> HIDE DEF old, Coming
      <3>4. i \in Nat /\ i >= follower[f].pos + 1 /\ i <= Len(old) + 1 /\ i >= 1
        BY <2>4, <3>1, <3>3
      <3>5. CASE i = Len(old) + 1
        BY <2>6, <3>1, <3>3, <3>5
      <3>6. CASE i <= Len(old)
        <4>1. Coming(new)[i] = old[i] /\ old[i] \in Nat
          BY <3>1, <3>3, <3>4, <3>6
        <4>2. old[i] < n
          BY <2>4, <3>1, <3>2, <3>4, <3>6
        <4> QED BY <2>6, <4>1, <4>2
      <3> QED BY <3>1, <3>4, <3>5, <3>6
    <2>9. FollowerFed(new, n, FALSE)
      BY <2>2, <2>5, <2>7, <2>8 DEF FollowerFed
    <2>10. follower'[f] = new /\ \A g \in Followers \ {f} : follower'[g] = follower[g]
      BY <1>0, <2>1
    <2>11. RuntimeInv'
      <3>1. FollowerFed(follower'[f], Len(file), OnItsWay(f)')
        <4>1. follower'[f] = new /\ ~OnItsWay(f)' /\ n = Len(file)
          BY <1>1, <2>10 DEF n
        <4> HIDE DEF OnItsWay
        <4> QED BY <2>9, <4>1 DEF FollowerFed
      <3>2. relay'.todo \subseteq relay.todo \cup {f} /\ f \notin relay'.todo
            /\ relay'.pc = "handing"
        BY <1>1
      <3> QED BY <1>0, <1>1, <2>10, <3>1, <3>2, OneFollower
    <2> QED BY <1>0, <2>1, <2>2, <2>11, RuntimeSameLines
  <1> QED BY <1>2, <1>3, <1>4

(* A request begins, turns to its handler, or leaves: it got nothing new.  *)
LEMMA RuntimeTurns ==
    ASSUME TypeOK, RuntimeInv, NEW f \in Followers,
           Follow(f) \/ Attach(f) \/ Leave(f)
    PROVE  RuntimeInv' /\ UNCHANGED <<Len(file), RuntimeGot>>
  <1>0. /\ follower \in [Followers -> FollowerState] /\ relay \in RelayState
        /\ Len(file) \in Nat /\ file' = file
    BY DEF TypeOK, Follow, Attach, Leave
  <1>1. PICK pc \in {"history", "live", "gone"} :
          /\ follower' = [follower EXCEPT ![f] = [follower[f] EXCEPT !.pc = pc]]
          /\ pc = "history" => follower[f].pc = "none" /\ relay' = relay
          /\ pc = "live" => follower[f].pc = "attaching"
          /\ pc = "gone" => follower[f].pc = "leaving"
    BY <1>0 DEF Follow, Attach, Leave
  <1> DEFINE new == [follower[f] EXCEPT !.pc = pc]
  <1>2. /\ new.pc = pc /\ new.pos = follower[f].pos
        /\ new.got = follower[f].got /\ new.buffer = follower[f].buffer
    BY <1>0 DEF FollowerState
  <1>3. Coming(new) = Coming(follower[f])
    BY <1>2 DEF Coming
  <1>4. /\ relay'.pc = relay.pc /\ relay'.todo \subseteq relay.todo \cup {f}
        /\ relay'.todo # {} => relay'.pc = "handing"
        /\ pc = "history" => relay'.todo = relay.todo
    <2>1. CASE relay' = relay
      BY <2>1 DEF RuntimeInv
    <2>2. CASE \E todo \in {relay.todo \cup {f}, relay.todo \ {f}} :
                 relay.pc = "handing" /\ relay' = [relay EXCEPT !.todo = todo]
      BY <1>0, <1>1, <2>2 DEF RelayState
    <2> QED BY <1>1, <2>1, <2>2 DEF Follow, Attach, Leave, MapChanges
  <1>5. follower'[f] = new /\ \A g \in Followers \ {f} : follower'[g] = follower[g]
    BY <1>0, <1>1
  <1>6. FollowerFed(follower[f], Len(file), OnItsWay(f))
    BY DEF RuntimeInv
  <1>7. /\ follower[f].got \in Seq(Nat) /\ follower[f].pos \in Nat
        /\ Len(follower[f].got) \in Nat
    BY ComingType
  <1> HIDE DEF new
  <1>8. FollowerFed(new, Len(file), OnItsWay(f)')
    <2>1. CASE pc = "gone"
      BY <1>1, <1>2, <1>6, <2>1 DEF FollowerFed
    <2>2. CASE pc = "history"
      <3>1. new.got = <<>> /\ new.buffer = <<>> /\ new.pos = 0
        BY <1>1, <1>2, <1>6, <2>2 DEF FollowerFed
      <3>2. Coming(new) = <<>>
        BY <3>1 DEF Coming
      <3>3. Shape(Coming(new), 0) /\ Len(Coming(new)) = 0
        BY <3>2 DEF Shape
      <3> QED BY <1>2, <2>2, <3>1, <3>3 DEF FollowerFed
    <2>3. CASE pc = "live"
      <3>1. /\ follower[f].pc = "attaching" /\ follower[f].buffer = <<>>
            /\ Len(follower[f].got) = follower[f].pos
            /\ Shape(Coming(follower[f]), follower[f].pos)
        BY <1>1, <1>6, <2>3 DEF FollowerFed
      <3>2. Coming(follower[f]) = follower[f].got
        BY <1>7, <3>1, ComingStored DEF Coming
      <3>3. (new.pos + 1)..Len(Coming(new)) = {}
        BY <1>2, <1>3, <1>7, <3>1, <3>2
      <3>4. Shape(Coming(new), new.pos) /\ new.pos <= Len(new.got)
        BY <1>2, <1>3, <1>7, <3>1
      <3> QED BY <1>2, <2>3, <3>3, <3>4 DEF FollowerFed
    <2> QED BY <1>1, <2>1, <2>2, <2>3
  <1>9. f \in relay'.todo => new.pc \in {"live", "leaving", "gone"}
    BY <1>1, <1>2, <1>4 DEF RuntimeInv
  <1>10. RuntimeInv'
    BY <1>0, <1>4, <1>5, <1>8, <1>9, OneFollower
  <1> QED BY <1>0, <1>1, <1>2, <1>10, RuntimeSameLines DEF new

(* A stored line goes to the follower.                                     *)
LEMMA RuntimeReads ==
    ASSUME TypeOK, RuntimeInv, NEW f \in Followers, ReadLog(f)
    PROVE  RuntimeInv' /\ RuntimeFeed!Next
  <1>0. /\ follower \in [Followers -> FollowerState]
        /\ Len(file) \in Nat /\ file' = file /\ relay' = relay
        /\ follower[f].pc = "history" /\ follower[f].pos < Len(file)
    BY DEF TypeOK, ReadLog
  <1>1. /\ follower[f].got \in Seq(Nat) /\ follower[f].pos \in Nat
    BY ComingType
  <1>2. /\ follower[f].buffer = <<>> /\ Len(follower[f].got) = follower[f].pos
        /\ Shape(Coming(follower[f]), follower[f].pos)
    BY <1>0 DEF RuntimeInv, FollowerFed
  <1>3. Shape(follower[f].got, follower[f].pos)
    BY <1>1, <1>2, ComingStored DEF Coming
  <1> DEFINE q == follower[f].pos + 1
             lines == Append(follower[f].got, q)
             new == [follower[f] EXCEPT !.pos = @ + 1, !.got = lines]
  <1>4. follower' = [follower EXCEPT ![f] = new]
    BY DEF ReadLog
  <1>5. /\ new.pc = "history" /\ new.pos = q /\ new.got = lines /\ new.buffer = <<>>
    BY <1>0, <1>2 DEF FollowerState
  <1>6. lines \in Seq(Nat) /\ Len(lines) = q /\ q \in Nat /\ q \in 1..Len(file)
    BY <1>0, <1>1, <1>2
  <1>7. Shape(lines, q)
    BY <1>1, <1>2, <1>3, ShapeStored
  <1> HIDE DEF q, lines, new
  <1>8. Coming(new) = lines
    BY <1>5, <1>6, ComingStored DEF Coming
  <1>9. FollowerFed(new, Len(file), OnItsWay(f)')
    <2>1. (new.pos + 1)..Len(Coming(new)) = {}
      BY <1>5, <1>6, <1>8
    <2> QED BY <1>5, <1>6, <1>7, <1>8, <2>1 DEF FollowerFed
  <1>10. follower'[f] = new /\ \A g \in Followers \ {f} : follower'[g] = follower[g]
    BY <1>0, <1>4
  <1>11. f \notin relay.todo
    BY <1>0 DEF RuntimeInv
  <1>12. RuntimeInv'
    BY <1>0, <1>9, <1>10, <1>11, OneFollower DEF RuntimeInv
  <1>13. \A g \in Followers : follower'[g].got = IF g = f THEN lines ELSE follower[g].got
    BY <1>5, <1>10
  <1>14. RuntimeFeed!Next
    BY <1>0, <1>1, <1>6, <1>7, <1>13, RuntimeDeliver DEF lines
  <1> QED BY <1>12, <1>14

(* A line of the channel goes to the follower.                             *)
LEMMA RuntimeSends ==
    ASSUME TypeOK, RuntimeInv, NEW f \in Followers, SendLive(f)
    PROVE  RuntimeInv' /\ RuntimeFeed!Next
  <1>0. /\ follower \in [Followers -> FollowerState]
        /\ Len(file) \in Nat /\ file' = file /\ relay' = relay
        /\ follower[f].pc = "live" /\ follower[f].buffer # <<>>
    BY DEF TypeOK, SendLive
  <1>1. /\ follower[f].got \in Seq(Nat) /\ follower[f].buffer \in Seq(Nat)
        /\ follower[f].pos \in Nat /\ follower[f].buffer \in Seq(Nat \ {0})
    BY <1>0, ComingType DEF FollowerState
  <1>2. FollowerFed(follower[f], Len(file), OnItsWay(f))
    BY DEF RuntimeInv
  <1>3. /\ Shape(Coming(follower[f]), follower[f].pos)
        /\ follower[f].pos <= Len(follower[f].got)
        /\ \A i \in (follower[f].pos + 1)..Len(Coming(follower[f])) :
             Coming(follower[f])[i] <= Len(file)
    BY <1>0, <1>2 DEF FollowerFed
  <1> DEFINE line == Head(follower[f].buffer)
             lines == Append(follower[f].got, line)
             new == [follower[f] EXCEPT !.got = lines, !.buffer = Tail(@)]
  <1>4. follower' = [follower EXCEPT ![f] = new]
    BY DEF SendLive
  <1>5. /\ new.pc = "live" /\ new.pos = follower[f].pos /\ new.got = lines
        /\ new.buffer = Tail(follower[f].buffer)
    BY <1>0 DEF FollowerState
  <1>6. line \in Nat /\ line >= 1
    BY <1>0, <1>1
  <1>7. /\ lines \in Seq(Nat) /\ Len(lines) = Len(follower[f].got) + 1
        /\ Len(follower[f].got) \in Nat
        /\ \A i \in 1..Len(follower[f].got) : lines[i] = follower[f].got[i]
        /\ lines[Len(follower[f].got) + 1] = line
    BY <1>1, <1>6
  <1>8. /\ Coming(follower[f]) \in Seq(Nat)
        /\ Len(Coming(follower[f])) = Len(follower[f].got) + Len(follower[f].buffer)
        /\ Len(follower[f].buffer) \in Nat /\ Len(follower[f].buffer) >= 1
        /\ \A i \in 1..Len(follower[f].got) : Coming(follower[f])[i] = follower[f].got[i]
        /\ Coming(follower[f])[Len(follower[f].got) + 1] = line
    <2>1. Len(follower[f].buffer) \in Nat /\ Len(follower[f].buffer) >= 1
      BY <1>0, <1>1
    <2> QED BY <1>0, <1>1, <2>1, ComingType, ChannelGives DEF Coming
  <1>9. Coming(new) = Coming(follower[f])
    <2>1. new.got \o new.buffer = follower[f].got \o follower[f].buffer
      <3>1. lines \o Tail(follower[f].buffer) = follower[f].got \o follower[f].buffer
        BY <1>0, <1>1, ChannelGives
      <3> HIDE DEF lines, new
      <3> QED BY <1>5, <3>1
    <2> QED BY <2>1 DEF Coming
  <1> HIDE DEF line, lines, new, Coming
  <1>10. Shape(lines, follower[f].pos)
    <2>1. \A i \in 1..Len(lines) : lines[i] = Coming(follower[f])[i]
      <3> DEFINE g == Len(follower[f].got)
      <3>1. Len(lines) = g + 1 /\ g \in Nat /\ lines[g + 1] = Coming(follower[f])[g + 1]
        BY <1>7, <1>8
      <3>2. \A i \in 1..g : lines[i] = Coming(follower[f])[i]
        BY <1>7, <1>8
      <3> HIDE DEF g
      <3>3. \A i \in 1..(g + 1) : i \in 1..g \/ i = g + 1
        BY <3>1
      <3> QED BY <3>1, <3>2, <3>3
    <2>2. follower[f].pos <= Len(lines) /\ Len(lines) <= Len(Coming(follower[f]))
      BY <1>1, <1>3, <1>7, <1>8
    <2> QED BY <1>1, <1>3, <1>7, <1>8, <2>1, <2>2, ShapePrefix
  <1>11. line \in 1..Len(file)
    <2> DEFINE g == Len(follower[f].got)
               p == follower[f].pos
               c == Len(Coming(follower[f]))
    <2>0. g \in Nat /\ p \in Nat /\ c \in Nat /\ p <= g /\ g + 1 <= c
      <3>1. c = g + Len(follower[f].buffer) /\ g \in Nat /\ p \in Nat /\ p <= g
        BY <1>1, <1>3, <1>7, <1>8
      <3> HIDE DEF g, p, c
      <3> QED BY <1>8, <3>1
    <2>1. g + 1 \in (p + 1)..c
      <3> HIDE DEF g, p, c
      <3> QED BY <2>0
    <2>2. line <= Len(file)
      BY <1>3, <1>8, <2>1
    <2> QED BY <1>0, <1>6, <2>2
  <1>12. FollowerFed(new, Len(file), OnItsWay(f)')
    <2>1. OnItsWay(f)' = OnItsWay(f)
      BY <1>0 DEF OnItsWay
    <2>2. new.pos <= Len(new.got)
      BY <1>1, <1>3, <1>5, <1>7
    <2> QED BY <1>0, <1>2, <1>5, <1>9, <2>1, <2>2 DEF FollowerFed
  <1>13. follower'[f] = new /\ \A g \in Followers \ {f} : follower'[g] = follower[g]
    BY <1>0, <1>4
  <1>14. RuntimeInv'
    BY <1>0, <1>5, <1>12, <1>13, OneFollower DEF RuntimeInv
  <1>15. \A g \in Followers : follower'[g].got = IF g = f THEN lines ELSE follower[g].got
    BY <1>5, <1>13
  <1>16. RuntimeFeed!Next
    BY <1>0, <1>1, <1>10, <1>11, <1>15, RuntimeDeliver DEF lines
  <1> QED BY <1>14, <1>16

(* A request goes on to its handler, or is over.                           *)
LEMMA RuntimeEnds ==
    ASSUME TypeOK, RuntimeInv, NEW f \in Followers, EndOfLogs(f) \/ HangUp(f)
    PROVE  RuntimeInv' /\ [RuntimeFeed!Next]_<<Len(file), RuntimeGot>>
  <1>0. /\ follower \in [Followers -> FollowerState]
        /\ Len(file) \in Nat /\ file' = file /\ relay' = relay
    BY DEF TypeOK, EndOfLogs, HangUp
  <1>1. FollowerFed(follower[f], Len(file), OnItsWay(f)) /\ (OnItsWay(f)' = OnItsWay(f))
    BY <1>0 DEF RuntimeInv, OnItsWay
  <1>2. /\ relay'.pc = relay.pc /\ relay'.todo \subseteq relay.todo \cup {f}
        /\ relay'.todo # {} => relay'.pc = "handing"
        /\ f \in relay'.todo => follower[f].pc \in {"live", "leaving", "gone"}
    BY <1>0 DEF RuntimeInv
  <1>3. CASE /\ follower[f].pc = "history"
             /\ follower' = [follower EXCEPT ![f].pc = "attaching"]
    <2> DEFINE new == [follower[f] EXCEPT !.pc = "attaching"]
    <2>1. follower' = [follower EXCEPT ![f] = new]
      BY <1>3
    <2>2. /\ new.pc = "attaching" /\ new.pos = follower[f].pos
          /\ new.got = follower[f].got /\ new.buffer = follower[f].buffer
      BY <1>0 DEF FollowerState
    <2>3. Coming(new) = Coming(follower[f])
      BY <2>2 DEF Coming
    <2>4. follower'[f] = new /\ \A g \in Followers \ {f} : follower'[g] = follower[g]
      BY <1>0, <2>1
    <2> HIDE DEF new, Coming
    <2>5. FollowerFed(new, Len(file), OnItsWay(f)')
      BY <1>1, <1>3, <2>2, <2>3 DEF FollowerFed
    <2>6. RuntimeInv'
      BY <1>0, <1>2, <1>3, <2>4, <2>5, OneFollower
    <2> QED BY <1>0, <2>1, <2>2, <2>6, RuntimeSameLines
  <1>4. CASE \E new : /\ follower' = [follower EXCEPT ![f] = new]
                      /\ new.pc \in {"leaving", "gone"} /\ new.got = <<>>
    <2>1. PICK new : /\ follower' = [follower EXCEPT ![f] = new]
                     /\ new.pc \in {"leaving", "gone"} /\ new.got = <<>>
      BY <1>4
    <2>2. follower'[f] = new /\ \A g \in Followers \ {f} : follower'[g] = follower[g]
      BY <1>0, <2>1
    <2>3. FollowerFed(new, Len(file), OnItsWay(f)')
      BY <2>1 DEF FollowerFed
    <2>4. f \in relay'.todo => follower'[f].pc \in {"live", "leaving", "gone"}
      BY <2>1, <2>2
    <2>5. RuntimeInv'
      BY <1>0, <1>2, <2>2, <2>3, <2>4, OneFollower
    <2>6. \A g \in Followers : follower'[g].got = IF g = f THEN <<>> ELSE follower[g].got
      BY <2>1, <2>2
    <2> QED BY <1>0, <2>5, <2>6, RuntimeStartsAgain
  <1>5. \/ /\ follower[f].pc = "history"
           /\ follower' = [follower EXCEPT ![f].pc = "attaching"]
        \/ \E new : /\ follower' = [follower EXCEPT ![f] = new]
                    /\ new.pc \in {"leaving", "gone"} /\ new.got = <<>>
    <2>1. CASE EndOfLogs(f)
      <3>1. [NoFollower EXCEPT !.pc = "gone"].pc = "gone"
            /\ [NoFollower EXCEPT !.pc = "gone"].got = <<>>
        BY DEF NoFollower
      <3> QED BY <2>1, <3>1 DEF EndOfLogs
    <2>2. CASE HangUp(f)
      <3> DEFINE pc == IF follower[f].pc = "live" THEN "leaving" ELSE "gone"
                 new == [NoFollower EXCEPT !.buffer = follower[f].buffer, !.pc = pc]
      <3>1. new.pc \in {"leaving", "gone"} /\ new.got = <<>>
        BY DEF NoFollower
      <3>2. follower' = [follower EXCEPT ![f] = new]
        BY <2>2 DEF HangUp
      <3> HIDE DEF new
      <3> QED BY <3>1, <3>2
    <2> QED BY <2>1, <2>2
  <1> QED BY <1>3, <1>4, <1>5

(* The runtime's log requests (grpc_handler.go GetLogs, GetContainerLogs,  *)
(* log.go) implement LogFeed over the runtime's file: whoever else follows *)
(* or hangs up, a follower gets the file's lines in order, and at most the *)
(* one it turned live at twice.                                            *)
THEOREM RuntimeFeedCorrect == Spec => RuntimeFeed!Spec
  <1>1. Init => TypeOK /\ InHand /\ RuntimeInv /\ RuntimeFeed!Init
    BY LogPipelineAssumption, TypeInit, RuntimeInit
  <1>2. TypeOK /\ InHand /\ RuntimeInv /\ [Next]_vars
          => /\ (TypeOK /\ InHand /\ RuntimeInv)'
             /\ [RuntimeFeed!Next]_<<Len(file), RuntimeGot>>
    <2> SUFFICES ASSUME TypeOK, InHand, RuntimeInv, [Next]_vars
                 PROVE  /\ TypeOK' /\ InHand' /\ RuntimeInv'
                        /\ [RuntimeFeed!Next]_<<Len(file), RuntimeGot>>
      OBVIOUS
    <2>1. TypeOK' /\ InHand'
      BY LogPipelineAssumption, TypeStep
    <2>2. RuntimeInv' /\ [RuntimeFeed!Next]_<<Len(file), RuntimeGot>>
      BY StepCases, RuntimeRelay, RuntimeUntouched, RuntimeHands, RuntimeTurns,
         RuntimeReads, RuntimeSends, RuntimeEnds
    <2> QED BY <2>1, <2>2
  <1> QED BY <1>1, <1>2, PTL DEF Spec, RuntimeFeed!Spec, RuntimeGot

(* Both log services, init's and the runtime's, implement LogFeed.         *)
THEOREM LogFeedCorrect == Spec => LogFeedSpec
  BY GuestFeedCorrect, RuntimeFeedCorrect, PTL DEF LogFeedSpec

-------------------------------------------------------------------------------
(* ExactlyOnce.  Only the connection in use is open, and a handler is that *)
(* of a reader that turned to the live lines.                              *)
LinkOf(s) ==
    /\ stream[s].link = "open" /\ stream[s].reader # "none" => s = relay.at
    /\ stream[s].reader = "done" \/ stream[s].server = "gone" => stream[s].link = "broken"
    /\ stream[s].reader = "none" => stream[s].server = "none"
    /\ s = relay.at => stream[s].reader # "none"
    /\ s \in guest.todo => stream[s].reader = "live"

(* A server was handed the first lines, each once: the stored ones as far  *)
(* as it read, and then all that the handlers were given.                  *)
CountOf(s) ==
    stream[s].server # "gone" =>
      /\ \A i \in 1..Len(stream[s].got) : stream[s].got[i] = i
      /\ stream[s].reader \in {"history", "attaching"} => Len(stream[s].got) = stream[s].pos
      /\ stream[s].reader = "live" =>
           guest.lines = Len(stream[s].got) + (IF Pending(s) THEN 1 ELSE 0)

(* The lines under way on the connection follow those counted on it, and   *)
(* the last one is in the server's hands or was sent.                      *)
WireOf(s) ==
    /\ \A i \in 1..Len(stream[s].wire) : stream[s].wire[i] = relay.seq + i
    /\ stream[s].link = "open" =>
         /\ Len(stream[s].got) = relay.seq + Len(stream[s].wire)
                                   + (IF stream[s].server = "sending" THEN 1 ELSE 0)
         /\ stream[s].server = "sending" => stream[s].holding = Len(stream[s].got)

(* The file has the lines counted, and the one not yet counted.            *)
FileInv ==
    /\ Len(file) = relay.counted + (IF relay.pc = "receive" THEN 0 ELSE 1)
    /\ \A i \in 1..Len(file) : file[i] = i
    /\ relay.seq <= Len(file)

OnceOf(s) == LinkOf(s) /\ (~flawed => CountOf(s) /\ (s = relay.at => WireOf(s)))
OnceInv == (\A s \in Streams : OnceOf(s)) /\ (~flawed => FileInv)

(* Nothing is handed out at first.                                         *)
LEMMA OnceInit ==
    ASSUME LogPipelineAssumption, Init
    PROVE  OnceInv
  <1>1. /\ \A s \in Streams : stream[s] = NoStream
        /\ guest.todo = {} /\ relay.at = None /\ file = <<>>
        /\ relay.pc = "receive" /\ relay.seq = 0 /\ relay.counted = 0
    BY DEF Init
  <1>2. FileInv
    BY <1>1 DEF FileInv
  <1>3. ASSUME NEW s \in Streams PROVE OnceOf(s)
    <2>1. /\ stream[s].reader = "none" /\ stream[s].server = "none" /\ stream[s].got = <<>>
          /\ s # relay.at /\ s \notin guest.todo
      BY <1>1, LogPipelineAssumption DEF NoStream, LogPipelineAssumption
    <2> QED BY <2>1 DEF OnceOf, LinkOf, CountOf
  <1> QED BY <1>2, <1>3 DEF OnceInv

(* A connection that a step leaves alone.                                  *)
LEMMA OnceKept ==
    ASSUME NEW s \in Streams, OnceOf(s), stream'[s] = stream[s], flawed => flawed',
           guest'.lines = guest.lines, Pending(s)' = Pending(s),
           s \in guest'.todo => s \in guest.todo,
           relay'.at = relay.at, relay'.seq = relay.seq
    PROVE  OnceOf(s)'
  BY DEF OnceOf, LinkOf, CountOf, WireOf

(* A step in the guest on one connection needs a look at that one only.    *)
LEMMA OnceOne ==
    ASSUME OnceInv, NEW s \in Streams, flawed => flawed',
           \A t \in Streams \ {s} : stream'[t] = stream[t],
           guest'.lines = guest.lines, guest'.writer = guest.writer,
           guest'.todo = guest.todo \/ guest'.todo = guest.todo \ {s},
           relay' = relay, file' = file, OnceOf(s)'
    PROVE  OnceInv'
  <1>1. ASSUME NEW t \in Streams \ {s} PROVE OnceOf(t)'
    BY <1>1, OnceKept DEF OnceInv, Pending
  <1>2. ~flawed' => FileInv'
    BY DEF OnceInv, FileInv
  <1> QED BY <1>1, <1>2 DEF OnceInv

(* A line goes to the server.                                              *)
LEMMA OnceGives ==
    ASSUME LogPipelineAssumption, TypeOK, InHand, OnceInv, NEW s \in Streams,
           HandleEntry(s) \/ ReadHistoricalLog(s)
    PROVE  OnceInv'
  <1>0. /\ stream \in [Streams -> StreamState] /\ guest \in GuestState /\ OnceOf(s)
        /\ relay' = relay /\ file' = file /\ flawed' = flawed
        /\ guest.lines \in Nat /\ relay \in RelayState
    BY LogPipelineAssumption
    DEF TypeOK, OnceInv, HandleEntry, ReadHistoricalLog, LogPipelineAssumption, GuestState
  <1> DEFINE line == IF HandleEntry(s) THEN guest.lines ELSE stream[s].pos + 1
             new == [stream[s] EXCEPT
                       !.server = "sending", !.holding = line, !.got = Append(@, line),
                       !.pos = IF stream[s].reader = "live" THEN @ ELSE line]
  <1>1. Give(s, line)
    BY DEF HandleEntry, ReadHistoricalLog
  <1>2. stream' = [stream EXCEPT ![s] = new] /\ stream[s].server = "receiving"
    BY <1>1 DEF Give
  <1>3. /\ new.server = "sending" /\ new.holding = line /\ new.got = Append(stream[s].got, line)
        /\ new.reader = stream[s].reader /\ new.link = stream[s].link
        /\ new.wire = stream[s].wire
        /\ stream[s].reader # "live" => new.pos = line
    BY <1>0 DEF StreamState
  <1>4. stream'[s] = new /\ \A t \in Streams \ {s} : stream'[t] = stream[t]
    BY <1>0, <1>2
  <1>5. /\ guest'.lines = guest.lines /\ guest'.writer = guest.writer
        /\ \/ HandleEntry(s) /\ guest'.todo = guest.todo \ {s}
           \/ ~HandleEntry(s) /\ ReadHistoricalLog(s) /\ guest'.todo = guest.todo
    BY <1>0 DEF HandleEntry, ReadHistoricalLog, GuestState
  <1>6. /\ Len(stream[s].got) \in Nat /\ stream[s].got \in Seq(Nat) /\ stream[s].pos \in Nat
        /\ relay.seq \in Nat /\ Len(stream[s].wire) \in Nat
    BY <1>0, LinesAreNumbers DEF StreamState, RelayState
  <1> HIDE DEF line, new
  <1>7. LinkOf(s)'
    BY <1>0, <1>2, <1>3, <1>4, <1>5 DEF OnceOf, LinkOf
  <1>8. ASSUME ~flawed PROVE line = Len(stream[s].got) + 1 /\ CountOf(s)'
    <2>1. CountOf(s) /\ LinkOf(s)
      BY <1>0, <1>8 DEF OnceOf
    <2>2. CASE HandleEntry(s)
      <3>1. s \in guest.todo /\ guest.writer = "sending" /\ line = guest.lines
        BY <2>2 DEF HandleEntry, Locked, line
      <3>2. stream[s].reader = "live" /\ Pending(s)
        BY <2>1, <3>1 DEF LinkOf, Pending
      <3>3. guest.lines = Len(stream[s].got) + 1
        BY <1>2, <2>1, <3>2 DEF CountOf
      <3>4. ~Pending(s)'
        BY <1>5, <2>2, <3>1 DEF Pending
      <3>5. /\ Len(new.got) = Len(stream[s].got) + 1
            /\ \A i \in 1..Len(new.got) : new.got[i] = i
        BY <1>2, <1>3, <1>6, <2>1, <3>1, <3>3 DEF CountOf
      <3>6. (stream'[s].reader = "live") /\ stream'[s].got = new.got
        BY <1>3, <1>4, <3>2
      <3>7. guest'.lines = Len(new.got) + 0
        BY <1>5, <1>6, <3>3, <3>5
      <3>8. CountOf(s)'
        BY <3>4, <3>5, <3>6, <3>7 DEF CountOf
      <3> QED BY <3>1, <3>3, <3>8
    <2>3. CASE ~HandleEntry(s)
      <3>1. stream[s].reader = "history" /\ line = stream[s].pos + 1
        BY <1>5, <2>3 DEF ReadHistoricalLog, line
      <3>2. Len(stream[s].got) = stream[s].pos
        BY <1>2, <2>1, <3>1 DEF CountOf
      <3>3. /\ Len(new.got) = Len(stream[s].got) + 1
            /\ \A i \in 1..Len(new.got) : new.got[i] = i
        BY <1>2, <1>3, <1>6, <2>1, <3>1, <3>2 DEF CountOf
      <3> QED BY <1>3, <1>4, <3>1, <3>2, <3>3 DEF CountOf
    <2> QED BY <2>2, <2>3
  <1>9. ASSUME ~flawed, s = relay.at PROVE WireOf(s)'
    <2>1. WireOf(s)
      BY <1>0, <1>9 DEF OnceOf
    <2>2. Len(new.got) = Len(stream[s].got) + 1
      BY <1>3, <1>6, <1>8, <1>9
    <2>3. line = Len(stream[s].got) + 1
      BY <1>8, <1>9
    <2>4. relay'.seq = relay.seq /\ stream'[s] = new
      BY <1>0, <1>4
    <2>5. ASSUME new.link = "open"
          PROVE  Len(new.got) = relay.seq + Len(new.wire) + 1 /\ new.holding = Len(new.got)
      <3>1. Len(stream[s].got) = relay.seq + Len(stream[s].wire) + 0
        BY <1>2, <1>3, <2>1, <2>5 DEF WireOf
      <3> QED BY <1>3, <1>6, <2>2, <2>3, <3>1
    <2>6. \A i \in 1..Len(new.wire) : new.wire[i] = relay.seq + i
      BY <1>3, <2>1 DEF WireOf
    <2> QED BY <1>3, <2>4, <2>5, <2>6 DEF WireOf
  <1>10. OnceOf(s)'
    BY <1>0, <1>7, <1>8, <1>9 DEF OnceOf
  <1> QED BY <1>0, <1>4, <1>5, <1>10, OnceOne

(* A reader goes on, or its connection breaks: it got nothing new.         *)
LEMMA OnceTurns ==
    ASSUME LogPipelineAssumption, TypeOK, InHand, OnceInv, NEW s \in Streams,
           HistoryEnds(s) \/ AddHandler(s) \/ Unsubscribe(s) \/ Break(s)
    PROVE  OnceInv'
  <1>0. /\ stream \in [Streams -> StreamState] /\ guest \in GuestState /\ OnceOf(s)
        /\ relay' = relay /\ file' = file /\ guest' = guest
        /\ flawed => flawed'
        /\ guest.lines \in Nat
    BY LogPipelineAssumption
    DEF TypeOK, OnceInv, HistoryEnds, AddHandler, Unsubscribe, Break,
        LogPipelineAssumption, GuestState
  <1>1. PICK new \in StreamState :
          /\ stream' = [stream EXCEPT ![s] = new]
          /\ new = [stream[s] EXCEPT !.reader = new.reader, !.link = new.link]
          /\ \/ /\ stream[s].reader = "history" /\ new.reader = "attaching"
                /\ new.link = stream[s].link
             \/ /\ stream[s].reader = "attaching" /\ new.reader = "live" /\ AddHandler(s)
                /\ new.link = stream[s].link
             \/ /\ stream[s].reader \in {"history", "live"} /\ new.reader = "done"
                /\ new.link = stream[s].link /\ stream[s].link = "broken"
                /\ stream[s].reader = "live" => ~Locked
             \/ /\ new.reader = stream[s].reader /\ new.link = "broken"
    <2>1. stream[s] \in StreamState
      BY <1>0
    <2>2. \A r \in {"attaching", "live", "done"} :
            LET n == [stream[s] EXCEPT !.reader = r]
            IN  /\ n \in StreamState /\ n.reader = r /\ n.link = stream[s].link
                /\ n = [stream[s] EXCEPT !.reader = n.reader, !.link = n.link]
      BY <2>1 DEF StreamState
    <2>3. LET n == [stream[s] EXCEPT !.link = "broken"]
          IN  /\ n \in StreamState /\ n.reader = stream[s].reader /\ n.link = "broken"
              /\ n = [stream[s] EXCEPT !.reader = n.reader, !.link = n.link]
      BY <2>1 DEF StreamState
    <2>4. CASE Break(s)
      <3>1. stream' = [stream EXCEPT ![s] = [stream[s] EXCEPT !.link = "broken"]]
        BY <2>4 DEF Break
      <3> QED BY <2>3, <3>1
    <2>5. CASE AddHandler(s)
      <3>1. stream' = [stream EXCEPT ![s] = [stream[s] EXCEPT !.reader = "live"]]
            /\ stream[s].reader = "attaching"
        BY <2>5 DEF AddHandler
      <3> QED BY <2>2, <2>5, <3>1
    <2>6. CASE Unsubscribe(s)
      <3>1. stream' = [stream EXCEPT ![s] = [stream[s] EXCEPT !.reader = "done"]]
            /\ stream[s].reader = "live" /\ stream[s].link = "broken" /\ ~Locked
        BY <2>6 DEF Unsubscribe, Cancelled
      <3> QED BY <2>2, <3>1
    <2>7. CASE HistoryEnds(s)
      <3>1. stream[s].reader = "history"
            /\ \/ stream' = [stream EXCEPT ![s] = [stream[s] EXCEPT !.reader = "attaching"]]
               \/ /\ stream' = [stream EXCEPT ![s] = [stream[s] EXCEPT !.reader = "done"]]
                  /\ stream[s].link = "broken"
        BY <2>7 DEF HistoryEnds, Cancelled
      <3> QED BY <2>2, <3>1
    <2> QED BY <2>4, <2>5, <2>6, <2>7
  <1>2. /\ new.pos = stream[s].pos /\ new.server = stream[s].server
        /\ new.holding = stream[s].holding /\ new.wire = stream[s].wire
        /\ new.got = stream[s].got
    <2>1. stream[s] \in StreamState
      BY <1>0
    <2> QED BY <1>1, <2>1 DEF StreamState
  <1>3. stream'[s] = new /\ \A t \in Streams \ {s} : stream'[t] = stream[t]
    BY <1>0, <1>1
  <1>4. Len(stream[s].got) \in Nat
    BY LinesAreNumbers
  <1>5. LinkOf(s)'
    <2>1. s \in guest.todo => Locked
      BY DEF InHand, Locked
    <2>2. LinkOf(s)
      BY <1>0 DEF OnceOf
    <2> QED BY <1>0, <1>1, <1>2, <1>3, <2>1, <2>2 DEF LinkOf
  <1>6. ASSUME ~flawed' PROVE CountOf(s)'
    <2>1. CountOf(s) /\ Pending(s)' = Pending(s)
      BY <1>0, <1>6 DEF OnceOf, Pending
    <2>2. CASE stream[s].reader = "attaching" /\ new.reader = "live" /\ AddHandler(s)
      <3>1. ~(stream[s].pos < guest.lines) /\ guest.writer # "written" /\ ~Locked
        BY <1>6, <2>2 DEF AddHandler
      <3>2. ~Pending(s)
        BY <3>1 DEF Pending, InHand, Locked
      <3>3. stream[s].pos \in Nat /\ stream[s].pos <= guest.lines
        BY <1>0 DEF TypeOK, StreamState
      <3>4. stream[s].pos = guest.lines
        BY <1>0, <3>1, <3>3
      <3> QED BY <1>0, <1>2, <1>3, <1>4, <2>1, <2>2, <3>2, <3>4 DEF CountOf
    <2>3. CASE ~(stream[s].reader = "attaching" /\ new.reader = "live" /\ AddHandler(s))
      BY <1>0, <1>1, <1>2, <1>3, <2>1, <2>3 DEF CountOf
    <2> QED BY <2>2, <2>3
  <1>7. ASSUME ~flawed', s = relay.at PROVE WireOf(s)'
    <2>1. WireOf(s)
      BY <1>0, <1>7 DEF OnceOf
    <2> QED BY <1>0, <1>1, <1>2, <1>3, <2>1 DEF WireOf
  <1>8. OnceOf(s)'
    BY <1>0, <1>5, <1>6, <1>7 DEF OnceOf
  <1> QED BY <1>0, <1>3, <1>8, OnceOne

(* The server sends its line on, or returns.                               *)
LEMMA OnceServes ==
    ASSUME LogPipelineAssumption, TypeOK, InHand, OnceInv, NEW s \in Streams,
           ServerSend(s) \/ ServerReturns(s)
    PROVE  OnceInv'
  <1>0. /\ stream \in [Streams -> StreamState] /\ guest \in GuestState /\ OnceOf(s)
        /\ relay' = relay /\ file' = file /\ guest' = guest /\ flawed' = flawed
        /\ relay \in RelayState
    BY LogPipelineAssumption DEF TypeOK, OnceInv, ServerSend, ServerReturns
  <1>1. /\ stream[s].got \in Seq(Line) /\ Len(stream[s].got) \in Nat
        /\ stream[s].wire \in Seq(Line) /\ Len(stream[s].wire) \in Nat
        /\ relay.seq \in Nat /\ stream[s] \in StreamState
    BY <1>0 DEF StreamState, RelayState
  <1>2. LinkOf(s) /\ (stream[s].server \in {"sending", "receiving"} =>
                        stream[s].reader # "none")
    BY <1>0 DEF OnceOf, LinkOf
  <1>3. CASE stream' = [stream EXCEPT ![s] = Returned(s)] /\ stream[s].link = "broken"
    <2>1. /\ stream'[s].server = "gone" /\ stream'[s].link = "broken"
          /\ stream'[s].reader = stream[s].reader /\ stream'[s].wire = stream[s].wire
          /\ \A t \in Streams \ {s} : stream'[t] = stream[t]
      BY <1>0, <1>3 DEF Returned, NoStream
    <2>2. LinkOf(s)'
      BY <1>0, <1>2, <1>3, <2>1 DEF LinkOf, ServerSend, ServerReturns
    <2>4. CountOf(s)'
      BY <2>1 DEF CountOf
    <2>5. WireOf(s) => WireOf(s)'
      BY <1>0, <2>1 DEF WireOf
    <2>6. OnceOf(s)'
      BY <1>0, <2>2, <2>4, <2>5 DEF OnceOf
    <2> QED BY <1>0, <2>1, <2>6, OnceOne
  <1>4. CASE /\ stream[s].server = "sending" /\ stream[s].link = "broken"
             /\ stream' = [stream EXCEPT ![s].server = "receiving", ![s].holding = 0]
    <2> DEFINE new == [stream[s] EXCEPT !.server = "receiving", !.holding = 0]
    <2>1. stream' = [stream EXCEPT ![s] = new]
      BY <1>4
    <2>2. /\ new.server = "receiving" /\ new.link = "broken"
          /\ new.reader = stream[s].reader /\ new.wire = stream[s].wire
          /\ new.got = stream[s].got /\ new.pos = stream[s].pos
      BY <1>1, <1>4 DEF StreamState
    <2> HIDE DEF new
    <2>3. stream'[s] = new /\ \A t \in Streams \ {s} : stream'[t] = stream[t]
      BY <1>0, <2>1
    <2>4. LinkOf(s)'
      BY <1>0, <1>2, <1>4, <2>2, <2>3 DEF LinkOf
    <2>5. CountOf(s) => CountOf(s)'
      <3>1. Pending(s)' = Pending(s)
        BY <1>0 DEF Pending
      <3> QED BY <1>0, <1>4, <2>2, <2>3, <3>1 DEF CountOf
    <2>6. WireOf(s) => WireOf(s)'
      BY <1>0, <2>2, <2>3 DEF WireOf
    <2>7. OnceOf(s)'
      BY <1>0, <2>4, <2>5, <2>6 DEF OnceOf
    <2> QED BY <1>0, <2>3, <2>7, OnceOne
  <1>5. CASE /\ stream[s].server = "sending" /\ stream[s].link = "open"
             /\ stream' = [stream EXCEPT ![s].server = "receiving", ![s].holding = 0,
                             ![s].wire = Append(@, stream[s].holding)]
    <2> DEFINE line == stream[s].holding
               new == [stream[s] EXCEPT !.server = "receiving", !.holding = 0,
                                        !.wire = Append(@, line)]
    <2>1. stream' = [stream EXCEPT ![s] = new]
      BY <1>5
    <2>2. /\ new.server = "receiving" /\ new.link = "open"
          /\ new.reader = stream[s].reader /\ new.wire = Append(stream[s].wire, line)
          /\ new.got = stream[s].got /\ new.pos = stream[s].pos
      BY <1>1, <1>5 DEF StreamState
    <2> HIDE DEF new, line
    <2>3. stream'[s] = new /\ \A t \in Streams \ {s} : stream'[t] = stream[t]
      BY <1>0, <2>1
    <2>4. LinkOf(s)'
      BY <1>0, <1>2, <1>5, <2>2, <2>3 DEF LinkOf
    <2>5. CountOf(s) => CountOf(s)'
      <3>1. Pending(s)' = Pending(s)
        BY <1>0 DEF Pending
      <3> QED BY <1>0, <1>5, <2>2, <2>3, <3>1 DEF CountOf
    <2>6. ASSUME WireOf(s) PROVE WireOf(s)'
      <3>1. /\ Len(stream[s].got) = relay.seq + Len(stream[s].wire) + 1
            /\ line = Len(stream[s].got)
        BY <1>5, <2>6 DEF WireOf, line
      <3>2. line \in Line
        BY <1>5 DEF InHand, line
      <3>3. /\ Len(new.wire) = Len(stream[s].wire) + 1
            /\ new.wire[Len(stream[s].wire) + 1] = line
            /\ \A i \in 1..Len(stream[s].wire) : new.wire[i] = stream[s].wire[i]
        <4>1. stream[s].wire \in Seq(Line)
          BY <1>1 DEF StreamState
        <4>2. /\ Len(Append(stream[s].wire, line)) = Len(stream[s].wire) + 1
              /\ Append(stream[s].wire, line)[Len(stream[s].wire) + 1] = line
              /\ \A i \in 1..Len(stream[s].wire) :
                   Append(stream[s].wire, line)[i] = stream[s].wire[i]
          BY <3>2, <4>1
        <4> QED BY <2>2, <4>2
      <3>4. line = relay.seq + (Len(stream[s].wire) + 1)
        BY <1>1, <3>1
      <3>5. \A i \in 1..Len(new.wire) : new.wire[i] = relay.seq + i
        <4>1. ASSUME NEW i \in 1..Len(stream[s].wire) PROVE new.wire[i] = relay.seq + i
          BY <2>6, <3>3, <4>1 DEF WireOf
        <4> DEFINE n == Len(stream[s].wire)
        <4>2. /\ Len(new.wire) = n + 1 /\ n \in Nat
              /\ new.wire[n + 1] = relay.seq + (n + 1)
          BY <1>1, <3>3, <3>4
        <4> HIDE DEF n
        <4>3. \A i \in 1..(n + 1) : i \in 1..n \/ i = n + 1
          BY <4>2
        <4>4. \A i \in 1..n : new.wire[i] = relay.seq + i
          BY <4>1 DEF n
        <4> QED BY <4>2, <4>3, <4>4
      <3>6. Len(new.got) = relay.seq + Len(new.wire) + 0
        <4>1. new.got = stream[s].got
          BY <2>2
        <4>2. \A a, b, c \in Nat : a = b + c + 1 => a = b + (c + 1) + 0
          OBVIOUS
        <4> QED BY <1>1, <3>1, <3>3, <4>1, <4>2
      <3> QED BY <1>0, <2>2, <2>3, <3>5, <3>6 DEF WireOf
    <2>7. OnceOf(s)'
      BY <1>0, <2>4, <2>5, <2>6 DEF OnceOf
    <2> QED BY <1>0, <2>3, <2>7, OnceOne
  <1>6. ServerReturns(s) => stream[s].link = "broken"
    BY <1>2 DEF LinkOf, ServerReturns
  <1> QED BY <1>3, <1>4, <1>5, <1>6 DEF ServerSend, ServerReturns

(* The service's writer.                                                   *)
LEMMA OnceWriter ==
    ASSUME LogPipelineAssumption, TypeOK, InHand, OnceInv,
           WriteLine \/ LockHandlers \/ Unlock
    PROVE  OnceInv'
  <1>0. /\ stream' = stream /\ relay' = relay /\ file' = file /\ flawed' = flawed
        /\ guest \in GuestState /\ guest.lines \in Nat
    BY LogPipelineAssumption
    DEF TypeOK, WriteLine, LockHandlers, Unlock, GuestState, LogPipelineAssumption
  <1>1. ASSUME NEW s \in Streams PROVE OnceOf(s)'
    <2>0. OnceOf(s) /\ Len(stream[s].got) \in Nat
      BY LinesAreNumbers DEF OnceInv, TypeOK, StreamState
    <2>1. CASE WriteLine
      <3>1. /\ guest'.lines = guest.lines + 1 /\ guest'.todo = guest.todo
            /\ guest'.writer = "written" /\ guest.writer = "idle" /\ guest.todo = {}
        BY <1>0, <2>1 DEF WriteLine, GuestState, InHand
      <3>2. ~Pending(s) /\ Pending(s)'
        BY <3>1 DEF Pending
      <3>3. LinkOf(s)'
        BY <1>0, <2>0, <3>1 DEF OnceOf, LinkOf
      <3>4. CountOf(s) => CountOf(s)'
        BY <1>0, <2>0, <3>1, <3>2 DEF CountOf
      <3>5. WireOf(s) => WireOf(s)'
        BY <1>0 DEF WireOf
      <3> QED BY <1>0, <2>0, <3>3, <3>4, <3>5 DEF OnceOf
    <2>2. CASE LockHandlers
      <3>1. /\ guest'.lines = guest.lines /\ guest'.todo = Handlers
            /\ guest.writer = "written"
        BY <1>0, <2>2 DEF LockHandlers, GuestState
      <3>2. stream[s].reader = "live" => Pending(s) /\ Pending(s)'
        BY <3>1 DEF Pending, Handlers
      <3>3. LinkOf(s)'
        BY <1>0, <2>0, <3>1 DEF OnceOf, LinkOf, Handlers
      <3>4. CountOf(s) => CountOf(s)'
        BY <1>0, <2>0, <3>1, <3>2 DEF CountOf
      <3>5. WireOf(s) => WireOf(s)'
        BY <1>0 DEF WireOf
      <3> QED BY <1>0, <2>0, <3>3, <3>4, <3>5 DEF OnceOf
    <2>3. CASE Unlock
      <3>1. /\ guest'.lines = guest.lines /\ guest'.todo = guest.todo
            /\ guest.writer = "sending" /\ guest'.writer = "idle"
        BY <1>0, <2>3 DEF Unlock, GuestState, Locked
      <3>2. Pending(s)' = Pending(s)
        BY <3>1 DEF Pending
      <3> QED BY <1>0, <2>0, <3>1, <3>2, OnceKept
    <2> QED BY <2>1, <2>2, <2>3
  <1>2. ~flawed' => FileInv'
    BY <1>0 DEF OnceInv, FileInv
  <1> QED BY <1>1, <1>2 DEF OnceInv

(* A new connection: nothing was counted on it yet.                        *)
LEMMA OnceConnects ==
    ASSUME LogPipelineAssumption, TypeOK, InHand, OnceInv, NEW s \in Streams, Connect(s)
    PROVE  OnceInv'
  <1>0. /\ stream \in [Streams -> StreamState] /\ relay \in RelayState
        /\ guest' = guest /\ file' = file /\ flawed' = flawed
        /\ relay.at = None /\ None \notin Streams /\ file \in Seq(Line)
    BY DEF TypeOK, Connect, LogPipelineAssumption
  <1> DEFINE new == [NoStream EXCEPT !.reader = "history", !.server = "receiving"]
  <1>1. /\ new.reader = "history" /\ new.server = "receiving" /\ new.got = <<>>
        /\ new.wire = <<>> /\ new.link = "open" /\ new.pos = 0
    BY DEF NoStream
  <1>2. stream' = [stream EXCEPT ![s] = new]
    BY DEF Connect
  <1> HIDE DEF new
  <1>3. stream'[s] = new /\ \A t \in Streams \ {s} : stream'[t] = stream[t]
    BY <1>0, <1>2
  <1>4. relay'.at = s /\ relay'.seq = 0 /\ relay'.pc = relay.pc /\ relay'.counted = relay.counted
    BY <1>0 DEF Connect, RelayState
  <1>5. ASSUME NEW t \in Streams \ {s} PROVE OnceOf(t)'
    <2>1. OnceOf(t) /\ t # relay.at /\ t # relay'.at
      BY <1>0, <1>4 DEF OnceInv
    <2>2. LinkOf(t)'
      BY <1>0, <1>3, <2>1 DEF OnceOf, LinkOf
    <2>3. CountOf(t) => CountOf(t)'
      <3>1. Pending(t)' = Pending(t)
        BY <1>0 DEF Pending
      <3> QED BY <1>0, <1>3, <3>1 DEF CountOf
    <2> QED BY <1>0, <2>1, <2>2, <2>3 DEF OnceOf
  <1>6. OnceOf(s)'
    <2>1. s \notin guest.todo
      <3>1. OnceOf(s)
        BY DEF OnceInv
      <3> QED BY <3>1 DEF OnceOf, LinkOf, Connect, Free
    <2>2. LinkOf(s)'
      BY <1>0, <1>1, <1>3, <1>4, <2>1 DEF LinkOf
    <2>a. Len(new.got) = 0 /\ Len(new.wire) = 0 /\ 1..0 = {}
      BY <1>1
    <2>3. CountOf(s)'
      BY <1>1, <1>3, <2>a DEF CountOf
    <2>4. WireOf(s)'
      <3>1. Len(new.got) = 0 + Len(new.wire) + 0
        BY <2>a
      <3> QED BY <1>1, <1>3, <1>4, <2>a, <3>1 DEF WireOf
    <2> QED BY <2>2, <2>3, <2>4 DEF OnceOf
  <1>7. ~flawed' => FileInv'
    <2>1. Len(file) \in Nat
      BY <1>0
    <2> QED BY <1>0, <1>4, <2>1 DEF OnceInv, FileInv
  <1> QED BY <1>5, <1>6, <1>7 DEF OnceInv

(* A change of the lines under way on the connection in use.               *)
LEMMA OnceWire ==
    ASSUME TypeOK, OnceInv, NEW c \in Streams, c = relay.at, NEW wire \in Seq(Line),
           stream' = [stream EXCEPT ![c].wire = wire],
           guest' = guest, flawed => flawed', relay'.at \in {c, None},
           None \notin Streams,
           relay'.at = None => stream[c].link = "broken",
           ~flawed' /\ relay'.at # None => WireOf(c)'
    PROVE  \A s \in Streams : OnceOf(s)'
  <1>1. /\ stream \in [Streams -> StreamState] /\ stream[c] \in StreamState
    BY DEF TypeOK
  <1> DEFINE new == [stream[c] EXCEPT !.wire = wire]
  <1>2. /\ stream' = [stream EXCEPT ![c] = new]
        /\ new.reader = stream[c].reader /\ new.server = stream[c].server
        /\ new.got = stream[c].got /\ new.pos = stream[c].pos
        /\ new.link = stream[c].link
    BY <1>1 DEF StreamState
  <1> HIDE DEF new
  <1>3. ASSUME NEW s \in Streams PROVE OnceOf(s)'
    <2>1. /\ stream'[s].reader = stream[s].reader /\ stream'[s].server = stream[s].server
          /\ stream'[s].got = stream[s].got /\ stream'[s].pos = stream[s].pos
          /\ stream'[s].link = stream[s].link
      BY <1>1, <1>2
    <2>2. OnceOf(s) /\ Pending(s)' = Pending(s)
      BY DEF OnceInv, Pending
    <2>3. LinkOf(s)'
      BY <2>1, <2>2 DEF OnceOf, LinkOf
    <2>4. CountOf(s) => CountOf(s)'
      BY <2>1, <2>2 DEF CountOf
    <2>5. s = relay'.at => s = c /\ relay'.at # None
      OBVIOUS
    <2> QED BY <2>2, <2>3, <2>4, <2>5 DEF OnceOf
  <1> QED BY <1>3

(* The relay takes a line off the connection.                              *)
LEMMA OnceReceives ==
    ASSUME LogPipelineAssumption, TypeOK, InHand, OnceInv, Receive
    PROVE  OnceInv'
  <1>a. PICK s \in Streams : s = relay.at
    BY DEF TypeOK, Receive, RelayState
  <1> DEFINE line == Head(stream[s].wire)
             rest == Tail(stream[s].wire)
             next == [relay EXCEPT !.seq = @ + 1]
  <1>0. /\ stream \in [Streams -> StreamState] /\ relay \in RelayState
        /\ guest' = guest /\ file \in Seq(Line) /\ s = relay.at /\ None \notin Streams
        /\ relay.pc = "receive" /\ flawed \in BOOLEAN
    BY <1>a DEF TypeOK, Receive, LogPipelineAssumption, RelayState
  <1>1. /\ stream[s].wire \in Seq(Line) /\ stream[s].wire # <<>>
        /\ stream' = [stream EXCEPT ![s].wire = rest]
    BY <1>0 DEF Receive, StreamState, WriteLog
  <1>2. /\ rest \in Seq(Line) /\ line = stream[s].wire[1] /\ line \in Line
        /\ Len(stream[s].wire) = Len(rest) + 1 /\ Len(rest) \in Nat
        /\ \A i \in 1..Len(rest) : rest[i] = stream[s].wire[i + 1]
    BY <1>1
  <1>3. /\ next.at = s /\ next.seq = relay.seq + 1 /\ next.pc = "receive"
        /\ next.counted = relay.counted /\ relay.seq \in Nat /\ relay.counted \in Nat
        /\ next \in RelayState
    BY <1>0 DEF RelayState
  <1>4. \/ AlreadySeen /\ relay' = next /\ UNCHANGED <<file, flawed>>
        \/ /\ ~AlreadySeen /\ relay' = [next EXCEPT !.pc = "handlers"]
           /\ file' = Append(file, line) /\ UNCHANGED flawed
        \/ flawed' = TRUE /\ relay' = [next EXCEPT !.counted = @ + 1]
    BY <1>0 DEF Receive, WriteLog
  <1> HIDE DEF line, rest, next
  <1>5. relay'.at = s /\ relay'.seq = relay.seq + 1 /\ (flawed => flawed')
    BY <1>0, <1>3, <1>4 DEF RelayState
  <1>6. ~flawed' => WireOf(s)'
    <2> SUFFICES ASSUME ~flawed' PROVE WireOf(s)'
      OBVIOUS
    <2>1. WireOf(s) /\ stream[s] \in StreamState /\ Len(stream[s].got) \in Nat
      BY <1>0, <1>5 DEF OnceInv, OnceOf, StreamState
    <2> DEFINE new == [stream[s] EXCEPT !.wire = rest]
    <2>2. /\ stream'[s] = new /\ new.wire = rest /\ new.got = stream[s].got
          /\ new.server = stream[s].server /\ new.link = stream[s].link
          /\ new.holding = stream[s].holding
      BY <1>0, <1>1, <2>1 DEF StreamState
    <2> HIDE DEF new
    <2>3. \A i \in 1..Len(rest) : rest[i] = (relay.seq + 1) + i
      <3>1. ASSUME NEW i \in 1..Len(rest) PROVE rest[i] = (relay.seq + 1) + i
        <4>1. i + 1 \in 1..Len(stream[s].wire) /\ rest[i] = stream[s].wire[i + 1]
          BY <1>2
        <4>2. stream[s].wire[i + 1] = relay.seq + (i + 1)
          BY <2>1, <4>1 DEF WireOf
        <4>3. i \in Nat
          BY <1>2
        <4>4. \A a, b \in Nat : a + (b + 1) = (a + 1) + b
          OBVIOUS
        <4> QED BY <1>3, <4>1, <4>2, <4>3, <4>4
      <3> QED BY <3>1
    <2>5. ASSUME new.link = "open", NEW held \in {0, 1},
                 Len(new.got) = relay.seq + Len(stream[s].wire) + held
          PROVE  Len(new.got) = (relay.seq + 1) + Len(new.wire) + held
      <3>1. Len(new.got) = relay.seq + (Len(rest) + 1) + held
        BY <1>2, <2>5
      <3>2. \A a, b \in Nat : a + (b + 1) + held = (a + 1) + b + held
        OBVIOUS
      <3> QED BY <1>2, <1>3, <2>2, <3>1, <3>2
    <2>6. new.link = "open" /\ new.server = "sending" => new.holding = Len(new.got)
      BY <2>1, <2>2 DEF WireOf
    <2>7. CASE new.server = "sending"
      <3>1. new.link = "open" => Len(new.got) = (relay.seq + 1) + Len(new.wire) + 1
        BY <2>1, <2>2, <2>5, <2>7 DEF WireOf
      <3> QED BY <1>5, <2>2, <2>3, <2>6, <2>7, <3>1 DEF WireOf
    <2>8. CASE new.server # "sending"
      <3>1. new.link = "open" => Len(new.got) = (relay.seq + 1) + Len(new.wire) + 0
        BY <2>1, <2>2, <2>5, <2>8 DEF WireOf
      <3> QED BY <1>5, <2>2, <2>3, <2>8, <3>1 DEF WireOf
    <2> QED BY <2>7, <2>8
  <1>7. \A t \in Streams : OnceOf(t)'
    BY <1>0, <1>1, <1>2, <1>5, <1>6, OnceWire
  <1>8. ASSUME ~flawed' PROVE FileInv'
    <2>1. /\ Len(file) = relay.counted + 0 /\ relay.seq <= Len(file)
          /\ \A i \in 1..Len(file) : file[i] = i
      BY <1>0, <1>5, <1>8 DEF OnceInv, FileInv
    <2>2. line = relay.seq + 1
      <3>1. WireOf(s)
        BY <1>0, <1>5, <1>8 DEF OnceInv, OnceOf
      <3>2. 1 \in 1..Len(stream[s].wire)
        BY <1>2
      <3> QED BY <1>2, <3>1, <3>2 DEF WireOf
    <2>3. CASE AlreadySeen /\ relay' = next /\ file' = file
      BY <1>0, <1>3, <2>1, <2>3 DEF AlreadySeen, FileInv
    <2>4. CASE /\ ~AlreadySeen /\ relay' = [next EXCEPT !.pc = "handlers"]
               /\ file' = Append(file, line)
      <3>1. relay.seq = Len(file) /\ line = Len(file) + 1 /\ Len(file) \in Nat
        BY <1>0, <1>3, <2>1, <2>2, <2>4 DEF AlreadySeen
      <3>2. /\ Len(file') = Len(file) + 1 /\ file'[Len(file) + 1] = line
            /\ \A i \in 1..Len(file) : file'[i] = file[i]
        BY <1>0, <1>2, <2>4
      <3>3. relay'.pc = "handlers" /\ relay'.counted = relay.counted
            /\ relay'.seq = relay.seq + 1
        BY <1>3, <2>4 DEF RelayState
      <3>4. \A i \in 1..Len(file') : file'[i] = i
        BY <2>1, <3>1, <3>2
      <3>5. /\ Len(file') = relay'.counted + 1 /\ relay'.seq <= Len(file')
        BY <1>3, <2>1, <3>1, <3>2, <3>3
      <3> QED BY <3>3, <3>4, <3>5 DEF FileInv
    <2> QED BY <1>4, <1>8, <2>3, <2>4
  <1> QED BY <1>7, <1>8 DEF OnceInv

(* The relay closes a broken connection.                                   *)
LEMMA OnceOver ==
    ASSUME LogPipelineAssumption, TypeOK, InHand, OnceInv, StreamOver
    PROVE  OnceInv'
  <1>a. PICK s \in Streams : s = relay.at
    BY DEF TypeOK, StreamOver, RelayState
  <1>0. /\ relay \in RelayState /\ s = relay.at /\ None \notin Streams
        /\ <<>> \in Seq(Line) /\ guest' = guest /\ flawed' = flawed /\ file' = file
        /\ stream' = [stream EXCEPT ![s].wire = <<>>]
        /\ stream[s].link = "broken"
    BY <1>a DEF TypeOK, StreamOver, RelayState, LogPipelineAssumption
  <1>1. /\ relay'.at = None /\ relay'.seq = relay.seq /\ relay'.pc = relay.pc
        /\ relay'.counted = relay.counted
    BY <1>0 DEF StreamOver, RelayState
  <1>2. \A t \in Streams : OnceOf(t)'
    BY <1>0, <1>1, OnceWire
  <1>3. ~flawed' => FileInv'
    BY <1>0, <1>1 DEF OnceInv, FileInv
  <1> QED BY <1>2, <1>3 DEF OnceInv

(* The relay hands a line to its handlers and counts it; and the requests. *)
LEMMA OnceHands ==
    ASSUME TypeOK, InHand, OnceInv,
           \/ LookUpHandlers \/ LineDone
           \/ \E f \in Followers :
                \/ HandToFollower(f) \/ Follow(f) \/ ReadLog(f) \/ EndOfLogs(f)
                \/ Attach(f) \/ SendLive(f) \/ HangUp(f) \/ Leave(f)
           \/ UNCHANGED vars
    PROVE  OnceInv'
  <1>0. /\ relay \in RelayState /\ file \in Seq(Line)
    BY DEF TypeOK
  <1>1. /\ guest' = guest /\ stream' = stream /\ file' = file /\ flawed' = flawed
    BY DEF LookUpHandlers, LineDone, HandToFollower, Follow, ReadLog, EndOfLogs, Attach,
       SendLive, HangUp, Leave, vars
  <1>2. /\ relay'.at = relay.at /\ relay'.seq = relay.seq
        /\ \/ /\ relay'.counted = relay.counted
              /\ relay'.pc = "receive" <=> relay.pc = "receive"
           \/ /\ relay.pc # "receive" /\ relay'.pc = "receive"
              /\ relay'.counted = relay.counted + 1
    <2>1. CASE LookUpHandlers
      BY <1>0, <2>1 DEF LookUpHandlers, RelayState
    <2>2. CASE LineDone
      BY <1>0, <2>2 DEF LineDone, RelayState
    <2>3. ASSUME NEW todo, relay' = [relay EXCEPT !.todo = todo]
          PROVE  /\ relay'.at = relay.at /\ relay'.seq = relay.seq
                 /\ relay'.counted = relay.counted /\ relay'.pc = relay.pc
      BY <1>0, <2>3 DEF RelayState
    <2>4. ASSUME NEW f \in Followers, HandToFollower(f)
          PROVE  \E todo : relay' = [relay EXCEPT !.todo = todo]
      BY <2>4 DEF HandToFollower
    <2>5. ASSUME NEW f \in Followers, Attach(f) \/ Leave(f)
          PROVE  relay' = relay \/ \E todo : relay' = [relay EXCEPT !.todo = todo]
      BY <2>5 DEF Attach, Leave, MapChanges
    <2>6. \/ LookUpHandlers \/ LineDone \/ relay' = relay
          \/ \E todo : relay' = [relay EXCEPT !.todo = todo]
      <3>1. ASSUME NEW f \in Followers,
                   Follow(f) \/ ReadLog(f) \/ EndOfLogs(f) \/ SendLive(f) \/ HangUp(f)
            PROVE  relay' = relay
        BY <3>1 DEF Follow, ReadLog, EndOfLogs, SendLive, HangUp
      <3>2. CASE UNCHANGED vars
        BY <3>2 DEF vars
      <3> QED BY <2>4, <2>5, <3>1, <3>2
    <2> QED BY <2>1, <2>2, <2>3, <2>6
  <1>3. ASSUME NEW s \in Streams PROVE OnceOf(s)'
    <2>1. OnceOf(s) /\ Pending(s)' = Pending(s)
      BY <1>1 DEF OnceInv, Pending
    <2> QED BY <1>1, <1>2, <2>1, OnceKept
  <1>4. ~flawed' => FileInv'
    BY <1>0, <1>1, <1>2 DEF OnceInv, FileInv, RelayState
  <1> QED BY <1>3, <1>4 DEF OnceInv

(* The runtime (log.go ListenInitLogs) numbers the lines of a connection   *)
(* and skips as many as it counted so far.  Whatever connections break at  *)
(* whatever point, the file has each line once and in order, as long as no *)
(* reader lost or doubled a line while it turned to the live ones and no   *)
(* line failed to be written.                                              *)
THEOREM OnceCorrect == Spec => []ExactlyOnce
  <1>1. Init => TypeOK /\ InHand /\ OnceInv
    BY LogPipelineAssumption, TypeInit, OnceInit
  <1>2. TypeOK /\ InHand /\ OnceInv /\ [Next]_vars => (TypeOK /\ InHand /\ OnceInv)'
    <2> SUFFICES ASSUME TypeOK, InHand, OnceInv, [Next]_vars
                 PROVE  TypeOK' /\ InHand' /\ OnceInv'
      OBVIOUS
    <2>1. TypeOK' /\ InHand'
      BY LogPipelineAssumption, TypeStep
    <2>2. OnceInv'
      BY LogPipelineAssumption, StepCases, OnceGives, OnceTurns, OnceServes, OnceWriter,
         OnceConnects, OnceReceives, OnceOver, OnceHands
    <2> QED BY <2>1, <2>2
  <1>3. TypeOK /\ OnceInv => ExactlyOnce
    BY DEF TypeOK, OnceInv, FileInv, ExactlyOnce
  <1> QED BY <1>1, <1>2, <1>3, PTL DEF Spec

-------------------------------------------------------------------------------
(* Requests to the agent: LogRequests, for any number of requests,         *)
(* containers and lines.  It is a system of its own, with its own          *)
(* variables.  The log file of its machine is called machineLog here.      *)
CONSTANTS Requests, Containers, Console
VARIABLES machine, machineLog, request, agent, reader

Api == INSTANCE LogRequests WITH file <- machineLog

(* A hand that may be empty holds line 0.  Rising lines come once each and *)
(* in order, FedLines in order with one of them twice at most.             *)
Put(lines, line) == IF line = 0 THEN lines ELSE Append(lines, line)
Rising(lines) == \A i, j \in 1..Len(lines) : i < j => lines[i] < lines[j]
UpTo(lines, n) == \A i \in 1..Len(lines) : lines[i] <= n
Holding(lines, set) ==
    /\ \A i \in 1..Len(lines) : lines[i] \in set
    /\ \A line \in set : \E i \in 1..Len(lines) : lines[i] = line
FedLines(lines) == Api!AgentFeed!InOrder(lines) /\ Api!AgentFeed!OneTwiceAtMost(lines)

(* What a line put behind others gives.                                    *)
LEMMA PutGives ==
    ASSUME NEW lines \in Seq(Nat), NEW line \in Nat
    PROVE  /\ Put(lines, line) \in Seq(Nat) /\ Len(lines) \in Nat
           /\ line = 0 => Put(lines, line) = lines
           /\ line # 0 => /\ Len(Put(lines, line)) = Len(lines) + 1
                          /\ Put(lines, line)[Len(lines) + 1] = line
                          /\ \A i \in 1..Len(lines) : Put(lines, line)[i] = lines[i]
  <1>1. /\ Append(lines, line) \in Seq(Nat) /\ Len(lines) \in Nat
        /\ Len(Append(lines, line)) = Len(lines) + 1
        /\ Append(lines, line)[Len(lines) + 1] = line
        /\ \A i \in 1..Len(lines) : Append(lines, line)[i] = lines[i]
    OBVIOUS
  <1> QED BY <1>1 DEF Put

(* FedLines, index by index.                                               *)
LEMMA FedMeans ==
    ASSUME NEW lines \in Seq(Nat)
    PROVE  FedLines(lines) <=>
             /\ \A i, j \in 1..Len(lines) : i < j => lines[i] <= lines[j]
             /\ \A i, j \in 2..Len(lines) :
                  lines[i] = lines[i - 1] /\ lines[j] = lines[j - 1] => i = j
  <1>1. DOMAIN lines = 1..Len(lines) /\ Len(lines) \in Nat
    OBVIOUS
  <1>2. \A i \in Nat : i \in 2..Len(lines) <=> i \in 1..Len(lines) /\ i > 1
    BY <1>1
  <1>3. Api!AgentFeed!InOrder(lines) <=>
          \A i, j \in 1..Len(lines) : i < j => lines[i] <= lines[j]
    BY <1>1 DEF Api!AgentFeed!InOrder
  <1>4. Api!AgentFeed!OneTwiceAtMost(lines) <=>
          \A i, j \in 2..Len(lines) :
            lines[i] = lines[i - 1] /\ lines[j] = lines[j - 1] => i = j
    <2>1. Api!AgentFeed!OneTwiceAtMost(lines) <=>
            \A i, j \in 1..Len(lines) :
              i > 1 /\ j > 1 /\ lines[i] = lines[i - 1] /\ lines[j] = lines[j - 1] => i = j
      BY <1>1 DEF Api!AgentFeed!OneTwiceAtMost
    <2> DEFINE n == Len(lines)
    <2> HIDE DEF n
    <2>2. n \in Nat /\ \A i \in 2..n : i \in 1..n /\ i > 1
      BY <1>1 DEF n
    <2>3. \A i \in 1..n : i > 1 => i \in 2..n
      BY <2>2
    <2> QED BY <2>1, <2>2, <2>3 DEF n
  <1> QED BY <1>3, <1>4 DEF FedLines

(* Lines that a reader may get are so without the last one.                *)
LEMMA FedBack ==
    ASSUME NEW lines \in Seq(Nat), NEW line \in Nat, FedLines(Put(lines, line))
    PROVE  FedLines(lines)
  <1> DEFINE new == Put(lines, line)
             n == Len(lines)
  <1>1. CASE line = 0
    BY <1>1, PutGives
  <1>2. CASE line # 0
    <2>1. /\ new \in Seq(Nat) /\ n \in Nat /\ Len(new) = n + 1
          /\ \A i \in 1..n : new[i] = lines[i]
      BY <1>2, PutGives
    <2>2. /\ \A i, j \in 1..Len(new) : i < j => new[i] <= new[j]
          /\ \A i, j \in 2..Len(new) : new[i] = new[i - 1] /\ new[j] = new[j - 1] => i = j
      BY <2>1, FedMeans
    <2> HIDE DEF new, n
    <2>3. \A i, j \in 1..n : i < j => lines[i] <= lines[j]
      BY <2>1, <2>2
    <2>4. \A i, j \in 2..n : lines[i] = lines[i - 1] /\ lines[j] = lines[j - 1] => i = j
      <3>1. \A i \in 2..n : i \in 1..n /\ i - 1 \in 1..n /\ i \in 2..Len(new)
        BY <2>1
      <3> QED BY <2>1, <2>2, <3>1
    <2> QED BY <2>3, <2>4, FedMeans DEF n
  <1> QED BY <1>1, <1>2

(* Lines each later than the one before are such lines.                    *)
LEMMA RisingFed ==
    ASSUME NEW lines \in Seq(Nat), Rising(lines)
    PROVE  FedLines(lines)
  <1> DEFINE n == Len(lines)
  <1>1. n \in Nat /\ \A i \in 1..n : lines[i] \in Nat
    OBVIOUS
  <1>2. \A i, j \in 1..n : i < j => lines[i] < lines[j]
    BY DEF Rising
  <1> HIDE DEF n
  <1>3. \A i \in 2..n : i - 1 \in 1..n /\ i \in 1..n /\ i - 1 < i
    BY <1>1
  <1>4. \A i \in 2..n : lines[i] # lines[i - 1]
    BY <1>1, <1>2, <1>3
  <1>5. \A i, j \in 1..n : i < j => lines[i] <= lines[j]
    BY <1>1, <1>2
  <1> QED BY <1>4, <1>5, FedMeans DEF n

(* One more line, later than those before it, or as late as the last.      *)
LEMMA PutNext ==
    ASSUME NEW lines \in Seq(Nat), NEW line \in Nat, line # 0,
           NEW m \in Nat, UpTo(lines, m), m < line
    PROVE  /\ Rising(lines) => Rising(Put(lines, line))
           /\ FedLines(lines) => FedLines(Put(lines, line))
           /\ UpTo(Put(lines, line), line)
  <1> DEFINE new == Put(lines, line)
             n == Len(lines)
  <1>1. /\ new \in Seq(Nat) /\ n \in Nat /\ Len(new) = n + 1 /\ new[n + 1] = line
        /\ \A i \in 1..n : new[i] = lines[i] /\ lines[i] \in Nat
    <2>1. \A i \in 1..n : lines[i] \in Nat
      OBVIOUS
    <2> QED BY <2>1, PutGives
  <1>2. \A i \in 1..n : lines[i] < line
    BY <1>1 DEF UpTo
  <1> HIDE DEF new, n
  <1>3. \A i \in 1..(n + 1) : i \in 1..n \/ i = n + 1
    BY <1>1
  <1>4. UpTo(new, line)
    BY <1>1, <1>2, <1>3 DEF UpTo
  <1>5. Rising(lines) => Rising(new)
    <2>1. SUFFICES ASSUME \A i, j \in 1..n : i < j => lines[i] < lines[j],
                          NEW i \in 1..(n + 1), NEW j \in 1..(n + 1), i < j
                   PROVE  new[i] < new[j]
      BY <1>1 DEF Rising, n
    <2>2. i \in 1..n
      BY <1>1, <2>1
    <2> QED BY <1>1, <1>2, <1>3, <2>1, <2>2
  <1>6. ASSUME FedLines(lines) PROVE FedLines(new)
    <2>1. /\ \A i, j \in 1..n : i < j => lines[i] <= lines[j]
          /\ \A i, j \in 2..n : lines[i] = lines[i - 1] /\ lines[j] = lines[j - 1] => i = j
      BY <1>6, FedMeans DEF n
    <2>2. ASSUME NEW i \in 1..(n + 1), NEW j \in 1..(n + 1), i < j PROVE new[i] <= new[j]
      <3>1. i \in 1..n
        BY <1>1, <2>2
      <3> QED BY <1>1, <1>2, <1>3, <2>1, <2>2, <3>1
    <2>3. ASSUME NEW i \in 2..(n + 1), new[i] = new[i - 1]
          PROVE  i \in 2..n /\ lines[i] = lines[i - 1]
      <3>1. i - 1 \in 1..n /\ i \in 1..(n + 1)
        BY <1>1
      <3>2. i # n + 1
        BY <1>1, <1>2, <2>3, <3>1
      <3>3. i \in 1..n /\ i \in 2..n
        BY <1>1, <3>1, <3>2
      <3> QED BY <1>1, <2>3, <3>1, <3>3
    <2>4. \A i, j \in 2..(n + 1) : new[i] = new[i - 1] /\ new[j] = new[j - 1] => i = j
      BY <2>1, <2>3
    <2> QED BY <1>1, <2>2, <2>4, FedMeans
  <1> QED BY <1>4, <1>5, <1>6 DEF new

LEMMA PutTwice ==
    ASSUME NEW lines \in Seq(Nat), NEW line \in Nat, line # 0,
           Rising(lines), UpTo(lines, line)
    PROVE  FedLines(Put(lines, line)) /\ UpTo(Put(lines, line), line)
  <1> DEFINE new == Put(lines, line)
             n == Len(lines)
  <1>1. /\ new \in Seq(Nat) /\ n \in Nat /\ Len(new) = n + 1 /\ new[n + 1] = line
        /\ \A i \in 1..n : new[i] = lines[i] /\ lines[i] \in Nat
    <2>1. \A i \in 1..n : lines[i] \in Nat
      OBVIOUS
    <2> QED BY <2>1, PutGives
  <1>2. /\ \A i \in 1..n : lines[i] <= line
        /\ \A i, j \in 1..n : i < j => lines[i] < lines[j]
    BY DEF UpTo, Rising
  <1> HIDE DEF new, n
  <1>3. \A i \in 1..(n + 1) : i \in 1..n \/ i = n + 1
    BY <1>1
  <1>4. UpTo(new, line)
    <2>1. \A i \in 1..(n + 1) : new[i] <= line
      BY <1>1, <1>2, <1>3
    <2> QED BY <1>1, <2>1 DEF UpTo
  <1>5. ASSUME NEW i \in 1..(n + 1), NEW j \in 1..(n + 1), i < j PROVE new[i] <= new[j]
    <2>1. i \in 1..n
      BY <1>1, <1>5
    <2>2. CASE j \in 1..n
      BY <1>1, <1>2, <1>5, <2>1, <2>2
    <2>3. CASE j = n + 1
      BY <1>1, <1>2, <2>1, <2>3
    <2> QED BY <1>3, <2>2, <2>3
  <1>6. ASSUME NEW i \in 2..(n + 1), new[i] = new[i - 1] PROVE i = n + 1
    <2>1. i - 1 \in 1..n /\ i - 1 < i /\ i \in 1..(n + 1)
      BY <1>1
    <2>2. i \in 1..n => lines[i - 1] < lines[i] /\ new[i] = lines[i] /\ new[i - 1] = lines[i - 1]
      BY <1>1, <1>2, <2>1
    <2> QED BY <1>1, <1>3, <1>6, <2>1, <2>2
  <1>7. \A i, j \in 2..(n + 1) : new[i] = new[i - 1] /\ new[j] = new[j - 1] => i = j
    BY <1>6
  <1>8. FedLines(new)
    BY <1>1, <1>5, <1>7, FedMeans
  <1> QED BY <1>4, <1>8 DEF new

(* One more line, and the set of the lines.                                *)
LEMMA PutHolding ==
    ASSUME NEW lines \in Seq(Nat), NEW line \in Nat, line # 0, NEW set, Holding(lines, set)
    PROVE  Holding(Put(lines, line), set \cup {line})
  <1> DEFINE new == Put(lines, line)
             n == Len(lines)
  <1>1. /\ n \in Nat /\ Len(new) = n + 1 /\ new[n + 1] = line
        /\ \A i \in 1..n : new[i] = lines[i]
    BY PutGives
  <1>2. /\ \A i \in 1..n : lines[i] \in set
        /\ \A x \in set : \E i \in 1..n : lines[i] = x
    BY DEF Holding
  <1> HIDE DEF new, n
  <1>3. \A i \in 1..(n + 1) : i \in 1..n \/ i = n + 1
    BY <1>1
  <1>4. 1..n \subseteq 1..(n + 1) /\ n + 1 \in 1..(n + 1)
    BY <1>1
  <1>5. \A i \in 1..(n + 1) : new[i] \in set \cup {line}
    BY <1>1, <1>2, <1>3
  <1>6. \A x \in set \cup {line} : \E i \in 1..(n + 1) : new[i] = x
    BY <1>1, <1>2, <1>4
  <1>7. Holding(new, set \cup {line})
    BY <1>1, <1>5, <1>6 DEF Holding
  <1> QED BY <1>7 DEF new

-------------------------------------------------------------------------------
(* The lines of a request, from what its client got to what its reader     *)
(* sent last, make a chain.  A step hands a line from one part of the      *)
(* chain to the next, and only ReadLine makes it longer.                   *)
OnWire(r) == IF reader[r].wire # 0 /\ Api!Wanted(r, reader[r].wire) THEN reader[r].wire ELSE 0
Chain(r) == Put(Put(Put(request[r].got, request[r].line), agent[r].line), OnWire(r))
LinesAsked(r) == {line \in 1..reader[r].pos : machineLog[line] \in Api!Sources(r)}
Whole(r, lines) == Rising(lines) /\ Holding(lines, LinesAsked(r))
Stored == {"none", "stored", "attach", "over"}

(* What handler, goroutine and reader know of each other; what the chain   *)
(* is while the reader reads stored lines, and after: until the first live *)
(* line is read, it may come a second time; and that nothing is missing at *)
(* the end.                                                                *)
HandsOf(r) ==
    /\ request[r].line # 0 <=> request[r].pc = "sending"
    /\ agent[r].line # 0 <=> agent[r].pc = "holding"
    /\ reader[r].pc = "none" => reader[r].pos = 0 /\ reader[r].wire = 0
    /\ reader[r].pc \in {"stored", "attach"} => machineLog # <<>>
    /\ request[r].pc \in {"none", "lookup", "open"} => reader[r].pc = "none"
    /\ request[r].pc \in {"none", "lookup", "open", "call"} => agent[r].pc = "none"
    /\ request[r].path = "file" /\ ~Api!ContextDone(r) => reader[r].pc # "cut"
    /\ agent[r].pc = "done" /\ ~Api!ContextDone(r) => Api!NothingComes(r)
ChainOf(r) ==
    ~Api!ContextDone(r) =>
      /\ reader[r].pc \in Stored => Whole(r, Chain(r))
      /\ reader[r].pc = "live" =>
           \/ Rising(Chain(r)) /\ UpTo(Chain(r), reader[r].pos + 1)
           \/ UpTo(Chain(r), reader[r].pos)
      /\ FedLines(Chain(r))
EndOf(r) ==
    request[r].pc = "ended" /\ ~request[r].gone =>
      reader[r].pc = "over" /\ reader[r].wire = 0 /\ Whole(r, request[r].got)
RequestInv == Api!TypeOK /\ \A r \in Requests : HandsOf(r) /\ ChainOf(r) /\ EndOf(r)

(* The rows of the type invariant, when the file has n lines.              *)
RequestState(n) ==
    [pc : {"none", "lookup", "open", "call", "select", "sending", "ended", "failed"},
     asked : Api!Source, follow : BOOLEAN, path : {"none", "runtime", "file"},
     line : 0..n, got : Seq(1..n), gone : BOOLEAN]
AgentState(n) == [pc : {"none", "receiving", "holding", "done"}, line : 0..n]
ReaderState(n) ==
    [pc : {"none", "stored", "attach", "live", "over", "cut"}, pos : 0..n, wire : 0..n]

(* Row by row, the type invariant.                                         *)
LEMMA TypeMeans ==
    Api!TypeOK <=> /\ machine \in [controller : BOOLEAN, runtime : BOOLEAN]
               /\ machineLog \in Seq(Api!Source)
               /\ request \in [Requests -> RequestState(Len(machineLog))]
               /\ agent \in [Requests -> AgentState(Len(machineLog))]
               /\ reader \in [Requests -> ReaderState(Len(machineLog))]
  BY DEF Api!TypeOK, RequestState, AgentState, ReaderState

LEMMA Rows ==
    ASSUME Api!TypeOK, NEW r \in Requests
    PROVE  /\ request[r] \in RequestState(Len(machineLog))
           /\ agent[r] \in AgentState(Len(machineLog))
           /\ reader[r] \in ReaderState(Len(machineLog))
           /\ machineLog \in Seq(Api!Source) /\ Len(machineLog) \in Nat
  BY TypeMeans

(* The lines that the goroutine in between lets through are those of the   *)
(* sources the request asks for.                                           *)
LEMMA WantedMeans ==
    ASSUME Api!TypeOK, NEW r \in Requests, NEW line \in 1..Len(machineLog)
    PROVE  Api!Wanted(r, line) <=> machineLog[line] \in Api!Sources(r)
  <1>1. machineLog[line] \in Api!Source /\ request[r].asked \in Api!Source
    BY Rows DEF RequestState
  <1> QED BY <1>1 DEF Api!Wanted, Api!Sources, Api!Source

(* The lines under way are lines.                                          *)
LEMMA ChainType ==
    ASSUME Api!TypeOK, NEW r \in Requests
    PROVE  /\ request[r].got \in Seq(Nat) /\ request[r].line \in Nat
           /\ agent[r].line \in Nat /\ OnWire(r) \in Nat
           /\ Put(request[r].got, request[r].line) \in Seq(Nat)
           /\ Put(Put(request[r].got, request[r].line), agent[r].line) \in Seq(Nat)
           /\ Chain(r) \in Seq(Nat)
  <1>1. /\ request[r].got \in Seq(1..Len(machineLog)) /\ request[r].line \in Nat
        /\ agent[r].line \in Nat /\ reader[r].wire \in Nat
    BY Rows DEF RequestState, AgentState, ReaderState
  <1>2. request[r].got \in Seq(Nat) /\ OnWire(r) \in Nat
    BY <1>1 DEF OnWire
  <1> QED BY <1>1, <1>2, PutGives DEF Chain

(* What holds of them holds as long as they, the reader's position and the *)
(* mode of its reading stay.                                               *)
LEMMA ChainStays ==
    ASSUME NEW r \in Requests, ChainOf(r), Api!ContextDone(r) => Api!ContextDone(r)',
           Chain(r)' = Chain(r), LinesAsked(r)' = LinesAsked(r),
           reader'[r].pos = reader[r].pos,
           reader'[r].pc \in Stored => reader[r].pc \in Stored,
           reader'[r].pc = "live" => reader[r].pc = "live"
    PROVE  ChainOf(r)'
  BY DEF ChainOf, Whole

(* A step of one request needs a look at that one only.                    *)
LEMMA OneRequest ==
    ASSUME RequestInv, NEW r \in Requests, machine' = machine, machineLog' = machineLog,
           NEW q \in RequestState(Len(machineLog)), request' = [request EXCEPT ![r] = q],
           NEW a \in AgentState(Len(machineLog)), agent' = [agent EXCEPT ![r] = a],
           NEW d \in ReaderState(Len(machineLog)), reader' = [reader EXCEPT ![r] = d],
           HandsOf(r)', ChainOf(r)', EndOf(r)'
    PROVE  RequestInv'
  <1>1. Api!TypeOK
    BY DEF RequestInv
  <1>2. Api!TypeOK'
    <2>1. /\ request' \in [Requests -> RequestState(Len(machineLog'))]
          /\ agent' \in [Requests -> AgentState(Len(machineLog'))]
          /\ reader' \in [Requests -> ReaderState(Len(machineLog'))]
      BY <1>1, TypeMeans
    <2>2. /\ machine' \in [controller : BOOLEAN, runtime : BOOLEAN]
          /\ machineLog' \in Seq(Api!Source)
      BY <1>1, TypeMeans
    <2> QED BY <2>1, <2>2 DEF Api!TypeOK, RequestState, AgentState, ReaderState
  <1>3. ASSUME NEW s \in Requests \ {r} PROVE HandsOf(s)' /\ ChainOf(s)' /\ EndOf(s)'
    <2>1. request'[s] = request[s] /\ agent'[s] = agent[s] /\ reader'[s] = reader[s]
      BY <1>1, TypeMeans
    <2>2. HandsOf(s) /\ ChainOf(s) /\ EndOf(s)
      BY DEF RequestInv
    <2>3. LinesAsked(s)' = LinesAsked(s) /\ Chain(s)' = Chain(s)
      BY <2>1 DEF LinesAsked, Api!Sources, Chain, OnWire, Api!Wanted
    <2>4. Api!ContextDone(s)' <=> Api!ContextDone(s)
      BY <2>1 DEF Api!ContextDone
    <2>5. ChainOf(s)'
      BY <2>1, <2>2, <2>3, <2>4, ChainStays
    <2>6. HandsOf(s)'
      BY <2>1, <2>2, <2>4 DEF HandsOf, Api!NothingComes
    <2>7. EndOf(s)'
      BY <2>1, <2>2, <2>3 DEF EndOf, Whole
    <2> QED BY <2>5, <2>6, <2>7
  <1> QED BY <1>2, <1>3 DEF RequestInv

LEMMA LineAdded ==
    ASSUME NEW set, NEW lines \in Seq(set), NEW line \in set
    PROVE  Append(lines, line) \in Seq(set)
  OBVIOUS

(* What is known of a request that takes a step.                           *)
LEMMA Given ==
    ASSUME RequestInv, NEW r \in Requests
    PROVE  /\ Api!TypeOK /\ HandsOf(r) /\ ChainOf(r) /\ EndOf(r)
           /\ request \in [Requests -> RequestState(Len(machineLog))]
           /\ agent \in [Requests -> AgentState(Len(machineLog))]
           /\ reader \in [Requests -> ReaderState(Len(machineLog))]
           /\ Len(machineLog) \in Nat
  BY TypeMeans, Rows DEF RequestInv

(* A step of the handler or of the goroutine between, which moves at most  *)
(* a line from hand to hand.                                               *)
LEMMA HandStep ==
    ASSUME RequestInv, NEW r \in Requests, machine' = machine, machineLog' = machineLog,
           NEW q \in RequestState(Len(machineLog)), request' = [request EXCEPT ![r] = q],
           NEW a \in AgentState(Len(machineLog)), agent' = [agent EXCEPT ![r] = a],
           reader' = reader, HandsOf(r)',
           Api!ContextDone(r) => Api!ContextDone(r)',
           reader[r].pc = "none" \/ (q.asked = request[r].asked /\ q.path = request[r].path),
           ~Api!ContextDone(r)' => Put(Put(q.got, q.line), a.line)
             = Put(Put(request[r].got, request[r].line), agent[r].line),
           EndOf(r)'
    PROVE  RequestInv'
  <1>1. /\ request'[r] = q /\ agent'[r] = a /\ reader'[r] = reader[r]
        /\ reader' = [reader EXCEPT ![r] = reader[r]]
        /\ reader[r] \in ReaderState(Len(machineLog)) /\ ChainOf(r) /\ HandsOf(r)
    BY Given
  <1>2. LinesAsked(r)' = LinesAsked(r)
    <2>1. CASE reader[r].pc = "none"
      <3>1. 1..reader[r].pos = {}
        BY <1>1, <2>1 DEF HandsOf
      <3> QED BY <1>1, <3>1 DEF LinesAsked
    <2>2. CASE q.asked = request[r].asked /\ q.path = request[r].path
      BY <1>1, <2>2 DEF LinesAsked, Api!Sources
    <2> QED BY <2>1, <2>2
  <1>3. OnWire(r)' = OnWire(r)
    <2>1. CASE reader[r].pc = "none"
      BY <1>1, <2>1 DEF OnWire, HandsOf
    <2>2. CASE q.asked = request[r].asked /\ q.path = request[r].path
      BY <1>1, <2>2 DEF OnWire, Api!Wanted
    <2> QED BY <2>1, <2>2
  <1>4. ChainOf(r)'
    <2>1. CASE Api!ContextDone(r)'
      BY <2>1 DEF ChainOf
    <2>2. CASE ~Api!ContextDone(r)'
      <3>1. Chain(r)' = Chain(r)
        BY <1>1, <1>3, <2>2 DEF Chain
      <3> QED BY <1>1, <1>2, <3>1, ChainStays
    <2> QED BY <2>1, <2>2
  <1> QED BY <1>1, <1>4, OneRequest

(* The steps of the handler, of its client and the return of the goroutine.*)
LEMMA HandlerSteps ==
    ASSUME RequestInv, NEW r \in Requests
    PROVE  /\ Api!Ask(r) \/ Api!HangUp(r) \/ Api!LookUp(r) \/ Api!CallReturns(r) => RequestInv'
           /\ Api!CallFails(r) \/ Api!HandleLine(r) \/ Api!SendLine(r) => RequestInv'
           /\ Api!SendFails(r) \/ Api!AgentReturns(r) => RequestInv'
  <1> DEFINE p == request[r]
  <1>0. /\ p \in RequestState(Len(machineLog))
        /\ agent[r] \in AgentState(Len(machineLog))
        /\ Len(machineLog) \in Nat /\ HandsOf(r) /\ EndOf(r)
        /\ request \in [Requests -> RequestState(Len(machineLog))]
        /\ agent \in [Requests -> AgentState(Len(machineLog))]
        /\ request = [request EXCEPT ![r] = p] /\ agent = [agent EXCEPT ![r] = agent[r]]
    BY Given
  <1>1. ASSUME Api!Ask(r), NEW source \in Api!Source, NEW follow \in BOOLEAN,
                 request' = [request EXCEPT ![r].pc = "lookup", ![r].asked = source,
                                            ![r].follow = follow]
       PROVE  RequestInv'
    <2> DEFINE q == [request[r] EXCEPT !.pc = "lookup", !.asked = source, !.follow = follow]
               a == agent[r]
    <2>1. /\ q \in RequestState(Len(machineLog)) /\ a \in AgentState(Len(machineLog))
          /\ q.pc = "lookup" /\ q.path = p.path /\ q.line = p.line
          /\ q.got = p.got /\ q.gone = p.gone
      BY <1>0, <1>1 DEF Api!Ask, RequestState, AgentState, HandsOf
    <2>2. /\ request' = [request EXCEPT ![r] = q] /\ agent' = [agent EXCEPT ![r] = a]
          /\ machine' = machine /\ machineLog' = machineLog /\ reader' = reader
      BY <1>0, <1>1 DEF Api!Ask
    <2>3. /\ request'[r] = q /\ agent'[r] = a /\ reader'[r] = reader[r]
      BY <1>0, <2>2
    <2> HIDE DEF q, a
    <2>4. Api!ContextDone(r) => Api!ContextDone(r)'
      BY <1>1, <2>1, <2>3 DEF Api!ContextDone, Api!Ask
    <2>5. HandsOf(r)'
      BY <1>0, <1>1, <2>1, <2>2, <2>3
      DEF Api!Ask, HandsOf, Api!NothingComes, Api!ContextDone
    <2>6. EndOf(r)'
      BY <1>0, <1>1, <2>1, <2>2, <2>3 DEF Api!Ask, EndOf, Whole, LinesAsked, Api!Sources
    <2>7. ~Api!ContextDone(r)' => Put(Put(q.got, q.line), a.line)
            = Put(Put(p.got, p.line), agent[r].line)
      BY <1>0, <1>1, <2>1, <2>3 DEF Api!Ask, HandsOf, Put, Api!ContextDone
    <2>8. reader[r].pc = "none" \/ (q.asked = p.asked /\ q.path = p.path)
      BY <1>0, <1>1, <2>1 DEF Api!Ask, HandsOf
    <2> QED BY <2>1, <2>2, <2>4, <2>5, <2>6, <2>7, <2>8, HandStep
  <1>2. ASSUME Api!HangUp(r)
       PROVE  RequestInv'
    <2> DEFINE q == [request[r] EXCEPT !.gone = TRUE]
               a == agent[r]
    <2>1. /\ q \in RequestState(Len(machineLog)) /\ a \in AgentState(Len(machineLog))
          /\ q.pc = p.pc /\ q.path = p.path /\ q.asked = p.asked
          /\ q.line = p.line /\ q.got = p.got /\ q.gone = TRUE
      BY <1>0, <1>2 DEF Api!HangUp, RequestState, AgentState, HandsOf
    <2>2. /\ request' = [request EXCEPT ![r] = q] /\ agent' = [agent EXCEPT ![r] = a]
          /\ machine' = machine /\ machineLog' = machineLog /\ reader' = reader
      BY <1>0, <1>2 DEF Api!HangUp
    <2>3. /\ request'[r] = q /\ agent'[r] = a /\ reader'[r] = reader[r]
      BY <1>0, <2>2
    <2> HIDE DEF q, a
    <2>4. Api!ContextDone(r) => Api!ContextDone(r)'
      BY <1>2, <2>1, <2>3 DEF Api!ContextDone, Api!HangUp
    <2>5. HandsOf(r)'
      BY <1>0, <1>2, <2>1, <2>2, <2>3
      DEF Api!HangUp, HandsOf, Api!NothingComes, Api!ContextDone
    <2>6. EndOf(r)'
      BY <1>0, <1>2, <2>1, <2>2, <2>3
      DEF Api!HangUp, EndOf, Whole, LinesAsked, Api!Sources
    <2>7. ~Api!ContextDone(r)' => Put(Put(q.got, q.line), a.line)
            = Put(Put(p.got, p.line), agent[r].line)
      BY <1>0, <1>2, <2>1, <2>3 DEF Api!HangUp, HandsOf, Put, Api!ContextDone
    <2>8. reader[r].pc = "none" \/ (q.asked = p.asked /\ q.path = p.path)
      BY <1>0, <1>2, <2>1 DEF Api!HangUp, HandsOf
    <2> QED BY <2>1, <2>2, <2>4, <2>5, <2>6, <2>7, <2>8, HandStep
  <1>3. ASSUME Api!LookUp(r)
       PROVE  RequestInv'
    <2> DEFINE q == [request[r] EXCEPT !.pc = IF machine.controller THEN "call" ELSE "open",
                                 !.path = IF machine.controller THEN "runtime" ELSE "file"]
               a == agent[r]
    <2>1. /\ q \in RequestState(Len(machineLog)) /\ a \in AgentState(Len(machineLog))
          /\ q.pc \in {"call", "open"} /\ q.line = p.line /\ q.got = p.got
          /\ q.gone = p.gone
      BY <1>0, <1>3 DEF Api!LookUp, RequestState, AgentState, HandsOf
    <2>2. /\ request' = [request EXCEPT ![r] = q] /\ agent' = [agent EXCEPT ![r] = a]
          /\ machine' = machine /\ machineLog' = machineLog /\ reader' = reader
      BY <1>0, <1>3 DEF Api!LookUp
    <2>3. /\ request'[r] = q /\ agent'[r] = a /\ reader'[r] = reader[r]
      BY <1>0, <2>2
    <2> HIDE DEF q, a
    <2>4. Api!ContextDone(r) => Api!ContextDone(r)'
      BY <1>3, <2>1, <2>3 DEF Api!ContextDone, Api!LookUp
    <2>5. HandsOf(r)'
      BY <1>0, <1>3, <2>1, <2>2, <2>3
      DEF Api!LookUp, HandsOf, Api!NothingComes, Api!ContextDone
    <2>6. EndOf(r)'
      BY <1>0, <1>3, <2>1, <2>2, <2>3
      DEF Api!LookUp, EndOf, Whole, LinesAsked, Api!Sources
    <2>7. ~Api!ContextDone(r)' => Put(Put(q.got, q.line), a.line)
            = Put(Put(p.got, p.line), agent[r].line)
      BY <1>0, <1>3, <2>1, <2>3 DEF Api!LookUp, HandsOf, Put, Api!ContextDone
    <2>8. reader[r].pc = "none" \/ (q.asked = p.asked /\ q.path = p.path)
      BY <1>0, <1>3, <2>1 DEF Api!LookUp, HandsOf
    <2> QED BY <2>1, <2>2, <2>4, <2>5, <2>6, <2>7, <2>8, HandStep
  <1>4. ASSUME Api!CallReturns(r)
       PROVE  RequestInv'
    <2> DEFINE q == [request[r] EXCEPT !.pc = "select"]
               a == [agent[r] EXCEPT !.pc = "receiving"]
    <2>1. /\ q \in RequestState(Len(machineLog)) /\ a \in AgentState(Len(machineLog))
          /\ q.pc = "select" /\ q.path = p.path /\ q.asked = p.asked
          /\ q.line = p.line /\ q.got = p.got /\ q.gone = p.gone
          /\ a.pc = "receiving" /\ a.line = agent[r].line
      BY <1>0, <1>4 DEF Api!CallReturns, RequestState, AgentState, HandsOf
    <2>2. /\ request' = [request EXCEPT ![r] = q] /\ agent' = [agent EXCEPT ![r] = a]
          /\ machine' = machine /\ machineLog' = machineLog /\ reader' = reader
      BY <1>0, <1>4 DEF Api!CallReturns
    <2>3. /\ request'[r] = q /\ agent'[r] = a /\ reader'[r] = reader[r]
      BY <1>0, <2>2
    <2> HIDE DEF q, a
    <2>4. Api!ContextDone(r) => Api!ContextDone(r)'
      BY <1>4, <2>1, <2>3 DEF Api!ContextDone, Api!CallReturns
    <2>5. HandsOf(r)'
      BY <1>0, <1>4, <2>1, <2>2, <2>3
      DEF Api!CallReturns, HandsOf, Api!NothingComes, Api!ContextDone
    <2>6. EndOf(r)'
      BY <1>0, <1>4, <2>1, <2>2, <2>3
      DEF Api!CallReturns, EndOf, Whole, LinesAsked, Api!Sources
    <2>7. ~Api!ContextDone(r)' => Put(Put(q.got, q.line), a.line)
            = Put(Put(p.got, p.line), agent[r].line)
      BY <1>0, <1>4, <2>1, <2>3 DEF Api!CallReturns, HandsOf, Put, Api!ContextDone
    <2>8. reader[r].pc = "none" \/ (q.asked = p.asked /\ q.path = p.path)
      BY <1>0, <1>4, <2>1 DEF Api!CallReturns, HandsOf
    <2> QED BY <2>1, <2>2, <2>4, <2>5, <2>6, <2>7, <2>8, HandStep
  <1>5. ASSUME Api!CallFails(r)
       PROVE  RequestInv'
    <2> DEFINE q == [request[r] EXCEPT !.pc = "failed"]
               a == agent[r]
    <2>1. /\ q \in RequestState(Len(machineLog)) /\ a \in AgentState(Len(machineLog))
          /\ q.pc = "failed" /\ q.path = p.path /\ q.asked = p.asked
          /\ q.line = p.line /\ q.got = p.got /\ q.gone = p.gone
      BY <1>0, <1>5 DEF Api!CallFails, RequestState, AgentState, HandsOf
    <2>2. /\ request' = [request EXCEPT ![r] = q] /\ agent' = [agent EXCEPT ![r] = a]
          /\ machine' = machine /\ machineLog' = machineLog /\ reader' = reader
      BY <1>0, <1>5 DEF Api!CallFails
    <2>3. /\ request'[r] = q /\ agent'[r] = a /\ reader'[r] = reader[r]
      BY <1>0, <2>2
    <2> HIDE DEF q, a
    <2>4. Api!ContextDone(r) => Api!ContextDone(r)'
      BY <1>5, <2>1, <2>3 DEF Api!ContextDone, Api!CallFails
    <2>5. HandsOf(r)'
      BY <1>0, <1>5, <2>1, <2>2, <2>3
      DEF Api!CallFails, HandsOf, Api!NothingComes, Api!ContextDone
    <2>6. EndOf(r)'
      BY <1>0, <1>5, <2>1, <2>2, <2>3
      DEF Api!CallFails, EndOf, Whole, LinesAsked, Api!Sources
    <2>7. ~Api!ContextDone(r)' => Put(Put(q.got, q.line), a.line)
            = Put(Put(p.got, p.line), agent[r].line)
      BY <1>0, <1>5, <2>1, <2>3 DEF Api!CallFails, HandsOf, Put, Api!ContextDone
    <2>8. reader[r].pc = "none" \/ (q.asked = p.asked /\ q.path = p.path)
      BY <1>0, <1>5, <2>1 DEF Api!CallFails, HandsOf
    <2> QED BY <2>1, <2>2, <2>4, <2>5, <2>6, <2>7, <2>8, HandStep
  <1>6. ASSUME Api!HandleLine(r)
       PROVE  RequestInv'
    <2> DEFINE q == [request[r] EXCEPT !.pc = "sending", !.line = agent[r].line]
               a == [pc |-> "receiving", line |-> 0]
    <2>1. /\ q \in RequestState(Len(machineLog)) /\ a \in AgentState(Len(machineLog))
          /\ q.pc = "sending" /\ q.path = p.path /\ q.asked = p.asked
          /\ q.line = agent[r].line /\ q.got = p.got /\ q.gone = p.gone
          /\ a.pc = "receiving" /\ a.line = 0
      BY <1>0, <1>6 DEF Api!HandleLine, RequestState, AgentState, HandsOf
    <2>2. /\ request' = [request EXCEPT ![r] = q] /\ agent' = [agent EXCEPT ![r] = a]
          /\ machine' = machine /\ machineLog' = machineLog /\ reader' = reader
      BY <1>0, <1>6 DEF Api!HandleLine
    <2>3. /\ request'[r] = q /\ agent'[r] = a /\ reader'[r] = reader[r]
      BY <1>0, <2>2
    <2> HIDE DEF q, a
    <2>4. Api!ContextDone(r) => Api!ContextDone(r)'
      BY <1>6, <2>1, <2>3 DEF Api!ContextDone, Api!HandleLine
    <2>5. HandsOf(r)'
      BY <1>0, <1>6, <2>1, <2>2, <2>3
      DEF Api!HandleLine, HandsOf, Api!NothingComes, Api!ContextDone
    <2>6. EndOf(r)'
      BY <1>0, <1>6, <2>1, <2>2, <2>3
      DEF Api!HandleLine, EndOf, Whole, LinesAsked, Api!Sources
    <2>7. ~Api!ContextDone(r)' => Put(Put(q.got, q.line), a.line)
            = Put(Put(p.got, p.line), agent[r].line)
      BY <1>0, <1>6, <2>1, <2>3 DEF Api!HandleLine, HandsOf, Put, Api!ContextDone
    <2>8. reader[r].pc = "none" \/ (q.asked = p.asked /\ q.path = p.path)
      BY <1>0, <1>6, <2>1 DEF Api!HandleLine, HandsOf
    <2> QED BY <2>1, <2>2, <2>4, <2>5, <2>6, <2>7, <2>8, HandStep
  <1>7. ASSUME Api!SendLine(r)
       PROVE  RequestInv'
    <2> DEFINE q == [request[r] EXCEPT !.pc = "select", !.line = 0,
                       !.got = IF request[r].gone THEN @ ELSE Append(@, request[r].line)]
               a == agent[r]
    <2>1. /\ q \in RequestState(Len(machineLog)) /\ a \in AgentState(Len(machineLog))
          /\ q.pc = "select" /\ q.path = p.path /\ q.asked = p.asked
          /\ q.line = 0 /\ q.gone = p.gone
          /\ q.got = IF p.gone THEN p.got ELSE Append(p.got, p.line)
      <3>1. /\ p.line \in 1..Len(machineLog) /\ p.got \in Seq(1..Len(machineLog))
            /\ 0 \in 0..Len(machineLog)
        BY <1>0, <1>7 DEF Api!SendLine, RequestState, HandsOf
      <3>2. Append(p.got, p.line) \in Seq(1..Len(machineLog))
        BY <3>1, LineAdded, Zenon
      <3> QED BY <1>0, <3>1, <3>2 DEF RequestState
    <2>2. /\ request' = [request EXCEPT ![r] = q] /\ agent' = [agent EXCEPT ![r] = a]
          /\ machine' = machine /\ machineLog' = machineLog /\ reader' = reader
      <3>1. CASE p.gone
        <4>1. request' = [request EXCEPT ![r] = [p EXCEPT !.pc = "select", !.line = 0]]
          BY <1>7, <3>1 DEF Api!SendLine
        <4>2. q = [p EXCEPT !.pc = "select", !.line = 0]
          BY <1>0, <3>1 DEF RequestState
        <4> QED BY <1>0, <1>7, <4>1, <4>2 DEF Api!SendLine
      <3>2. CASE ~p.gone
        BY <1>0, <1>7, <3>2 DEF Api!SendLine
      <3> QED BY <3>1, <3>2
    <2>3. /\ request'[r] = q /\ agent'[r] = a /\ reader'[r] = reader[r]
      BY <1>0, <2>2
    <2> HIDE DEF q, a
    <2>4. Api!ContextDone(r) => Api!ContextDone(r)'
      BY <1>7, <2>1, <2>3 DEF Api!ContextDone, Api!SendLine
    <2>5. HandsOf(r)'
      BY <1>0, <1>7, <2>1, <2>2, <2>3
      DEF Api!SendLine, HandsOf, Api!NothingComes, Api!ContextDone
    <2>6. EndOf(r)'
      BY <1>0, <1>7, <2>1, <2>2, <2>3
      DEF Api!SendLine, EndOf, Whole, LinesAsked, Api!Sources
    <2>7. ~Api!ContextDone(r)' => Put(Put(q.got, q.line), a.line)
            = Put(Put(p.got, p.line), agent[r].line)
      BY <1>0, <1>7, <2>1, <2>3 DEF Api!SendLine, HandsOf, Put, Api!ContextDone
    <2>8. reader[r].pc = "none" \/ (q.asked = p.asked /\ q.path = p.path)
      BY <1>0, <1>7, <2>1 DEF Api!SendLine, HandsOf
    <2> QED BY <2>1, <2>2, <2>4, <2>5, <2>6, <2>7, <2>8, HandStep
  <1>8. ASSUME Api!SendFails(r)
       PROVE  RequestInv'
    <2> DEFINE q == [request[r] EXCEPT !.pc = "failed", !.line = 0]
               a == agent[r]
    <2>1. /\ q \in RequestState(Len(machineLog)) /\ a \in AgentState(Len(machineLog))
          /\ q.pc = "failed" /\ q.path = p.path /\ q.asked = p.asked
          /\ q.line = 0 /\ q.got = p.got /\ q.gone = p.gone
      BY <1>0, <1>8 DEF Api!SendFails, RequestState, AgentState, HandsOf
    <2>2. /\ request' = [request EXCEPT ![r] = q] /\ agent' = [agent EXCEPT ![r] = a]
          /\ machine' = machine /\ machineLog' = machineLog /\ reader' = reader
      BY <1>0, <1>8 DEF Api!SendFails
    <2>3. /\ request'[r] = q /\ agent'[r] = a /\ reader'[r] = reader[r]
      BY <1>0, <2>2
    <2> HIDE DEF q, a
    <2>4. Api!ContextDone(r) => Api!ContextDone(r)'
      BY <1>8, <2>1, <2>3 DEF Api!ContextDone, Api!SendFails
    <2>5. HandsOf(r)'
      BY <1>0, <1>8, <2>1, <2>2, <2>3
      DEF Api!SendFails, HandsOf, Api!NothingComes, Api!ContextDone
    <2>6. EndOf(r)'
      BY <1>0, <1>8, <2>1, <2>2, <2>3
      DEF Api!SendFails, EndOf, Whole, LinesAsked, Api!Sources
    <2>7. ~Api!ContextDone(r)' => Put(Put(q.got, q.line), a.line)
            = Put(Put(p.got, p.line), agent[r].line)
      BY <1>0, <1>8, <2>1, <2>3 DEF Api!SendFails, HandsOf, Put, Api!ContextDone
    <2>8. reader[r].pc = "none" \/ (q.asked = p.asked /\ q.path = p.path)
      BY <1>0, <1>8, <2>1 DEF Api!SendFails, HandsOf
    <2> QED BY <2>1, <2>2, <2>4, <2>5, <2>6, <2>7, <2>8, HandStep
  <1>9. ASSUME Api!AgentReturns(r)
       PROVE  RequestInv'
    <2> DEFINE q == request[r]
               a == [agent[r] EXCEPT !.pc = "done"]
    <2>1. /\ q \in RequestState(Len(machineLog)) /\ a \in AgentState(Len(machineLog))
          /\ q = p /\ a.pc = "done" /\ a.line = agent[r].line
      BY <1>0, <1>9 DEF Api!AgentReturns, RequestState, AgentState, HandsOf
    <2>2. /\ request' = [request EXCEPT ![r] = q] /\ agent' = [agent EXCEPT ![r] = a]
          /\ machine' = machine /\ machineLog' = machineLog /\ reader' = reader
      BY <1>0, <1>9 DEF Api!AgentReturns
    <2>3. /\ request'[r] = q /\ agent'[r] = a /\ reader'[r] = reader[r]
      BY <1>0, <2>2
    <2> HIDE DEF q, a
    <2>4. Api!ContextDone(r) => Api!ContextDone(r)'
      BY <1>9, <2>1, <2>3 DEF Api!ContextDone, Api!AgentReturns
    <2>5. HandsOf(r)'
      BY <1>0, <1>9, <2>1, <2>2, <2>3
      DEF Api!AgentReturns, HandsOf, Api!NothingComes, Api!ContextDone
    <2>6. EndOf(r)'
      BY <1>0, <1>9, <2>1, <2>2, <2>3
      DEF Api!AgentReturns, EndOf, Whole, LinesAsked, Api!Sources
    <2>7. ~Api!ContextDone(r)' => Put(Put(q.got, q.line), a.line)
            = Put(Put(p.got, p.line), agent[r].line)
      BY <1>0, <1>9, <2>1, <2>3 DEF Api!AgentReturns, HandsOf, Put, Api!ContextDone
    <2>8. reader[r].pc = "none" \/ (q.asked = p.asked /\ q.path = p.path)
      BY <1>0, <1>9, <2>1 DEF Api!AgentReturns, HandsOf
    <2> QED BY <2>1, <2>2, <2>4, <2>5, <2>6, <2>7, <2>8, HandStep
  <1>10. Api!Ask(r) => RequestInv'
    BY <1>1 DEF Api!Ask
  <1> QED BY <1>2, <1>3, <1>4, <1>5, <1>6, <1>7, <1>8, <1>9, <1>10

(* At the end of what is sent, all of it has arrived.                      *)
LEMMA AllArrived ==
    ASSUME RequestInv, NEW r \in Requests, request[r].pc = "select", ~request[r].gone,
           agent[r].pc = "done", reader[r].pc # "cut"
    PROVE  /\ reader[r].pc = "over" /\ reader[r].wire = 0
           /\ Whole(r, request[r].got)
  <1>1. /\ HandsOf(r) /\ ChainOf(r) /\ ~Api!ContextDone(r)
        /\ request[r].line = 0 /\ agent[r].line = 0
    BY Given DEF HandsOf, Api!ContextDone
  <1>2. reader[r].pc = "over" /\ reader[r].wire = 0
    BY <1>1 DEF HandsOf, Api!NothingComes
  <1>3. Chain(r) = request[r].got
    BY <1>1, <1>2 DEF Chain, OnWire, Put
  <1> QED BY <1>1, <1>2, <1>3 DEF ChainOf, Stored

(* The handler returns: if it does with the end of the file, the client has*)
(* been sent all of it.                                                    *)
LEMMA ReturnStep ==
    ASSUME RequestInv, NEW r \in Requests, Api!HandlerReturns(r)
    PROVE  RequestInv'
  <1>0. /\ request[r] \in RequestState(Len(machineLog))
        /\ agent[r] \in AgentState(Len(machineLog))
        /\ HandsOf(r) /\ request \in [Requests -> RequestState(Len(machineLog))]
        /\ agent \in [Requests -> AgentState(Len(machineLog))]
        /\ agent = [agent EXCEPT ![r] = agent[r]]
    BY Given
  <1>1. request[r].pc = "select"
    BY DEF Api!HandlerReturns
  <1>2. PICK pc \in {"ended", "failed"} :
          /\ request' = [request EXCEPT ![r].pc = pc]
          /\ pc = "ended" => request[r].path = "file" /\ agent[r].pc = "done"
    BY DEF Api!HandlerReturns
  <1> DEFINE q == [request[r] EXCEPT !.pc = pc]
  <1>3. /\ q \in RequestState(Len(machineLog)) /\ q.pc = pc
        /\ q.path = request[r].path /\ q.asked = request[r].asked
        /\ q.line = request[r].line /\ q.got = request[r].got
        /\ q.gone = request[r].gone
    BY <1>0 DEF RequestState
  <1>4. /\ request' = [request EXCEPT ![r] = q] /\ agent' = agent
        /\ machine' = machine /\ machineLog' = machineLog /\ reader' = reader
    BY <1>0, <1>2 DEF Api!HandlerReturns
  <1>5. request'[r] = q /\ agent'[r] = agent[r] /\ reader'[r] = reader[r]
    BY <1>0, <1>4
  <1> HIDE DEF q
  <1>6. Api!ContextDone(r)'
    BY <1>2, <1>3, <1>5 DEF Api!ContextDone
  <1>7. HandsOf(r)'
    BY <1>0, <1>1, <1>2, <1>3, <1>4, <1>5, <1>6 DEF HandsOf, Api!NothingComes
  <1>8. EndOf(r)'
    <2>1. SUFFICES ASSUME pc = "ended", ~request[r].gone
                   PROVE  (reader[r].pc = "over" /\ reader[r].wire = 0
                             /\ Whole(r, request[r].got))'
      BY <1>3, <1>5 DEF EndOf
    <2>2. reader[r].pc # "cut"
      BY <1>0, <1>1, <1>2, <2>1 DEF HandsOf, Api!ContextDone
    <2>3. reader[r].pc = "over" /\ reader[r].wire = 0 /\ Whole(r, request[r].got)
      BY <1>1, <1>2, <2>1, <2>2, AllArrived
    <2>4. LinesAsked(r)' = LinesAsked(r)
      BY <1>3, <1>4, <1>5 DEF LinesAsked, Api!Sources
    <2> QED BY <1>3, <1>5, <2>3, <2>4 DEF Whole
  <1> QED BY <1>0, <1>3, <1>4, <1>6, <1>7, <1>8, HandStep

(* The steps in which a reader begins, ends or is read from.               *)
LEMMA ReaderSteps ==
    ASSUME RequestInv, NEW r \in Requests
    PROVE  /\ Api!OpenFile(r) \/ Api!CallRuntime(r) \/ Api!ReceiveLine(r) => RequestInv'
           /\ Api!StoredLinesEnd(r) \/ Api!ReaderReturns(r) => RequestInv'
  <1> DEFINE p == request[r]
  <1>0. /\ p \in RequestState(Len(machineLog))
        /\ agent[r] \in AgentState(Len(machineLog))
        /\ reader[r] \in ReaderState(Len(machineLog))
        /\ Len(machineLog) \in Nat /\ HandsOf(r) /\ ChainOf(r) /\ EndOf(r)
        /\ request \in [Requests -> RequestState(Len(machineLog))]
        /\ agent \in [Requests -> AgentState(Len(machineLog))]
        /\ reader \in [Requests -> ReaderState(Len(machineLog))]
        /\ request = [request EXCEPT ![r] = p] /\ agent = [agent EXCEPT ![r] = agent[r]]
        /\ reader = [reader EXCEPT ![r] = reader[r]]
    BY Given
  <1>1. ASSUME Api!OpenFile(r)
       PROVE  RequestInv'
    <2> DEFINE q == [request[r] EXCEPT !.pc = IF machineLog = <<>> THEN "failed" ELSE "select"]
               a == [agent[r] EXCEPT !.pc = IF machineLog = <<>> THEN @ ELSE "receiving"]
               d == [reader[r] EXCEPT !.pc = IF machineLog = <<>> THEN @ ELSE "stored"]
    <2>1. /\ q \in RequestState(Len(machineLog)) /\ a \in AgentState(Len(machineLog))
          /\ d \in ReaderState(Len(machineLog))
          /\ q.pc = IF machineLog = <<>> THEN "failed" ELSE "select"
          /\ q.path = p.path /\ q.asked = p.asked /\ q.line = p.line /\ q.got = p.got
          /\ q.gone = p.gone /\ a.line = agent[r].line
          /\ a.pc = (IF machineLog = <<>> THEN agent[r].pc ELSE "receiving")
          /\ d.pc = (IF machineLog = <<>> THEN reader[r].pc ELSE "stored")
          /\ d.pos = reader[r].pos /\ d.wire = reader[r].wire
      BY <1>0, <1>1 DEF Api!OpenFile, RequestState, AgentState, ReaderState
    <2>2. /\ request' = [request EXCEPT ![r] = q] /\ agent' = [agent EXCEPT ![r] = a]
          /\ reader' = [reader EXCEPT ![r] = d] /\ machine' = machine
          /\ machineLog' = machineLog
      <3>1. CASE machineLog = <<>>
        <4>1. /\ request' = [request EXCEPT ![r].pc = "failed"] /\ agent' = agent
              /\ reader' = reader /\ machine' = machine /\ machineLog' = machineLog
          BY <1>1, <3>1 DEF Api!OpenFile
        <4>2. a = agent[r] /\ d = reader[r] /\ q = [request[r] EXCEPT !.pc = "failed"]
          BY <1>0, <3>1 DEF AgentState, ReaderState
        <4> QED BY <1>0, <4>1, <4>2
      <3>2. CASE machineLog # <<>>
        BY <1>1, <3>2 DEF Api!OpenFile
      <3> QED BY <3>1, <3>2
    <2>3. /\ request'[r] = q /\ agent'[r] = a /\ reader'[r] = d
      BY <1>0, <2>2
    <2> HIDE DEF q, a, d
    <2>4. HandsOf(r)'
      BY <1>0, <1>1, <2>1, <2>2, <2>3
      DEF Api!OpenFile, HandsOf, Api!NothingComes, Api!ContextDone, Api!MayLeave,
          Api!Reading
    <2>5. EndOf(r)'
      BY <1>0, <1>1, <2>1, <2>2, <2>3
      DEF Api!OpenFile, EndOf, HandsOf, Whole, LinesAsked, Api!Sources, Api!Reading
    <2>6. ChainOf(r)'
      <3>1. LinesAsked(r)' = LinesAsked(r)
        BY <2>1, <2>2, <2>3 DEF LinesAsked, Api!Sources
      <3>2. Chain(r)' = Chain(r)
        BY <1>0, <1>1, <2>1, <2>2, <2>3
        DEF Api!OpenFile, Chain, OnWire, Api!Wanted, Put, HandsOf
      <3>3. Api!ContextDone(r) => Api!ContextDone(r)'
        BY <1>1, <2>1, <2>3 DEF Api!OpenFile, Api!ContextDone
      <3>4. /\ reader'[r].pc \in Stored => reader[r].pc \in Stored
            /\ reader'[r].pc = "live" => reader[r].pc = "live"
            /\ reader'[r].pos = reader[r].pos
        BY <1>0, <1>1, <2>1, <2>3 DEF Api!OpenFile, Stored, HandsOf
      <3> QED BY <1>0, <3>1, <3>2, <3>3, <3>4, ChainStays
    <2> QED BY <2>1, <2>2, <2>4, <2>5, <2>6, OneRequest
  <1>2. ASSUME Api!CallRuntime(r)
       PROVE  RequestInv'
    <2> DEFINE q == request[r]
               a == agent[r]
               d == [reader[r] EXCEPT !.pc = IF machineLog = <<>> THEN "over" ELSE "stored"]
    <2>1. /\ q \in RequestState(Len(machineLog)) /\ a \in AgentState(Len(machineLog))
          /\ d \in ReaderState(Len(machineLog))
          /\ q = p /\ a = agent[r]
          /\ d.pc = IF machineLog = <<>> THEN "over" ELSE "stored"
          /\ d.pos = reader[r].pos /\ d.wire = reader[r].wire
      BY <1>0, <1>2 DEF Api!CallRuntime, RequestState, AgentState, ReaderState
    <2>2. /\ request' = [request EXCEPT ![r] = q] /\ agent' = [agent EXCEPT ![r] = a]
          /\ reader' = [reader EXCEPT ![r] = d] /\ machine' = machine
          /\ machineLog' = machineLog
      BY <1>0, <1>2 DEF Api!CallRuntime
    <2>3. /\ request'[r] = q /\ agent'[r] = a /\ reader'[r] = d
      BY <1>0, <2>2
    <2> HIDE DEF q, a, d
    <2>4. HandsOf(r)'
      BY <1>0, <1>2, <2>1, <2>2, <2>3
      DEF Api!CallRuntime, HandsOf, Api!NothingComes, Api!ContextDone, Api!MayLeave,
          Api!Reading
    <2>5. EndOf(r)'
      BY <1>0, <1>2, <2>1, <2>2, <2>3
      DEF Api!CallRuntime, EndOf, HandsOf, Whole, LinesAsked, Api!Sources, Api!Reading
    <2>6. ChainOf(r)'
      <3>1. LinesAsked(r)' = LinesAsked(r)
        BY <2>1, <2>2, <2>3 DEF LinesAsked, Api!Sources
      <3>2. Chain(r)' = Chain(r)
        BY <1>0, <1>2, <2>1, <2>2, <2>3
        DEF Api!CallRuntime, Chain, OnWire, Api!Wanted, Put, HandsOf
      <3>3. Api!ContextDone(r) => Api!ContextDone(r)'
        BY <1>2, <2>1, <2>3 DEF Api!CallRuntime, Api!ContextDone
      <3>4. /\ reader'[r].pc \in Stored => reader[r].pc \in Stored
            /\ reader'[r].pc = "live" => reader[r].pc = "live"
            /\ reader'[r].pos = reader[r].pos
        BY <1>0, <1>2, <2>1, <2>3 DEF Api!CallRuntime, Stored, HandsOf
      <3> QED BY <1>0, <3>1, <3>2, <3>3, <3>4, ChainStays
    <2> QED BY <2>1, <2>2, <2>4, <2>5, <2>6, OneRequest
  <1>3. ASSUME Api!ReceiveLine(r)
       PROVE  RequestInv'
    <2> DEFINE q == request[r]
               a == IF Api!Wanted(r, reader[r].wire) THEN [pc |-> "holding", line |-> reader[r].wire]
                    ELSE agent[r]
               d == [reader[r] EXCEPT !.wire = 0]
    <2>1. /\ q \in RequestState(Len(machineLog)) /\ a \in AgentState(Len(machineLog))
          /\ d \in ReaderState(Len(machineLog))
          /\ q = p /\ d.pc = reader[r].pc /\ d.pos = reader[r].pos /\ d.wire = 0
      <3>1. reader[r].wire \in 0..Len(machineLog) /\ 0 \in 0..Len(machineLog)
        BY <1>0 DEF ReaderState
      <3>2. [pc |-> "holding", line |-> reader[r].wire] \in AgentState(Len(machineLog))
        BY <3>1 DEF AgentState
      <3>3. a \in AgentState(Len(machineLog))
        BY <1>0, <3>2
      <3> HIDE DEF a
      <3> QED BY <1>0, <3>1, <3>3 DEF ReaderState
    <2>2. /\ request' = [request EXCEPT ![r] = q] /\ agent' = [agent EXCEPT ![r] = a]
          /\ reader' = [reader EXCEPT ![r] = d] /\ machine' = machine
          /\ machineLog' = machineLog
      BY <1>0, <1>3 DEF Api!ReceiveLine
    <2>3. /\ request'[r] = q /\ agent'[r] = a /\ reader'[r] = d
      BY <1>0, <2>2
    <2> HIDE DEF q, d
    <2>4. HandsOf(r)'
      BY <1>0, <1>3, <2>1, <2>2, <2>3
      DEF Api!ReceiveLine, HandsOf, Api!NothingComes, Api!ContextDone, Api!MayLeave,
          Api!Reading
    <2>5. EndOf(r)'
      BY <1>0, <1>3, <2>1, <2>2, <2>3
      DEF Api!ReceiveLine, EndOf, HandsOf, Whole, LinesAsked, Api!Sources, Api!Reading
    <2>6. ChainOf(r)'
      <3>1. LinesAsked(r)' = LinesAsked(r)
        BY <2>1, <2>2, <2>3 DEF LinesAsked, Api!Sources
      <3>2. Chain(r)' = Chain(r)
        BY <1>0, <1>3, <2>1, <2>2, <2>3
        DEF Api!ReceiveLine, Chain, OnWire, Api!Wanted, Put, HandsOf
      <3>3. Api!ContextDone(r) => Api!ContextDone(r)'
        BY <1>3, <2>1, <2>3 DEF Api!ReceiveLine, Api!ContextDone
      <3>4. /\ reader'[r].pc \in Stored => reader[r].pc \in Stored
            /\ reader'[r].pc = "live" => reader[r].pc = "live"
            /\ reader'[r].pos = reader[r].pos
        BY <1>0, <1>3, <2>1, <2>3 DEF Api!ReceiveLine, Stored, HandsOf
      <3> QED BY <1>0, <3>1, <3>2, <3>3, <3>4, ChainStays
    <2> QED BY <2>1, <2>2, <2>4, <2>5, <2>6, OneRequest
  <1>4. ASSUME Api!StoredLinesEnd(r)
       PROVE  RequestInv'
    <2> DEFINE q == request[r]
               a == agent[r]
               d == [reader[r] EXCEPT !.pc = IF Api!Follows(r) THEN "attach" ELSE "over"]
    <2>1. /\ q \in RequestState(Len(machineLog)) /\ a \in AgentState(Len(machineLog))
          /\ d \in ReaderState(Len(machineLog))
          /\ q = p /\ a = agent[r] /\ d.pc = IF Api!Follows(r) THEN "attach" ELSE "over"
          /\ d.pos = reader[r].pos /\ d.wire = reader[r].wire
      BY <1>0, <1>4 DEF Api!StoredLinesEnd, RequestState, AgentState, ReaderState
    <2>2. /\ request' = [request EXCEPT ![r] = q] /\ agent' = [agent EXCEPT ![r] = a]
          /\ reader' = [reader EXCEPT ![r] = d] /\ machine' = machine
          /\ machineLog' = machineLog
      BY <1>0, <1>4 DEF Api!StoredLinesEnd
    <2>3. /\ request'[r] = q /\ agent'[r] = a /\ reader'[r] = d
      BY <1>0, <2>2
    <2> HIDE DEF q, a, d
    <2>4. HandsOf(r)'
      BY <1>0, <1>4, <2>1, <2>2, <2>3
      DEF Api!StoredLinesEnd, HandsOf, Api!NothingComes, Api!ContextDone, Api!MayLeave,
          Api!Reading
    <2>5. EndOf(r)'
      BY <1>0, <1>4, <2>1, <2>2, <2>3
      DEF Api!StoredLinesEnd, EndOf, HandsOf, Whole, LinesAsked, Api!Sources,
          Api!Reading
    <2>6. ChainOf(r)'
      <3>1. LinesAsked(r)' = LinesAsked(r)
        BY <2>1, <2>2, <2>3 DEF LinesAsked, Api!Sources
      <3>2. Chain(r)' = Chain(r)
        BY <1>0, <1>4, <2>1, <2>2, <2>3
        DEF Api!StoredLinesEnd, Chain, OnWire, Api!Wanted, Put, HandsOf
      <3>3. Api!ContextDone(r) => Api!ContextDone(r)'
        BY <1>4, <2>1, <2>3 DEF Api!StoredLinesEnd, Api!ContextDone
      <3>4. /\ reader'[r].pc \in Stored => reader[r].pc \in Stored
            /\ reader'[r].pc = "live" => reader[r].pc = "live"
            /\ reader'[r].pos = reader[r].pos
        BY <1>0, <1>4, <2>1, <2>3 DEF Api!StoredLinesEnd, Stored, HandsOf
      <3> QED BY <1>0, <3>1, <3>2, <3>3, <3>4, ChainStays
    <2> QED BY <2>1, <2>2, <2>4, <2>5, <2>6, OneRequest
  <1>5. ASSUME Api!ReaderReturns(r)
       PROVE  RequestInv'
    <2> DEFINE q == request[r]
               a == agent[r]
               d == [reader[r] EXCEPT !.pc = "cut"]
    <2>1. /\ q \in RequestState(Len(machineLog)) /\ a \in AgentState(Len(machineLog))
          /\ d \in ReaderState(Len(machineLog))
          /\ q = p /\ a = agent[r] /\ d.pc = "cut"
          /\ d.pos = reader[r].pos /\ d.wire = reader[r].wire
      BY <1>0, <1>5 DEF Api!ReaderReturns, RequestState, AgentState, ReaderState
    <2>2. /\ request' = [request EXCEPT ![r] = q] /\ agent' = [agent EXCEPT ![r] = a]
          /\ reader' = [reader EXCEPT ![r] = d] /\ machine' = machine
          /\ machineLog' = machineLog
      BY <1>0, <1>5 DEF Api!ReaderReturns
    <2>3. /\ request'[r] = q /\ agent'[r] = a /\ reader'[r] = d
      BY <1>0, <2>2
    <2> HIDE DEF q, a, d
    <2>4. HandsOf(r)'
      BY <1>0, <1>5, <2>1, <2>2, <2>3
      DEF Api!ReaderReturns, HandsOf, Api!NothingComes, Api!ContextDone, Api!MayLeave,
          Api!Reading
    <2>5. EndOf(r)'
      BY <1>0, <1>5, <2>1, <2>2, <2>3
      DEF Api!ReaderReturns, EndOf, HandsOf, Whole, LinesAsked, Api!Sources, Api!Reading
    <2>6. ChainOf(r)'
      BY <1>5, <2>1, <2>3 DEF Api!ReaderReturns, Api!MayLeave, ChainOf, Api!ContextDone
    <2> QED BY <2>1, <2>2, <2>4, <2>5, <2>6, OneRequest
  <1> QED BY <1>1, <1>2, <1>3, <1>4, <1>5

(* The lines asked for are no later than the reader's position.            *)
LEMMA AskedUpTo ==
    ASSUME NEW r, NEW lines, Holding(lines, LinesAsked(r))
    PROVE  UpTo(lines, reader[r].pos)
  BY DEF Holding, LinesAsked, UpTo

(* One more line is read: it is later than those on their way, but for the *)
(* first live one, which may be the last stored one again.                 *)
LEMMA ReadStep ==
    ASSUME RequestInv, NEW r \in Requests, Api!ReadLine(r)
    PROVE  RequestInv'
  <1>0. /\ request[r] \in RequestState(Len(machineLog))
        /\ agent[r] \in AgentState(Len(machineLog))
        /\ reader[r] \in ReaderState(Len(machineLog)) /\ Api!TypeOK
        /\ Len(machineLog) \in Nat /\ HandsOf(r) /\ ChainOf(r) /\ EndOf(r)
        /\ request = [request EXCEPT ![r] = request[r]]
        /\ agent = [agent EXCEPT ![r] = agent[r]]
        /\ reader \in [Requests -> ReaderState(Len(machineLog))]
    BY Given
  <1> DEFINE pos == reader[r].pos
             line == pos + 1
             sent == IF Api!Wanted(r, line) THEN line ELSE 0
             wire == IF Api!FromRuntime(r) /\ ~Api!Wanted(r, line) THEN 0 ELSE line
             d == [reader[r] EXCEPT !.pos = line, !.wire = wire]
             before == Put(Put(request[r].got, request[r].line), agent[r].line)
  <1>1. /\ reader[r].pc \in {"stored", "live"} /\ reader[r].wire = 0
        /\ pos \in Nat /\ line \in 1..Len(machineLog) /\ line \in Nat /\ line # 0
    BY <1>0 DEF Api!ReadLine, ReaderState
  <1>2. wire \in 0..Len(machineLog)
    BY <1>0, <1>1
  <1>3. /\ reader' = [reader EXCEPT ![r] = d] /\ request' = request /\ agent' = agent
        /\ machine' = machine /\ machineLog' = machineLog
    BY <1>0 DEF Api!ReadLine
  <1>4. /\ d \in ReaderState(Len(machineLog)) /\ d.pc = reader[r].pc
        /\ d.pos = line /\ d.wire = wire
    <2>1. line \in 0..Len(machineLog)
      BY <1>0, <1>1
    <2> HIDE DEF line, wire
    <2> QED BY <1>0, <1>2, <2>1 DEF ReaderState
  <1>5. reader'[r] = d
    BY <1>0, <1>3
  <1>6. wire = 0 \/ wire = line
    OBVIOUS
  <1>7. before \in Seq(Nat) /\ sent \in Nat /\ Chain(r) = before
    BY <1>0, <1>1, ChainType DEF Chain, OnWire, Put
  <1>8. Chain(r)' = Put(before, sent)
    <2>1. OnWire(r)' = sent
      <3>1. OnWire(r)' = IF wire # 0 /\ Api!Wanted(r, wire) THEN wire ELSE 0
        <4>1. reader'[r].wire = wire
          BY <1>4, <1>5
        <4> HIDE DEF wire
        <4> QED BY <1>3, <4>1 DEF OnWire, Api!Wanted
      <3>2. line # 0
        BY <1>1
      <3> HIDE DEF line
      <3> QED BY <3>1, <3>2
    <2> QED BY <1>3, <2>1 DEF Chain
  <1>9. LinesAsked(r)' = IF Api!Wanted(r, line) THEN LinesAsked(r) \cup {line} ELSE LinesAsked(r)
    <2>1. 1..line = 1..pos \cup {line}
      BY <1>1
    <2>2. LinesAsked(r)' = {l \in 1..line : machineLog[l] \in Api!Sources(r)}
      BY <1>3, <1>4, <1>5 DEF LinesAsked, Api!Sources
    <2>3. Api!Wanted(r, line) <=> machineLog[line] \in Api!Sources(r)
      BY <1>0, <1>1, WantedMeans
    <2> HIDE DEF line, pos
    <2> QED BY <2>1, <2>2, <2>3 DEF LinesAsked, pos
  <1> HIDE DEF d, wire, before, line, pos
  <1>10. Api!ContextDone(r)' <=> Api!ContextDone(r)
    BY <1>3 DEF Api!ContextDone
  <1>11. HandsOf(r)'
    BY <1>0, <1>1, <1>3, <1>4, <1>5, <1>10 DEF HandsOf, Api!NothingComes
  <1>12. EndOf(r)'
    BY <1>0, <1>1, <1>3 DEF EndOf
  <1>13. ChainOf(r)'
    <2>1. SUFFICES ASSUME ~Api!ContextDone(r) PROVE ChainOf(r)'
      BY <1>10 DEF ChainOf
    <2>2. FedLines(before)
      BY <1>0, <1>7, <2>1 DEF ChainOf
    <2>3. line = pos + 1 /\ pos < line /\ reader'[r].pos = line /\ reader'[r].pc = reader[r].pc
      BY <1>1, <1>4, <1>5 DEF line
    <2>4. CASE ~Api!Wanted(r, line)
      <3>1. Chain(r)' = before /\ LinesAsked(r)' = LinesAsked(r)
        BY <1>7, <1>8, <1>9, <2>4, PutGives
      <3>2. CASE reader[r].pc = "stored"
        <4>1. Whole(r, before)
          BY <1>0, <1>7, <2>1, <3>2 DEF ChainOf, Stored
        <4>2. Whole(r, Chain(r))'
          BY <3>1, <4>1 DEF Whole
        <4> QED BY <2>2, <2>3, <3>1, <3>2, <4>2 DEF ChainOf
      <3>3. CASE reader[r].pc = "live"
        <4>1. UpTo(before, line)
          <5>1. UpTo(before, line) \/ UpTo(before, pos)
            BY <1>0, <1>7, <2>1, <2>3, <3>3 DEF ChainOf, pos
          <5>2. \A i \in 1..Len(before) : before[i] \in Nat
            BY <1>7
          <5> QED BY <1>1, <2>3, <5>1, <5>2 DEF UpTo
        <4> QED BY <2>2, <2>3, <3>1, <3>3, <4>1 DEF ChainOf, Stored
      <3> QED BY <1>1, <3>2, <3>3
    <2>5. CASE Api!Wanted(r, line)
      <3>1. Chain(r)' = Put(before, line) /\ LinesAsked(r)' = LinesAsked(r) \cup {line}
        BY <1>8, <1>9, <2>5
      <3>2. CASE reader[r].pc = "stored"
        <4>1. Rising(before) /\ Holding(before, LinesAsked(r))
          BY <1>0, <1>7, <2>1, <3>2 DEF ChainOf, Stored, Whole
        <4>2. UpTo(before, pos)
          BY <4>1, AskedUpTo DEF pos
        <4>3. Rising(Put(before, line)) /\ FedLines(Put(before, line))
          BY <1>1, <1>7, <2>2, <2>3, <4>1, <4>2, PutNext
        <4>4. Holding(Put(before, line), LinesAsked(r) \cup {line})
          BY <1>1, <1>7, <4>1, PutHolding
        <4>5. Whole(r, Chain(r))'
          BY <3>1, <4>3, <4>4 DEF Whole
        <4> QED BY <2>3, <3>1, <3>2, <4>3, <4>5 DEF ChainOf
      <3>3. CASE reader[r].pc = "live"
        <4>1. FedLines(Put(before, line)) /\ UpTo(Put(before, line), line)
          <5>1. \/ Rising(before) /\ UpTo(before, line)
                \/ UpTo(before, pos)
            BY <1>0, <1>7, <2>1, <2>3, <3>3 DEF ChainOf, pos
          <5>2. CASE Rising(before) /\ UpTo(before, line)
            BY <1>1, <1>7, <5>2, PutTwice
          <5>3. CASE UpTo(before, pos)
            BY <1>1, <1>7, <2>2, <2>3, <5>3, PutNext
          <5> QED BY <5>1, <5>2, <5>3
        <4> QED BY <2>3, <3>1, <3>3, <4>1 DEF ChainOf, Stored
      <3> QED BY <1>1, <3>2, <3>3
    <2> QED BY <2>4, <2>5
  <1> QED BY <1>0, <1>3, <1>4, <1>11, <1>12, <1>13, OneRequest

(* The reader turns to the live lines.                                     *)
LEMMA AttachRequest ==
    ASSUME RequestInv, NEW r \in Requests, Api!Attach(r)
    PROVE  RequestInv'
  <1>0. /\ request[r] \in RequestState(Len(machineLog))
        /\ agent[r] \in AgentState(Len(machineLog))
        /\ reader[r] \in ReaderState(Len(machineLog)) /\ Api!TypeOK
        /\ Len(machineLog) \in Nat /\ HandsOf(r) /\ ChainOf(r) /\ EndOf(r)
        /\ request = [request EXCEPT ![r] = request[r]]
        /\ agent = [agent EXCEPT ![r] = agent[r]]
        /\ reader \in [Requests -> ReaderState(Len(machineLog))]
    BY Given
  <1>1. PICK pos \in Api!FirstLive(r) : reader' = [reader EXCEPT ![r].pc = "live", ![r].pos = pos]
    BY DEF Api!Attach
  <1> DEFINE d == [reader[r] EXCEPT !.pc = "live", !.pos = pos]
  <1>2. Len(machineLog) # 0
    <2>1. machineLog # <<>> /\ machineLog \in Seq(Api!Source)
      BY <1>0, TypeMeans DEF HandsOf, Api!Attach
    <2> QED BY <2>1
  <1>3. pos \in 0..Len(machineLog) /\ Len(machineLog) <= pos + 1
    BY <1>0, <1>1, <1>2 DEF Api!FirstLive
  <1>4. d \in ReaderState(Len(machineLog)) /\ d.pc = "live" /\ d.pos = pos /\ d.wire = reader[r].wire
    BY <1>0, <1>3 DEF ReaderState
  <1>5. /\ reader' = [reader EXCEPT ![r] = d] /\ request' = request /\ agent' = agent
        /\ machine' = machine /\ machineLog' = machineLog /\ reader[r].pc = "attach"
    BY <1>0, <1>1 DEF Api!Attach
  <1>6. reader'[r] = d
    BY <1>0, <1>5
  <1> HIDE DEF d
  <1>7. Api!ContextDone(r)' <=> Api!ContextDone(r)
    BY <1>5 DEF Api!ContextDone
  <1>8. HandsOf(r)'
    BY <1>0, <1>4, <1>5, <1>6, <1>7 DEF HandsOf, Api!NothingComes
  <1>9. EndOf(r)'
    BY <1>0, <1>5 DEF EndOf
  <1>10. ChainOf(r)'
    <2>1. SUFFICES ASSUME ~Api!ContextDone(r) PROVE ChainOf(r)'
      BY <1>7 DEF ChainOf
    <2>2. Chain(r)' = Chain(r)
      BY <1>4, <1>5, <1>6 DEF Chain, OnWire, Api!Wanted
    <2>3. Rising(Chain(r)) /\ FedLines(Chain(r)) /\ Holding(Chain(r), LinesAsked(r))
      BY <1>0, <1>5, <2>1 DEF ChainOf, Stored, Whole
    <2>4. UpTo(Chain(r), reader[r].pos) /\ Chain(r) \in Seq(Nat)
      BY <1>0, <2>3, AskedUpTo, ChainType
    <2>5. UpTo(Chain(r), pos + 1)
      <3>1. reader[r].pos <= pos + 1 /\ reader[r].pos \in Nat /\ pos + 1 \in Nat
        BY <1>0, <1>3 DEF ReaderState
      <3>2. \A i \in 1..Len(Chain(r)) : Chain(r)[i] \in Nat
        BY <2>4
      <3> QED BY <2>4, <3>1, <3>2 DEF UpTo
    <2> QED BY <1>4, <1>6, <2>2, <2>3, <2>5 DEF ChainOf, Stored
  <1> QED BY <1>0, <1>4, <1>5, <1>8, <1>9, <1>10, OneRequest

(* A line that is written changes nothing for those read before.           *)
LEMMA WriteStep ==
    ASSUME RequestInv, Api!WriteLog
    PROVE  RequestInv'
  <1>1. PICK source \in Api!Source : machineLog' = Append(machineLog, source)
    BY DEF Api!WriteLog
  <1>2. /\ request' = request /\ agent' = agent /\ reader' = reader
        /\ machine' = machine
        /\ Api!TypeOK
    BY DEF Api!WriteLog, RequestInv
  <1>3. /\ machineLog \in Seq(Api!Source) /\ Len(machineLog) \in Nat
        /\ machineLog' \in Seq(Api!Source) /\ Len(machineLog') = Len(machineLog) + 1
        /\ \A i \in 1..Len(machineLog) : machineLog'[i] = machineLog[i]
    BY <1>1, <1>2, TypeMeans
  <1>4. Api!TypeOK'
    <2>1. \A n \in Nat : 0..n \subseteq 0..(n + 1) /\ Seq(1..n) \subseteq Seq(1..(n + 1))
      <3>1. \A n \in Nat : 0..n \subseteq 0..(n + 1) /\ 1..n \subseteq 1..(n + 1)
        OBVIOUS
      <3>2. \A S, T : S \subseteq T => Seq(S) \subseteq Seq(T)
        OBVIOUS
      <3> QED BY <3>1, <3>2
    <2>2. \A n \in Nat : /\ RequestState(n) \subseteq RequestState(n + 1)
                        /\ AgentState(n) \subseteq AgentState(n + 1)
                        /\ ReaderState(n) \subseteq ReaderState(n + 1)
      BY <2>1 DEF RequestState, AgentState, ReaderState
    <2>3. /\ request' \in [Requests -> RequestState(Len(machineLog'))]
          /\ agent' \in [Requests -> AgentState(Len(machineLog'))]
          /\ reader' \in [Requests -> ReaderState(Len(machineLog'))]
      BY <1>2, <1>3, <2>2, TypeMeans
    <2>4. machine' \in [controller : BOOLEAN, runtime : BOOLEAN]
      BY <1>2, TypeMeans
    <2> QED BY <1>3, <2>3, <2>4 DEF Api!TypeOK, RequestState, AgentState, ReaderState
  <1>5. ASSUME NEW r \in Requests PROVE HandsOf(r)' /\ ChainOf(r)' /\ EndOf(r)'
    <2>0. /\ HandsOf(r) /\ ChainOf(r) /\ EndOf(r)
          /\ reader[r].pos \in 0..Len(machineLog)
          /\ reader[r].wire \in 0..Len(machineLog)
      BY Given DEF ReaderState
    <2>1. LinesAsked(r)' = LinesAsked(r)
      <3>1. 1..reader[r].pos \subseteq 1..Len(machineLog)
        BY <1>3, <2>0
      <3> QED BY <1>2, <1>3, <3>1 DEF LinesAsked, Api!Sources
    <2>2. Chain(r)' = Chain(r)
      <3>1. reader[r].wire # 0 => reader[r].wire \in 1..Len(machineLog)
        BY <1>3, <2>0
      <3>2. OnWire(r)' = OnWire(r)
        BY <1>2, <1>3, <3>1 DEF OnWire, Api!Wanted
      <3> QED BY <1>2, <3>2 DEF Chain
    <2>3. Api!ContextDone(r)' <=> Api!ContextDone(r)
      BY <1>2 DEF Api!ContextDone
    <2>4. ChainOf(r)'
      BY <1>2, <2>0, <2>1, <2>2, <2>3, ChainStays
    <2>5. machineLog' # <<>>
      BY <1>3
    <2>6. HandsOf(r)'
      BY <1>2, <2>0, <2>3, <2>5 DEF HandsOf, Api!NothingComes
    <2>7. EndOf(r)'
      BY <1>2, <2>0, <2>1 DEF EndOf, Whole
    <2> QED BY <2>4, <2>6, <2>7
  <1> QED BY <1>4, <1>5 DEF RequestInv

(* The end of the runtime cuts streams short.                              *)
LEMMA EndsStep ==
    ASSUME RequestInv, Api!RuntimeEnds
    PROVE  RequestInv'
  <1>1. PICK lost \in SUBSET {r \in Requests : Api!FromRuntime(r) /\ reader[r].wire # 0} :
          reader' = [r \in Requests |->
            IF r \in lost THEN [reader[r] EXCEPT !.pc = "cut", !.wire = 0]
            ELSE IF Api!FromRuntime(r) /\ Api!Reading(r) THEN [reader[r] EXCEPT !.pc = "cut"]
            ELSE reader[r]]
    BY DEF Api!RuntimeEnds
  <1>2. /\ request' = request /\ agent' = agent /\ machineLog' = machineLog
        /\ machine' = [machine EXCEPT !.runtime = FALSE] /\ Api!TypeOK
    BY DEF Api!RuntimeEnds, RequestInv
  <1>3. ASSUME NEW r \in Requests
        PROVE  /\ reader'[r] \in ReaderState(Len(machineLog))
               /\ reader'[r].pos = reader[r].pos
               /\ \/ reader'[r] = reader[r]
                  \/ /\ Api!FromRuntime(r) /\ reader'[r].pc = "cut"
                     /\ \/ reader'[r].wire = reader[r].wire /\ Api!Reading(r)
                        \/ reader'[r].wire = 0 /\ reader[r].wire # 0
    <2>1. reader[r] \in ReaderState(Len(machineLog)) /\ Len(machineLog) \in Nat
      BY Given
    <2>2. ASSUME NEW wire \in 0..Len(machineLog),
                 reader'[r] = [reader[r] EXCEPT !.pc = "cut", !.wire = wire]
          PROVE  /\ reader'[r] \in ReaderState(Len(machineLog)) /\ reader'[r].pc = "cut"
                 /\ reader'[r].pos = reader[r].pos /\ reader'[r].wire = wire
      BY <2>1, <2>2 DEF ReaderState
    <2>3. CASE r \in lost
      <3>1. reader'[r] = [reader[r] EXCEPT !.pc = "cut", !.wire = 0]
        BY <1>1, <2>3
      <3>2. Api!FromRuntime(r) /\ reader[r].wire # 0
        BY <1>1, <2>3
      <3>3. 0 \in 0..Len(machineLog)
        BY <2>1
      <3> QED BY <2>2, <3>1, <3>2, <3>3
    <2>4. CASE r \notin lost /\ Api!FromRuntime(r) /\ Api!Reading(r)
      <3>1. reader'[r] = [reader[r] EXCEPT !.pc = "cut"]
        BY <1>1, <2>4
      <3>2. /\ reader[r].wire \in 0..Len(machineLog)
            /\ reader'[r] = [reader[r] EXCEPT !.pc = "cut", !.wire = reader[r].wire]
        BY <2>1, <3>1 DEF ReaderState
      <3> QED BY <2>2, <2>4, <3>2
    <2>5. CASE r \notin lost /\ ~(Api!FromRuntime(r) /\ Api!Reading(r))
      BY <1>1, <2>1, <2>5
    <2> QED BY <2>3, <2>4, <2>5
  <1>4. Api!TypeOK'
    <2>1. reader' \in [Requests -> ReaderState(Len(machineLog'))]
      BY <1>1, <1>2, <1>3
    <2>2. /\ request' \in [Requests -> RequestState(Len(machineLog'))]
          /\ agent' \in [Requests -> AgentState(Len(machineLog'))]
          /\ machineLog' \in Seq(Api!Source)
          /\ machine' \in [controller : BOOLEAN, runtime : BOOLEAN]
      BY <1>2, TypeMeans
    <2> QED BY <2>1, <2>2 DEF Api!TypeOK, RequestState, AgentState, ReaderState
  <1>5. ASSUME NEW r \in Requests PROVE HandsOf(r)' /\ ChainOf(r)' /\ EndOf(r)'
    <2>0. HandsOf(r) /\ ChainOf(r) /\ EndOf(r)
      BY Given
    <2>1. /\ LinesAsked(r)' = LinesAsked(r)
          /\ Api!ContextDone(r)' <=> Api!ContextDone(r)
      BY <1>2, <1>3 DEF LinesAsked, Api!Sources, Api!ContextDone
    <2>2. HandsOf(r)'
      BY <1>2, <1>3, <2>0, <2>1
      DEF HandsOf, Api!NothingComes, Api!FromRuntime, Api!Reading
    <2>3. EndOf(r)'
      BY <1>2, <1>3, <2>0, <2>1 DEF EndOf, Whole, Api!Reading
    <2>4. ChainOf(r)'
      <3>1. CASE reader'[r] = reader[r]
        <4>1. Chain(r)' = Chain(r)
          BY <1>2, <3>1 DEF Chain, OnWire, Api!Wanted
        <4> QED BY <2>0, <2>1, <3>1, <4>1, ChainStays
      <3>2. CASE reader'[r].pc = "cut"
        <4> DEFINE before == Put(Put(request[r].got, request[r].line), agent[r].line)
        <4>1. OnWire(r)' = OnWire(r) \/ OnWire(r)' = 0
          BY <1>2, <1>3 DEF OnWire, Api!Wanted
        <4>2. Chain(r)' = Chain(r) \/ Chain(r)' = before
          BY <1>2, <4>1 DEF Chain, Put
        <4>3. FedLines(Chain(r)) => FedLines(before)
          BY <1>2, ChainType, FedBack DEF Chain
        <4> HIDE DEF before
        <4> QED BY <2>0, <2>1, <3>2, <4>2, <4>3 DEF ChainOf, Stored
      <3> QED BY <1>3, <3>1, <3>2
    <2> QED BY <2>2, <2>3, <2>4
  <1> QED BY <1>4, <1>5 DEF RequestInv

LEMMA MachineStep ==
    ASSUME RequestInv, Api!RuntimeStarts \/ Api!Retire \/ UNCHANGED Api!vars
    PROVE  RequestInv'
  <1>1. /\ request' = request /\ agent' = agent /\ reader' = reader
        /\ machineLog' = machineLog
        /\ Api!TypeOK
    BY DEF Api!RuntimeStarts, Api!Retire, Api!vars, RequestInv
  <1>2. machine' \in [controller : BOOLEAN, runtime : BOOLEAN]
    BY <1>1 DEF Api!RuntimeStarts, Api!Retire, Api!vars, Api!TypeOK
  <1>3. Api!TypeOK'
    BY <1>1, <1>2 DEF Api!TypeOK
  <1>4. ASSUME NEW r \in Requests PROVE HandsOf(r)' /\ ChainOf(r)' /\ EndOf(r)'
    <2>1. HandsOf(r) /\ ChainOf(r) /\ EndOf(r)
      BY DEF RequestInv
    <2>2. /\ LinesAsked(r)' = LinesAsked(r) /\ Chain(r)' = Chain(r)
          /\ Api!ContextDone(r)' <=> Api!ContextDone(r)
      BY <1>1 DEF LinesAsked, Api!Sources, Chain, OnWire, Api!Wanted, Api!ContextDone
    <2> QED BY <1>1, <2>1, <2>2 DEF HandsOf, Api!NothingComes, ChainOf, EndOf, Whole
  <1> QED BY <1>3, <1>4 DEF RequestInv

(* Before the first request.                                               *)
LEMMA InitialRequests ==
    ASSUME Api!LogRequestsAssumption, Api!Init
    PROVE  RequestInv
  <1>1. /\ machineLog = <<>> /\ Len(machineLog) = 0 /\ machineLog \in Seq(Api!Source)
        /\ machine = [controller |-> TRUE, runtime |-> FALSE]
    BY DEF Api!Init
  <1>2. Api!NoRequest \in RequestState(0) /\ [pc |-> "none", line |-> 0] \in AgentState(0)
    BY DEF Api!NoRequest, RequestState, AgentState, Api!Source
  <1>3. [pc |-> "none", pos |-> 0, wire |-> 0] \in ReaderState(0)
    BY DEF ReaderState
  <1>4. Api!TypeOK
    BY <1>1, <1>2, <1>3, TypeMeans DEF Api!Init
  <1>5. ASSUME NEW r \in Requests PROVE HandsOf(r) /\ ChainOf(r) /\ EndOf(r)
    <2>1. /\ request[r].pc = "none" /\ request[r].line = 0 /\ request[r].got = <<>>
          /\ agent[r].pc = "none" /\ agent[r].line = 0
          /\ reader[r].pc = "none" /\ reader[r].pos = 0 /\ reader[r].wire = 0
      BY DEF Api!Init, Api!NoRequest
    <2>2. Chain(r) = <<>>
      BY <2>1 DEF Chain, OnWire, Put
    <2>3. LinesAsked(r) = {}
      <3>1. 1..0 = {}
        OBVIOUS
      <3> QED BY <2>1, <3>1 DEF LinesAsked
    <2>4. Rising(<<>>) /\ Holding(<<>>, {}) /\ <<>> \in Seq(Nat)
      BY DEF Rising, Holding
    <2>5. FedLines(<<>>)
      BY <2>4, RisingFed
    <2> QED BY <2>1, <2>2, <2>3, <2>4, <2>5 DEF HandsOf, ChainOf, EndOf, Whole
  <1> QED BY <1>4, <1>5 DEF RequestInv

(* Every step keeps the invariant.                                         *)
LEMMA RequestSteps ==
    ASSUME RequestInv, [Api!Next]_(Api!vars)
    PROVE  RequestInv'
  <1>1. ASSUME NEW r \in Requests,
               Api!Ask(r) \/ Api!HangUp(r) \/ Api!Handler(r) \/ Api!Agent(r) \/ Api!Reader(r)
        PROVE  RequestInv'
    <2>1. CASE Api!Ask(r) \/ Api!HangUp(r) \/ Api!LookUp(r) \/ Api!CallReturns(r)
      BY <2>1, HandlerSteps
    <2>2. CASE Api!CallFails(r) \/ Api!HandleLine(r) \/ Api!SendLine(r)
      BY <2>2, HandlerSteps
    <2>3. CASE Api!SendFails(r) \/ Api!AgentReturns(r)
      BY <2>3, HandlerSteps
    <2>4. CASE Api!OpenFile(r) \/ Api!CallRuntime(r) \/ Api!ReceiveLine(r)
      BY <2>4, ReaderSteps
    <2>5. CASE Api!StoredLinesEnd(r) \/ Api!ReaderReturns(r)
      BY <2>5, ReaderSteps
    <2>6. CASE Api!HandlerReturns(r) \/ Api!ReadLine(r) \/ Api!Attach(r)
      BY <2>6, ReturnStep, ReadStep, AttachRequest
    <2> QED BY <1>1, <2>1, <2>2, <2>3, <2>4, <2>5, <2>6
            DEF Api!Handler, Api!Agent, Api!Reader
  <1>2. CASE Api!RuntimeStarts \/ Api!Retire \/ UNCHANGED Api!vars
    BY <1>2, MachineStep
  <1>3. CASE Api!WriteLog \/ Api!RuntimeEnds
    BY <1>3, WriteStep, EndsStep
  <1> QED BY <1>1, <1>2, <1>3 DEF Api!Next

(* The API server's requests are answered in full (machineservice          *)
(* GetMachineLogs and GetContainerLogs, apiserver): when the file, or a    *)
(* stream that does not follow, has come to its end, the client was sent,  *)
(* each once, the lines of what it asked for, up to the last one read.     *)
THEOREM AnsweredCorrect ==
    ASSUME Api!LogRequestsAssumption PROVE Api!Spec => []Api!AnsweredInFull
  <1>1. Api!Init => RequestInv
    BY InitialRequests
  <1>2. RequestInv /\ [Api!Next]_(Api!vars) => RequestInv'
    BY RequestSteps
  <1>3. RequestInv => Api!AnsweredInFull
    <2>1. SUFFICES ASSUME RequestInv, NEW r \in Requests, Api!Answered(r), ~request[r].gone
                   PROVE  LET got == request[r].got
                          IN /\ \A i \in 1..(Len(got) - 1) : got[i] < got[i + 1]
                             /\ {got[i] : i \in DOMAIN got} =
                                  {line \in 1..reader[r].pos : machineLog[line] \in Api!Sources(r)}
      BY DEF Api!AnsweredInFull
    <2> DEFINE got == request[r].got
    <2>2. Whole(r, got)
      BY <2>1, Given, AllArrived DEF Api!Answered, Api!Hanging, EndOf
    <2>3. got \in Seq(Nat) /\ DOMAIN got = 1..Len(got) /\ Len(got) \in Nat
      BY <2>1, Given, ChainType
    <2> HIDE DEF got
    <2>4. \A i \in 1..(Len(got) - 1) : got[i] < got[i + 1]
      <3>1. \A i \in 1..(Len(got) - 1) : i \in 1..Len(got) /\ i + 1 \in 1..Len(got) /\ i < i + 1
        BY <2>3
      <3> QED BY <2>2, <3>1 DEF Whole, Rising
    <2>5. {got[i] : i \in DOMAIN got} = LinesAsked(r)
      BY <2>2, <2>3 DEF Whole, Holding
    <2> QED BY <2>4, <2>5 DEF got, LinesAsked
  <1> QED BY <1>1, <1>2, <1>3, PTL DEF Api!Spec

(* The agent's handlers implement LogFeed for their clients, whatever is   *)
(* cut short or given up on the way.                                       *)
THEOREM AgentFeedCorrect ==
    ASSUME Api!LogRequestsAssumption PROVE Api!Spec => Api!AgentFeedSpec
  <1>1. Api!Init => RequestInv
    BY InitialRequests
  <1>2. RequestInv /\ [Api!Next]_(Api!vars) => RequestInv'
    BY RequestSteps
  <1>3. Api!Init => Api!AgentFeed!Init
    BY DEF Api!Init, Api!NoRequest, Api!AgentFeed!Init
  <1> DEFINE gots == [r \in Requests |-> request[r].got]
  <1>4. ASSUME RequestInv, [Api!Next]_(Api!vars)
        PROVE  [Api!AgentFeed!Next]_<<Len(machineLog), gots>>
    <2>1. Api!TypeOK
      BY <1>4 DEF RequestInv
    <2>2. ASSUME NEW r \in Requests, Api!SendLine(r), ~request[r].gone
          PROVE  Api!AgentFeed!Next
      <3> DEFINE lines == Append(request[r].got, request[r].line)
      <3>1. /\ request[r].line \in 1..Len(machineLog) /\ request[r].line # 0
            /\ ~Api!ContextDone(r) /\ ChainOf(r)
            /\ request \in [Requests -> RequestState(Len(machineLog))]
        BY <1>4, <2>2, Given DEF Api!SendLine, HandsOf, RequestState, Api!ContextDone
      <3>2. lines = Put(request[r].got, request[r].line)
        BY <3>1 DEF Put
      <3>3. FedLines(lines)
        BY <2>1, <3>1, <3>2, ChainType, FedBack DEF ChainOf, Chain
      <3>4. /\ machineLog' = machineLog
            /\ request' = [request EXCEPT ![r] =
                 [request[r] EXCEPT !.pc = "select", !.line = 0, !.got = lines]]
        BY <2>2 DEF Api!SendLine
      <3>5. \A q \in RequestState(Len(machineLog)) : \A new :
              [q EXCEPT !.pc = "select", !.line = 0, !.got = new].got = new
        BY DEF RequestState
      <3> HIDE DEF lines
      <3>6. gots' = [gots EXCEPT ![r] = lines]
        BY <3>1, <3>4, <3>5
      <3>7. gots[r] = request[r].got /\ Len(machineLog)' = Len(machineLog)
        BY <3>4
      <3> QED BY <3>1, <3>3, <3>6, <3>7
              DEF lines, FedLines, Api!AgentFeed!Next, Api!AgentFeed!Deliver
    <2>3. CASE Api!WriteLog
      <3>1. machineLog \in Seq(Api!Source)
        BY <2>1, TypeMeans
      <3>2. Len(machineLog') = Len(machineLog) + 1 /\ gots' = gots
        BY <2>3, <3>1 DEF Api!WriteLog
      <3> QED BY <3>2 DEF Api!AgentFeed!Next, Api!AgentFeed!WriteLine
    <2>4. CASE ~Api!WriteLog /\ \A r \in Requests : Api!SendLine(r) => request[r].gone
      <3>1. machineLog' = machineLog
        BY <1>4, <2>4
        DEF Api!Next, Api!Handler, Api!Agent, Api!Reader, Api!vars, Api!RuntimeStarts,
            Api!RuntimeEnds, Api!Retire, Api!Ask, Api!HangUp,
            Api!LookUp, Api!OpenFile, Api!CallRuntime, Api!CallReturns, Api!CallFails,
            Api!HandleLine, Api!SendLine,
            Api!SendFails, Api!HandlerReturns, Api!ReceiveLine, Api!AgentReturns,
            Api!ReadLine, Api!StoredLinesEnd,
            Api!Attach, Api!ReaderReturns
      <3>2. ASSUME NEW s \in Requests PROVE request'[s].got = request[s].got
        <4>1. request \in [Requests -> RequestState(Len(machineLog))]
          BY <2>1, TypeMeans
        <4>2. CASE request' = request
          BY <4>2
        <4>3. ASSUME NEW r \in Requests,
                     Api!Ask(r) \/ Api!HangUp(r) \/ Api!LookUp(r) \/ Api!OpenFile(r) \/ Api!CallReturns(r)
              PROVE  request'[s].got = request[s].got
          <5>1. CASE Api!Ask(r)
            BY <4>1, <5>1 DEF Api!Ask, RequestState
          <5>2. CASE Api!HangUp(r)
            BY <4>1, <5>2 DEF Api!HangUp, RequestState
          <5>3. CASE Api!LookUp(r)
            BY <4>1, <5>3 DEF Api!LookUp, RequestState
          <5>4. CASE Api!OpenFile(r)
            <6>1. \E pc : request' = [request EXCEPT ![r].pc = pc]
              BY <5>4 DEF Api!OpenFile
            <6> QED BY <4>1, <6>1 DEF RequestState
          <5>5. CASE Api!CallReturns(r)
            BY <4>1, <5>5 DEF Api!CallReturns, RequestState
          <5> QED BY <4>3, <5>1, <5>2, <5>3, <5>4, <5>5
        <4>4. ASSUME NEW r \in Requests,
                     Api!CallFails(r) \/ Api!HandleLine(r) \/ Api!SendFails(r) \/ Api!HandlerReturns(r)
              PROVE  request'[s].got = request[s].got
          <5>1. CASE Api!CallFails(r)
            BY <4>1, <5>1 DEF Api!CallFails, RequestState
          <5>2. CASE Api!HandleLine(r)
            BY <4>1, <5>2 DEF Api!HandleLine, RequestState
          <5>3. CASE Api!SendFails(r)
            BY <4>1, <5>3 DEF Api!SendFails, RequestState
          <5>4. CASE Api!HandlerReturns(r)
            <6>1. \E pc : request' = [request EXCEPT ![r].pc = pc]
              BY <5>4 DEF Api!HandlerReturns
            <6> QED BY <4>1, <6>1 DEF RequestState
          <5> QED BY <4>4, <5>1, <5>2, <5>3, <5>4
        <4>5. ASSUME NEW r \in Requests, Api!SendLine(r)
              PROVE  request'[s].got = request[s].got
          BY <2>4, <4>1, <4>5 DEF Api!SendLine, RequestState
        <4>6. \/ request' = request
              \/ \E r \in Requests :
                   \/ Api!Ask(r) \/ Api!HangUp(r) \/ Api!LookUp(r) \/ Api!OpenFile(r) \/ Api!CallReturns(r)
                   \/ Api!CallFails(r) \/ Api!HandleLine(r) \/ Api!SendFails(r) \/ Api!HandlerReturns(r)
                   \/ Api!SendLine(r)
          BY <1>4
          DEF Api!Next, Api!Handler, Api!Agent, Api!Reader, Api!vars,
              Api!RuntimeStarts, Api!WriteLog, Api!RuntimeEnds, Api!Retire,
              Api!CallRuntime, Api!ReceiveLine, Api!AgentReturns, Api!ReadLine,
              Api!StoredLinesEnd, Api!Attach,
              Api!ReaderReturns
        <4> QED BY <4>2, <4>3, <4>4, <4>5, <4>6
      <3>3. gots' = gots
        BY <3>2
      <3> QED BY <3>1, <3>3
    <2> QED BY <1>4, <2>2, <2>3, <2>4
  <1>5. Api!Spec => []RequestInv
    BY <1>1, <1>2, PTL DEF Api!Spec
  <1> QED BY <1>3, <1>4, <1>5, PTL DEF Api!Spec, Api!AgentFeedSpec, Api!AgentFeed!Spec
================================================================================
