------------------------------ MODULE LogPipeline ------------------------------
(***************************************************************************)
(* The way of a container's output line:                                   *)
(*                                                                         *)
(*   - in the guest, init's log service writes it to a file and hands it   *)
(*     to a handler per reader, under the writer's mutex and a read lock   *)
(*     on the handlers (init/internal/logservice, initserver GetLogs);     *)
(*   - the runtime reads that service over vsock, connection after         *)
(*     connection.  It numbers the lines of a connection and skips as many *)
(*     as it counted so far; it writes the others to its own file and      *)
(*     hands them to its handlers (runtime/log.go, core/logmanager);       *)
(*   - a follower is a request for logs (runtime grpc_handler): it reads   *)
(*     the runtime's file, then its handler's channel, and passes lines on *)
(*     through the agent's API.                                            *)
(*                                                                         *)
(* A reader takes the stored lines first and registers its handler at the  *)
(* end of them.  Lines of one container with one source are modelled; a    *)
(* file that cannot be opened or decoded is not.  HandlersFirst,           *)
(* HandlersStay, SkipsOneMore and OnlyRoom are wrong forms of the          *)
(* definitions that follow them.                                           *)
(***************************************************************************)
EXTENDS Naturals, Sequences, FiniteSets

CONSTANTS
    Streams,      \* bound: connections to the guest whose goroutines linger
    Followers,    \* requests for the logs
    MaxLines,     \* bound: lines a container writes
    LiveBuffer,   \* capacity of a follower's channel (100)
    WireSize,     \* bound: lines under way on a connection
    MaxFaults,    \* bound: broken connections and failed writes
    None          \* no connection

ASSUME LogPipelineAssumption ==
    /\ None \notin Streams
    /\ MaxLines \in Nat /\ LiveBuffer \in Nat /\ WireSize \in Nat /\ MaxFaults \in Nat

VARIABLES
    guest,      \* init's log service: lines in the file, writer and its handlers
    stream,     \* connections of the runtime, with their goroutines in the guest
    relay,      \* the runtime's listener
    file,       \* the runtime's log file
    follower,   \* requests for logs
    crashed,    \* the runtime died
    flawed,     \* a line was lost or doubled on its way to the file
    faults      \* how much of MaxFaults is used up

vars == <<guest, stream, relay, file, follower, crashed, flawed, faults>>

NoStream == [reader |-> "none", pos |-> 0, server |-> "none", holding |-> 0,
             link |-> "open", wire |-> <<>>, got |-> <<>>]
NoFollower == [pc |-> "none", pos |-> 0, buffer |-> <<>>, got |-> <<>>]

Init ==
    /\ guest = [lines |-> 0, writer |-> "idle", todo |-> {}]
    /\ stream = [s \in Streams |-> NoStream]
    /\ relay = [at |-> None, pc |-> "receive", seq |-> 0, counted |-> 0, todo |-> {}]
    /\ file = <<>>
    /\ follower = [f \in Followers |-> NoFollower]
    /\ crashed = FALSE
    /\ flawed = FALSE
    /\ faults = 0

-------------------------------------------------------------------------------
(* The guest: Service.Write, one line after the other.                     *)

HandlersFirst == {s \in Streams : stream[s].reader \in {"history", "attaching", "live"}}
HandlersStay == {s \in Streams : stream[s].reader \in {"live", "done"}}
Handlers == {s \in Streams : stream[s].reader = "live"}
Locked == guest.writer = "sending"          \* handlersMutex is read-locked

WriteLine ==
    /\ guest.writer = "idle" /\ guest.lines < MaxLines
    /\ guest' = [guest EXCEPT !.lines = @ + 1, !.writer = "written"]
    /\ UNCHANGED <<stream, relay, file, follower, crashed, flawed, faults>>

LockHandlers ==
    /\ guest.writer = "written"
    /\ guest' = [guest EXCEPT !.writer = "sending", !.todo = Handlers]
    /\ UNCHANGED <<stream, relay, file, follower, crashed, flawed, faults>>

(* The channel has no buffer: a handler waits until the server receives.   *)
Give(s, line) ==
    /\ stream[s].server = "receiving"
    /\ stream' = [stream EXCEPT ![s].server = "sending", ![s].holding = line,
                    ![s].got = Append(@, line),
                    ![s].pos = IF stream[s].reader = "live" THEN @ ELSE line]

HandleEntry(s) ==
    /\ Locked /\ s \in guest.todo
    /\ Give(s, guest.lines)
    /\ guest' = [guest EXCEPT !.todo = @ \ {s}]
    /\ UNCHANGED <<relay, file, follower, crashed, flawed, faults>>

Unlock ==
    /\ Locked /\ guest.todo = {}
    /\ guest' = [guest EXCEPT !.writer = "idle"]
    /\ UNCHANGED <<stream, relay, file, follower, crashed, flawed, faults>>

-------------------------------------------------------------------------------
(* The guest: Service.Read.                                                *)

(* A request's context ends some time after its connection broke.          *)
Cancelled(s) == stream[s].link = "broken"

ReadHistoricalLog(s) ==
    /\ stream[s].reader = "history" /\ stream[s].pos < guest.lines
    /\ Give(s, stream[s].pos + 1)
    /\ UNCHANGED <<guest, relay, file, follower, crashed, flawed, faults>>

HistoryEnds(s) ==
    /\ stream[s].reader = "history"
    /\ \/ /\ stream[s].pos = guest.lines
          /\ stream' = [stream EXCEPT ![s].reader = "attaching"]
       \/ /\ Cancelled(s)
          /\ stream' = [stream EXCEPT ![s].reader = "done"]
    /\ UNCHANGED <<guest, relay, file, follower, crashed, flawed, faults>>

(* Flawed: a line came between, or the last one read is still to be handed *)
(* to the handlers.                                                        *)
AddHandler(s) ==
    /\ stream[s].reader = "attaching" /\ ~Locked
    /\ stream' = [stream EXCEPT ![s].reader = "live"]
    /\ flawed' = (flawed \/ stream[s].pos < guest.lines \/ guest.writer = "written")
    /\ UNCHANGED <<guest, relay, file, follower, crashed, faults>>

(* The deferred calls: unsubscribe, which needs the lock, and close.       *)
Unsubscribe(s) ==
    /\ stream[s].reader = "live" /\ Cancelled(s) /\ ~Locked
    /\ stream' = [stream EXCEPT ![s].reader = "done"]
    /\ UNCHANGED <<guest, relay, file, follower, crashed, flawed, faults>>

(* initserver GetLogs: a Send on a broken connection may not notice.       *)
Returned(s) == [NoStream EXCEPT !.reader = stream[s].reader, !.pos = stream[s].pos,
                  !.server = "gone", !.link = "broken", !.wire = stream[s].wire]

ServerSend(s) ==
    /\ stream[s].server = "sending"
    /\ \/ /\ stream[s].link = "open" /\ Len(stream[s].wire) < WireSize
          /\ stream' = [stream EXCEPT ![s].server = "receiving", ![s].holding = 0,
                                      ![s].wire = Append(@, stream[s].holding)]
       \/ /\ stream[s].link = "broken"
          /\ stream' = [stream EXCEPT ![s].server = "receiving", ![s].holding = 0]
       \/ /\ stream[s].link = "broken"
          /\ stream' = [stream EXCEPT ![s] = Returned(s)]
    /\ UNCHANGED <<guest, relay, file, follower, crashed, flawed, faults>>

ServerReturns(s) ==
    /\ stream[s].server = "receiving" /\ stream[s].reader = "done"
    /\ stream' = [stream EXCEPT ![s] = Returned(s)]
    /\ UNCHANGED <<guest, relay, file, follower, crashed, flawed, faults>>

Break(s) ==
    /\ stream[s].reader # "none" /\ stream[s].link = "open" /\ faults < MaxFaults
    /\ stream' = [stream EXCEPT ![s].link = "broken"]
    /\ faults' = faults + 1
    /\ UNCHANGED <<guest, relay, file, follower, crashed, flawed>>

-------------------------------------------------------------------------------
(* The runtime: ListenInitLogs, startListener.                             *)

Free(s) == \/ stream[s].reader = "none"
           \/ stream[s].reader = "done" /\ stream[s].server = "gone"

Connect(s) ==
    /\ relay.at = None /\ Free(s)
    /\ stream' = [stream EXCEPT ![s] = [NoStream EXCEPT !.reader = "history",
                                                        !.server = "receiving"]]
    /\ relay' = [relay EXCEPT !.at = s, !.seq = 0]
    /\ UNCHANGED <<guest, file, follower, crashed, flawed, faults>>

SkipsOneMore == relay.seq <= relay.counted
AlreadySeen == relay.seq + 1 <= relay.counted

Live == {f \in Followers : follower[f].pc = "live"}

(* The file is opened for appending, by whichever runtime runs.            *)
WriteLog(line) == Append(file, line)

(* writeLog: the file, then the handlers, which are looked up in a map     *)
(* that is no longer locked.  A line that cannot be written is counted.    *)
Receive ==
    /\ relay.at # None /\ relay.pc = "receive"
    /\ stream[relay.at].wire # <<>>
    /\ LET line == Head(stream[relay.at].wire)
           next == [relay EXCEPT !.seq = @ + 1]
       IN /\ stream' = [stream EXCEPT ![relay.at].wire = Tail(@)]
          /\ \/ /\ AlreadySeen
                /\ relay' = next /\ UNCHANGED <<file, flawed, faults>>
             \/ /\ ~AlreadySeen
                /\ file' = WriteLog(line)
                /\ relay' = [next EXCEPT !.pc = "handlers"]
                /\ UNCHANGED <<flawed, faults>>
             \/ /\ ~AlreadySeen /\ faults < MaxFaults
                /\ faults' = faults + 1 /\ flawed' = TRUE
                /\ relay' = [next EXCEPT !.counted = @ + 1] /\ file' = file
    /\ UNCHANGED <<guest, follower, crashed>>

LookUpHandlers ==
    /\ relay.pc = "handlers"
    /\ relay' = [relay EXCEPT !.pc = "handing", !.todo = Live]
    /\ UNCHANGED <<guest, stream, file, follower, crashed, flawed, faults>>

(* A handler waits for room in its channel or the end of its request.      *)
OnlyRoom(f) == Len(follower[f].buffer) < LiveBuffer
MayHand(f) == OnlyRoom(f) \/ follower[f].pc \in {"leaving", "gone"}

HandToFollower(f) ==
    /\ relay.pc = "handing" /\ f \in relay.todo
    /\ MayHand(f)
    /\ relay' = [relay EXCEPT !.todo = @ \ {f}]
    /\ follower' = IF follower[f].pc \in {"leaving", "gone"} THEN follower
                   ELSE [follower EXCEPT ![f].buffer = Append(@, Len(file))]
    /\ UNCHANGED <<guest, stream, file, crashed, flawed, faults>>

LineDone ==
    /\ relay.pc = "handing" /\ relay.todo = {}
    /\ relay' = [relay EXCEPT !.pc = "receive", !.counted = @ + 1]
    /\ UNCHANGED <<guest, stream, file, follower, crashed, flawed, faults>>

(* Lines still under way are lost; the connection is closed.               *)
StreamOver ==
    /\ relay.at # None /\ relay.pc = "receive"
    /\ stream[relay.at].link = "broken"
    /\ relay' = [relay EXCEPT !.at = None]
    /\ stream' = [stream EXCEPT ![relay.at].wire = <<>>]
    /\ UNCHANGED <<guest, file, follower, crashed, flawed, faults>>

-------------------------------------------------------------------------------
(* The runtime: GetLogs and GetContainerLogs.                              *)

(* ReadLogs fails as long as there is no file.                             *)
Follow(f) ==
    /\ follower[f].pc = "none" /\ file # <<>>
    /\ follower' = [follower EXCEPT ![f].pc = "history"]
    /\ UNCHANGED <<guest, stream, relay, file, crashed, flawed, faults>>

ReadLog(f) ==
    /\ follower[f].pc = "history" /\ follower[f].pos < Len(file)
    /\ follower' = [follower EXCEPT ![f].pos = @ + 1, ![f].got = Append(@, follower[f].pos + 1)]
    /\ UNCHANGED <<guest, stream, relay, file, crashed, flawed, faults>>

(* Without `follow' the request is over; the agent's own is not, it waits  *)
(* for a channel that nobody closes.                                       *)
EndOfLogs(f) ==
    /\ follower[f].pc = "history" /\ follower[f].pos = Len(file)
    /\ \/ follower' = [follower EXCEPT ![f].pc = "attaching"]
       \/ follower' = [follower EXCEPT ![f] = [NoFollower EXCEPT !.pc = "gone"]]
    /\ UNCHANGED <<guest, stream, relay, file, crashed, flawed, faults>>

(* The map may change while writeLog goes through it: that may end the     *)
(* process, or the handler is found or not.                                *)
MapChanges(todo) ==
    \/ relay' = relay /\ crashed' = FALSE
    \/ /\ relay.pc = "handing"
       /\ \/ relay' = [relay EXCEPT !.todo = todo] /\ crashed' = FALSE
          \/ relay' = relay /\ crashed' = TRUE

Attach(f) ==
    /\ follower[f].pc = "attaching"
    /\ follower' = [follower EXCEPT ![f].pc = "live"]
    /\ MapChanges(relay.todo \cup {f})
    /\ UNCHANGED <<guest, stream, file, flawed, faults>>

SendLive(f) ==
    /\ follower[f].pc = "live" /\ follower[f].buffer # <<>>
    /\ follower' = [follower EXCEPT ![f].got = Append(@, Head(follower[f].buffer)),
                                    ![f].buffer = Tail(@)]
    /\ UNCHANGED <<guest, stream, relay, file, crashed, flawed, faults>>

(* The request ends: its context first, then the handler is taken out.     *)
HangUp(f) ==
    /\ follower[f].pc \in {"history", "attaching", "live"}
    /\ follower' = [follower EXCEPT ![f] =
                      [NoFollower EXCEPT !.buffer = follower[f].buffer,
                         !.pc = IF follower[f].pc = "live" THEN "leaving" ELSE "gone"]]
    /\ UNCHANGED <<guest, stream, relay, file, crashed, flawed, faults>>

Leave(f) ==
    /\ follower[f].pc = "leaving"
    /\ follower' = [follower EXCEPT ![f].pc = "gone"]
    /\ MapChanges(relay.todo \ {f})
    /\ UNCHANGED <<guest, stream, file, flawed, faults>>

-------------------------------------------------------------------------------
Writer == LockHandlers \/ Unlock
Guest(s) ==
    \/ HandleEntry(s) \/ ReadHistoricalLog(s) \/ HistoryEnds(s) \/ AddHandler(s)
    \/ Unsubscribe(s) \/ ServerSend(s) \/ ServerReturns(s)
Relay ==
    \/ \E s \in Streams : Connect(s)
    \/ Receive \/ LookUpHandlers \/ LineDone \/ StreamOver
    \/ \E f \in Followers : HandToFollower(f)
Request(f) == ReadLog(f) \/ EndOfLogs(f) \/ Attach(f) \/ SendLive(f) \/ Leave(f)

Next ==
    /\ ~crashed
    /\ \/ WriteLine \/ Writer \/ Relay
       \/ \E s \in Streams : Guest(s) \/ Break(s)
       \/ \E f \in Followers : Follow(f) \/ Request(f) \/ HangUp(f)

Spec == Init /\ [][Next]_vars

(* Goroutines run on, and a follower reads what it is sent as long as it   *)
(* has not hung up: a reader that does neither stops the containers.       *)
(* Nothing has to be written, break, or hang up.                           *)
FairSpec ==
    /\ Spec
    /\ WF_vars(~crashed /\ Writer) /\ WF_vars(~crashed /\ Relay)
    /\ \A s \in Streams : WF_vars(~crashed /\ Guest(s))
    /\ \A f \in Followers : WF_vars(~crashed /\ Request(f))

-------------------------------------------------------------------------------
(* Properties.                                                             *)

Line == 1..MaxLines
GuestState == [lines : 0..MaxLines, writer : {"idle", "written", "sending"},
               todo : SUBSET Streams]
StreamState ==
    [reader : {"none", "history", "attaching", "live", "done"}, pos : 0..MaxLines,
     server : {"none", "receiving", "sending", "gone"}, holding : 0..MaxLines,
     link : {"open", "broken"}, wire : Seq(Line), got : Seq(Line)]
RelayState ==
    [at : Streams \cup {None}, pc : {"receive", "handlers", "handing"},
     seq : Nat, counted : Nat, todo : SUBSET Followers]
FollowerState ==
    [pc : {"none", "history", "attaching", "live", "leaving", "gone"},
     pos : Nat, buffer : Seq(Nat \ {0}), got : Seq(Nat \ {0})]

(* Every variable keeps to its type, and no line is known before it is     *)
(* written.                                                                *)
TypeOK ==
    /\ guest \in GuestState
    /\ stream \in [Streams -> StreamState]
    /\ \A s \in Streams : stream[s].pos <= guest.lines
    /\ relay \in RelayState
    /\ file \in Seq(Line)
    /\ follower \in [Followers -> FollowerState]
    /\ \A f \in Followers : follower[f].pos <= Len(file)
    /\ crashed \in BOOLEAN /\ flawed \in BOOLEAN
    /\ faults \in Nat

GuestFeed == INSTANCE LogFeed
    WITH Readers <- Streams, log <- guest.lines,
         got <- [s \in Streams |-> stream[s].got]
RuntimeFeed == INSTANCE LogFeed
    WITH Readers <- Followers, log <- Len(file),
         got <- [f \in Followers |-> follower[f].got]

(* A reader of the guest's log service gets its lines in order, one of     *)
(* them twice at most; and so does a follower, of the lines of the         *)
(* runtime's file.                                                         *)
LogFeedSpec == GuestFeed!Spec /\ RuntimeFeed!Spec

(* The file has each line once and in order, however often the connection  *)
(* broke - as long as no connection lost or doubled a line while its       *)
(* reader turned to the live ones: a count that is off skips the wrong     *)
(* lines of the next connection.                                           *)
ExactlyOnce == ~flawed => \A i \in DOMAIN file : file[i] = i

(* The writer waits for a reader whose server is gone, and that reader     *)
(* needs the lock the writer holds to take its handler out: for ever.      *)
WriterStuck ==
    \E s \in guest.todo : stream[s].server = "gone" /\ stream[s].reader = "live"

(* Every line gets to the runtime's file and to its handlers, whoever      *)
(* follows and hangs up: the relay catches up with containers that have    *)
(* nothing more to write.                                                  *)
LinesArrive ==
    relay.counted < guest.lines
      ~> relay.counted = guest.lines \/ flawed \/ crashed \/ WriterStuck

(* The service's writer, and with it every container's output, moves on -  *)
(* unless it is stuck.                                                     *)
WriterMovesOn == Locked ~> ~Locked \/ crashed \/ WriterStuck
================================================================================
