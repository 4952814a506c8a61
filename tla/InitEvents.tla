------------------------------- MODULE InitEvents -------------------------------
(***************************************************************************)
(* The event streams of init (init/internal/containerservice/service.go,   *)
(* initserver/events.go) over the event bus (core/eventbus/bus.go).        *)
(*                                                                         *)
(*   - PublishEvent sends from a goroutine of its own; the dispatcher      *)
(*     receives one event at a time and calls every handler, holding the   *)
(*     bus's lock for reading until the last one returned.                 *)
(*   - One handler records the event under previousEventsMutex; every      *)
(*     other one sends it to a subscriber's channel, which has no buffer,  *)
(*     and gives up only when the dispatcher's context ends: never.        *)
(*   - A subscription is three goroutines: the replay of previous events,  *)
(*     which holds previousEventsMutex for reading while it sends, the     *)
(*     cleaner, which waits for the call's context, then unsubscribes and  *)
(*     closes the channel, and the RPC that consumes the channel.          *)
(*   - A waiting writer of an RWMutex keeps new readers out.               *)
(*                                                                         *)
(* A send on the closed channel panics, and init, process 1 of the virtual *)
(* machine, takes it down.  AnyTime and LockKept are wrong forms of the    *)
(* definitions that follow them: with one of them in its place some        *)
(* property below fails.                                                   *)
(***************************************************************************)
EXTENDS Integers, Sequences, FiniteSets

CONSTANTS
    Events,        \* container events that may be published
    Subscribers,   \* calls of the Events RPC
    MayLeave,      \* bound: subscribers whose connection may break
    Recorder,      \* the handler New subscribes
    None           \* no event

ASSUME EventsAssumption ==
    /\ Recorder \notin Subscribers
    /\ None \notin Events
    /\ MayLeave \subseteq Subscribers

VARIABLES
    unsent,     \* events PublishEvent was not called for
    published,  \* events whose publisher goroutine has not yet sent
    disp,       \* the dispatcher: the event, the handlers that still run
    handlers,   \* subscribers in eventHandlers
    recorded,   \* previousEvents
    recording,  \* the recorder has called previousEventsMutex.Lock
    sub,        \* the goroutines of each subscription
    count,      \* history: how often each event reached the subscriber
    panicked    \* somebody sent on a closed channel

vars == <<unsent, published, disp, handlers, recorded, recording, sub, count,
                   panicked>>

NotSubscribed == [phase |-> "none", replay |-> "lock", next |-> 1,
                  consumer |-> "receiving", broken |-> FALSE, ctxDone |-> FALSE]
RecordedEvents == {recorded[n] : n \in 1..Len(recorded)}

(* The bus's lock: held for reading by a dispatch, wanted for writing by a *)
(* subscription that begins or ends.  previousEventsMutex: held for        *)
(* reading by replays.                                                     *)
Dispatching == disp.event # None
WriterWaits == \E s \in Subscribers : sub[s].phase \in {"subscribing", "cancelling"}
Replaying(s) == sub[s].replay = "send"

Init ==
    /\ unsent = Events
    /\ published = {}
    /\ disp = [event |-> None, open |-> {}]
    /\ handlers = {}
    /\ recorded = <<>>
    /\ recording = FALSE
    /\ sub = [s \in Subscribers |-> NotSubscribed]
    /\ count = [s \in Subscribers |-> [e \in Events |-> 0]]
    /\ panicked = FALSE

-------------------------------------------------------------------------------
(* The bus.                                                                *)

PublishEvent(e) ==
    /\ e \in unsent
    /\ unsent' = unsent \ {e}
    /\ published' = published \cup {e}
    /\ UNCHANGED <<disp, handlers, recorded, recording, sub, count, panicked>>

DispatchEvent(e) ==
    /\ ~Dispatching /\ ~WriterWaits
    /\ e \in published
    /\ published' = published \ {e}
    /\ disp' = [event |-> e, open |-> handlers \cup {Recorder}]
    /\ UNCHANGED <<unsent, handlers, recorded, recording, sub, count, panicked>>

HandlerReturns(h) == disp' = [disp EXCEPT !.open = @ \ {h}]

AllReturned == disp.open = {}

DispatchEnds ==
    /\ Dispatching /\ AllReturned
    /\ disp' = [disp EXCEPT !.event = None]
    /\ UNCHANGED <<unsent, published, handlers, recorded, recording, sub, count,
                   panicked>>

(* The recorder's handler.                                                 *)
RecorderLocks ==
    /\ Recorder \in disp.open /\ ~recording
    /\ recording' = TRUE
    /\ UNCHANGED <<unsent, published, disp, handlers, recorded, sub, count,
                   panicked>>

Record ==
    /\ recording
    /\ \A s \in Subscribers : ~Replaying(s)
    /\ recorded' = Append(recorded, disp.event)
    /\ recording' = FALSE
    /\ HandlerReturns(Recorder)
    /\ UNCHANGED <<unsent, published, handlers, sub, count, panicked>>

-------------------------------------------------------------------------------
(* A subscription: ContainerService.Events.                                *)

Subscribe(s) ==
    /\ sub[s].phase = "none"
    /\ sub' = [sub EXCEPT ![s].phase = "subscribing"]
    /\ UNCHANGED <<unsent, published, disp, handlers, recorded, recording, count,
                   panicked>>

AnyTime == TRUE
HandlersMayChange == ~Dispatching

SubscribeToEvents(s) ==
    /\ sub[s].phase = "subscribing" /\ HandlersMayChange
    /\ handlers' = handlers \cup {s}
    /\ sub' = [sub EXCEPT ![s].phase = "open"]
    /\ UNCHANGED <<unsent, published, disp, recorded, recording, count, panicked>>

(* A sender meets the consumer, or finds the channel closed and panics.    *)
Closed(s) == sub[s].phase = "closed"
Receives(s) == sub[s].consumer = "receiving"
Send(s, e) ==
    /\ Closed(s) \/ Receives(s)
    /\ panicked' = Closed(s)
    /\ count' = [count EXCEPT ![s][e] = @ + IF Closed(s) THEN 0 ELSE 1]

Deliver(s) ==
    /\ s \in disp.open
    /\ Send(s, disp.event)
    /\ sub' = [sub EXCEPT ![s].consumer = "sending"]
    /\ HandlerReturns(s)
    /\ UNCHANGED <<unsent, published, handlers, recorded, recording>>

ReplayLocks(s) ==
    /\ sub[s].phase \notin {"none", "subscribing"}
    /\ sub[s].replay = "lock" /\ ~recording
    /\ sub' = [sub EXCEPT ![s].replay = "send", ![s].next = 1]
    /\ UNCHANGED <<unsent, published, disp, handlers, recorded, recording, count,
                   panicked>>

Replay(s) ==
    /\ Replaying(s) /\ sub[s].next <= Len(recorded)
    /\ Send(s, recorded[sub[s].next])
    /\ sub' = [sub EXCEPT ![s].consumer = "sending", ![s].next = @ + 1]
    /\ UNCHANGED <<unsent, published, disp, handlers, recorded, recording>>

LockKept == "send"
Unlocked == "done"

ReplayEnds(s) ==
    /\ Replaying(s) /\ sub[s].next > Len(recorded)
    /\ sub' = [sub EXCEPT ![s].replay = Unlocked]
    /\ UNCHANGED <<unsent, published, disp, handlers, recorded, recording, count,
                   panicked>>

-------------------------------------------------------------------------------
(* The RPC: it ends when a send fails, or when the channel is closed.      *)

StreamSend(s) ==
    /\ sub[s].consumer = "sending"
    /\ \E ok \in BOOLEAN :
         /\ ok \/ sub[s].broken
         /\ sub' = [sub EXCEPT ![s].consumer = IF ok THEN "receiving" ELSE "gone"]
    /\ UNCHANGED <<unsent, published, disp, handlers, recorded, recording, count,
                   panicked>>

StreamEnds(s) ==
    /\ Receives(s) /\ Closed(s)
    /\ sub' = [sub EXCEPT ![s].consumer = "gone"]
    /\ UNCHANGED <<unsent, published, disp, handlers, recorded, recording, count,
                   panicked>>

(* The runtime that listens goes away; the server notices, or the RPC      *)
(* returns, and the call's context ends.                                   *)
Leave(s) ==
    /\ s \in MayLeave /\ sub[s].phase = "open" /\ ~sub[s].broken
    /\ sub' = [sub EXCEPT ![s].broken = TRUE]
    /\ UNCHANGED <<unsent, published, disp, handlers, recorded, recording, count,
                   panicked>>

ContextEnds(s) ==
    /\ ~sub[s].ctxDone
    /\ sub[s].broken \/ sub[s].consumer = "gone"
    /\ sub' = [sub EXCEPT ![s].ctxDone = TRUE]
    /\ UNCHANGED <<unsent, published, disp, handlers, recorded, recording, count,
                   panicked>>

(* The cleaner's deferred calls: unsubscribe, then close.                  *)
Cancel(s) ==
    /\ sub[s].phase = "open" /\ sub[s].ctxDone
    /\ sub' = [sub EXCEPT ![s].phase = "cancelling"]
    /\ UNCHANGED <<unsent, published, disp, handlers, recorded, recording, count,
                   panicked>>

Unsubscribe(s) ==
    /\ sub[s].phase = "cancelling" /\ HandlersMayChange
    /\ handlers' = handlers \ {s}
    /\ sub' = [sub EXCEPT ![s].phase = "closing"]
    /\ UNCHANGED <<unsent, published, disp, recorded, recording, count,
                   panicked>>

Close(s) ==
    /\ sub[s].phase = "closing"
    /\ sub' = [sub EXCEPT ![s].phase = "closed"]
    /\ UNCHANGED <<unsent, published, disp, handlers, recorded, recording, count,
                   panicked>>

-------------------------------------------------------------------------------
Bus == (\E e \in Events : DispatchEvent(e)) \/ DispatchEnds
Recording == RecorderLocks \/ Record
Replayer(s) == ReplayLocks(s) \/ Replay(s) \/ ReplayEnds(s)
Consumer(s) == StreamSend(s) \/ StreamEnds(s)
Cleaner(s) == Cancel(s) \/ Unsubscribe(s) \/ Close(s)

Next ==
    /\ ~panicked
    /\ \/ \E e \in Events : PublishEvent(e)
       \/ Bus \/ Recording
       \/ \E s \in Subscribers :
            \/ Subscribe(s) \/ SubscribeToEvents(s)
            \/ Replayer(s) \/ Deliver(s) \/ Consumer(s)
            \/ Leave(s) \/ ContextEnds(s) \/ Cleaner(s)

Spec == Init /\ [][Next]_vars

(* Every goroutine of init runs on.  Two senders may wait for a consumer:  *)
(* Go's channels serve them in order.  Nobody has to publish or subscribe. *)
FairSpec ==
    /\ Spec
    /\ WF_vars(~panicked /\ Bus) /\ WF_vars(~panicked /\ Recording)
    /\ \A s \in Subscribers :
         /\ WF_vars(~panicked /\ SubscribeToEvents(s))
         /\ SF_vars(~panicked /\ Deliver(s)) /\ SF_vars(~panicked /\ Replayer(s))
         /\ WF_vars(~panicked /\ Consumer(s)) /\ WF_vars(~panicked /\ ContextEnds(s))
         /\ WF_vars(~panicked /\ Cleaner(s))

-------------------------------------------------------------------------------
(* Properties.                                                             *)

Subscription ==
    [phase : {"none", "subscribing", "open", "cancelling", "closing", "closed"},
     replay : {"lock", "send", "done"}, next : Nat \ {0},
     consumer : {"receiving", "sending", "gone"},
     broken : BOOLEAN, ctxDone : BOOLEAN]

(* Every variable keeps to its type; an event is recorded only while it is *)
(* being dispatched.                                                       *)
TypeOK ==
    /\ unsent \subseteq Events
    /\ published \subseteq Events
    /\ disp \in [event : Events \cup {None}, open : SUBSET (Subscribers \cup {Recorder})]
    /\ handlers \subseteq Subscribers
    /\ recorded \in Seq(Events)
    /\ recording \in BOOLEAN
    /\ sub \in [Subscribers -> Subscription]
    /\ count \in [Subscribers -> [Events -> Nat]]
    /\ panicked \in BOOLEAN

(* A live event is never sent on a closed channel: the cleaner unsubscribes *)
(* under the bus's lock, and so waits for the handlers, before it closes   *)
(* the channel (bus.go:38-40, service.go:68-69).                           *)
LiveSendsFindChannelOpen ==
    \A s \in Subscribers : s \in disp.open => ~Closed(s)

StillToReplay(s) ==
    CASE sub[s].replay = "lock" -> RecordedEvents
      [] sub[s].replay = "send" -> {recorded[n] : n \in sub[s].next..Len(recorded)}
      [] sub[s].replay = "done" -> {}

(* No event falls between the replay and the live events: a subscriber was *)
(* sent every event the dispatcher took up, or will be, by the replay or   *)
(* by a handler that still runs.                                           *)
NothingFallsBetween ==
    \A s \in Subscribers, e \in Events :
      /\ sub[s].phase = "open"
      /\ e \in RecordedEvents \/ e = disp.event
      => \/ count[s][e] > 0
         \/ e \in StillToReplay(s)
         \/ e = disp.event /\ s \in disp.open

(* As long as nobody leaves, every published event reaches everybody who   *)
(* subscribed.  Once somebody left, a handler may wait for ever for its    *)
(* consumer, with the bus's lock that the unsubscription needs.            *)
ReachesEverybody ==
    \A s \in Subscribers, e \in Events :
      sub[s].phase = "open" /\ e \notin unsent
        ~> count[s][e] > 0 \/ \E t \in Subscribers : sub[t].broken
================================================================================
