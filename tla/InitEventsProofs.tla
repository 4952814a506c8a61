---------------------------- MODULE InitEventsProofs ----------------------------
(***************************************************************************)
(* Proofs about InitEvents, for any number of events and subscribers: its  *)
(* type invariant, that a live event never meets a closed channel, and     *)
(* that no event falls between the replay and the live events.             *)
(***************************************************************************)
EXTENDS InitEvents, TLAPS

(* Every step of the module is one of these.                               *)
LEMMA StepCases ==
    ASSUME [Next]_vars
    PROVE  \/ \E e \in Events : PublishEvent(e) \/ DispatchEvent(e)
           \/ DispatchEnds \/ RecorderLocks \/ Record
           \/ \E s \in Subscribers :
                \/ Subscribe(s) \/ SubscribeToEvents(s) \/ Deliver(s)
                \/ ReplayLocks(s) \/ Replay(s) \/ ReplayEnds(s)
                \/ StreamSend(s) \/ StreamEnds(s) \/ Leave(s) \/ ContextEnds(s)
                \/ Cancel(s) \/ Unsubscribe(s) \/ Close(s)
           \/ UNCHANGED vars
  BY DEF Next, Bus, Recording, Replayer, Consumer, Cleaner

(* What the bus's lock protects.  Handlers run only during a dispatch, and *)
(* only for subscriptions that are not being closed; the recorder's lock   *)
(* is asked for only by its handler.                                       *)
LockInv ==
    /\ ~Dispatching => disp.open = {}
    /\ recording => Recorder \in disp.open
    /\ \A s \in Subscribers :
         /\ s \in disp.open => s \in handlers
         /\ s \in handlers <=> sub[s].phase \in {"open", "cancelling"}

(* The fields of a subscription that each of its steps changes.            *)
SubscriptionUpdate(s) ==
    \/ \E p \in {"subscribing", "open", "cancelling", "closing", "closed"} :
         sub' = [sub EXCEPT ![s].phase = p]
    \/ sub' = [sub EXCEPT ![s].replay = "done"]
    \/ sub' = [sub EXCEPT ![s].replay = "send", ![s].next = 1]
    \/ sub' = [sub EXCEPT ![s].consumer = "sending", ![s].next = @ + 1]
    \/ \E c \in {"receiving", "sending", "gone"} :
         sub' = [sub EXCEPT ![s].consumer = c]
    \/ sub' = [sub EXCEPT ![s].broken = TRUE]
    \/ sub' = [sub EXCEPT ![s].ctxDone = TRUE]

(* Such an update keeps to the type of the subscriptions.                  *)
LEMMA UpdateType ==
    ASSUME NEW s \in Subscribers, sub \in [Subscribers -> Subscription],
           SubscriptionUpdate(s)
    PROVE  sub' \in [Subscribers -> Subscription]
  <1> DEFINE t == sub[s]
  <1>1. t \in Subscription
    OBVIOUS
  <1>2. \/ \E p \in {"subscribing", "open", "cancelling", "closing", "closed"} :
             sub' = [sub EXCEPT ![s] = [t EXCEPT !.phase = p]]
        \/ sub' = [sub EXCEPT ![s] = [t EXCEPT !.replay = "done"]]
        \/ sub' = [sub EXCEPT ![s] = [t EXCEPT !.replay = "send", !.next = 1]]
        \/ sub' = [sub EXCEPT ![s] = [t EXCEPT !.consumer = "sending",
                                               !.next = t.next + 1]]
        \/ \E c \in {"receiving", "sending", "gone"} :
             sub' = [sub EXCEPT ![s] = [t EXCEPT !.consumer = c]]
        \/ sub' = [sub EXCEPT ![s] = [t EXCEPT !.broken = TRUE]]
        \/ sub' = [sub EXCEPT ![s] = [t EXCEPT !.ctxDone = TRUE]]
    BY DEF SubscriptionUpdate
  <1> HIDE DEF t
  <1>3. \A p \in {"subscribing", "open", "cancelling", "closing", "closed"} :
          [t EXCEPT !.phase = p] \in Subscription
    BY <1>1 DEF Subscription
  <1>4. /\ [t EXCEPT !.replay = "done"] \in Subscription
        /\ [t EXCEPT !.replay = "send", !.next = 1] \in Subscription
        /\ [t EXCEPT !.consumer = "sending", !.next = t.next + 1] \in Subscription
        /\ [t EXCEPT !.broken = TRUE] \in Subscription
        /\ [t EXCEPT !.ctxDone = TRUE] \in Subscription
    <2>1. [t EXCEPT !.replay = "done"] \in Subscription
      BY <1>1 DEF Subscription
    <2>2. [t EXCEPT !.replay = "send", !.next = 1] \in Subscription
      <3>1. 1 \in Nat \ {0} /\ "send" \in {"lock", "send", "done"}
        OBVIOUS
      <3> QED BY <1>1, <3>1, Zenon DEF Subscription
    <2>3. t.next + 1 \in Nat \ {0}
      BY <1>1 DEF Subscription
    <2>4. [t EXCEPT !.consumer = "sending", !.next = t.next + 1] \in Subscription
      BY <1>1, <2>3 DEF Subscription
    <2>5. [t EXCEPT !.broken = TRUE] \in Subscription
      BY <1>1 DEF Subscription
    <2>6. [t EXCEPT !.ctxDone = TRUE] \in Subscription
      BY <1>1 DEF Subscription
    <2> QED BY <2>1, <2>2, <2>4, <2>5, <2>6
  <1>5. \A c \in {"receiving", "sending", "gone"} :
          [t EXCEPT !.consumer = c] \in Subscription
    BY <1>1 DEF Subscription
  <1> QED BY <1>2, <1>3, <1>4, <1>5

(* The type invariant and LockInv hold initially.                          *)
LEMMA InitialLock ==
    ASSUME Init PROVE TypeOK /\ LockInv
  <1>1. NotSubscribed \in Subscription
    BY DEF NotSubscribed, Subscription
  <1>2. TypeOK
    <2>1. disp \in [event : Events \cup {None}, open : SUBSET (Subscribers \cup {Recorder})]
      BY DEF Init
    <2>2. recorded \in Seq(Events)
      BY DEF Init
    <2>3. sub \in [Subscribers -> Subscription]
      BY <1>1 DEF Init
    <2>4. count \in [Subscribers -> [Events -> Nat]]
      BY DEF Init
    <2> QED BY <2>1, <2>2, <2>3, <2>4 DEF Init, TypeOK
  <1>3. LockInv
    BY DEF Init, LockInv, Dispatching, NotSubscribed
  <1> QED BY <1>2, <1>3

(* Every step keeps the type invariant.                                    *)
LEMMA StepType ==
    ASSUME TypeOK, LockInv, [Next]_vars
    PROVE  TypeOK'
  <1> USE DEF TypeOK
  <1>1. ASSUME NEW e \in Events, PublishEvent(e) PROVE TypeOK'
    BY <1>1 DEF PublishEvent
  <1>2. ASSUME NEW e \in Events, DispatchEvent(e) PROVE TypeOK'
    BY <1>2 DEF DispatchEvent
  <1>3. ASSUME DispatchEnds PROVE TypeOK'
    BY <1>3 DEF DispatchEnds
  <1>4. ASSUME RecorderLocks PROVE TypeOK'
    BY <1>4 DEF RecorderLocks
  <1>5. ASSUME Record PROVE TypeOK'
    <2>1. disp.event \in Events
      BY <1>5 DEF Record, LockInv, Dispatching
    <2>2. Append(recorded, disp.event) \in Seq(Events)
      BY <2>1
    <2>3. disp' \in [event : Events \cup {None}, open : SUBSET (Subscribers \cup {Recorder})]
      BY <1>5 DEF Record, HandlerReturns
    <2> QED BY <1>5, <2>2, <2>3 DEF Record
  <1>20. ASSUME NEW s \in Subscribers, SubscriptionUpdate(s)
         PROVE  sub' \in [Subscribers -> Subscription]
    BY <1>20, UpdateType
  <1>6. ASSUME NEW s \in Subscribers, SubscribeToEvents(s) PROVE TypeOK'
    <2>1. SubscriptionUpdate(s)
      BY <1>6 DEF SubscribeToEvents, SubscriptionUpdate
    <2> QED BY <1>6, <1>20, <2>1 DEF SubscribeToEvents
  <1>7. ASSUME NEW s \in Subscribers, NEW e \in Events, Send(s, e)
        PROVE  count' \in [Subscribers -> [Events -> Nat]] /\ panicked' \in BOOLEAN
    <2>1. PICK n \in {0, 1} : count' = [count EXCEPT ![s][e] = @ + n]
      BY <1>7 DEF Send
    <2>2. [count[s] EXCEPT ![e] = @ + n] \in [Events -> Nat]
      BY <2>1
    <2>3. count' = [count EXCEPT ![s] = [count[s] EXCEPT ![e] = @ + n]]
      BY <2>1
    <2> QED BY <1>7, <2>2, <2>3 DEF Send, Closed
  <1>8. ASSUME NEW s \in Subscribers, Deliver(s) PROVE TypeOK'
    <2>1. SubscriptionUpdate(s)
      BY <1>8 DEF Deliver, SubscriptionUpdate
    <2>2. disp.event \in Events
      BY <1>8 DEF Deliver, LockInv, Dispatching
    <2>3. disp' \in [event : Events \cup {None}, open : SUBSET (Subscribers \cup {Recorder})]
      BY <1>8 DEF Deliver, HandlerReturns
    <2> QED BY <1>8, <1>20, <1>7, <2>1, <2>2, <2>3 DEF Deliver
  <1>9. ASSUME NEW s \in Subscribers, Replay(s) PROVE TypeOK'
    <2>1. SubscriptionUpdate(s)
      BY <1>9 DEF Replay, SubscriptionUpdate
    <2>2. recorded[sub[s].next] \in Events
      BY <1>9 DEF Replay, Subscription
    <2> QED BY <1>9, <1>20, <1>7, <2>1, <2>2 DEF Replay
  <1>10. ASSUME NEW s \in Subscribers, Unsubscribe(s) PROVE TypeOK'
    <2>1. SubscriptionUpdate(s)
      BY <1>10 DEF Unsubscribe, SubscriptionUpdate
    <2> QED BY <1>10, <1>20, <2>1 DEF Unsubscribe
  <1>11. ASSUME NEW s \in Subscribers,
                \/ Subscribe(s) \/ ReplayLocks(s) \/ ReplayEnds(s) \/ StreamSend(s)
                \/ StreamEnds(s) \/ Leave(s) \/ ContextEnds(s) \/ Cancel(s)
                \/ Close(s)
         PROVE  TypeOK'
    <2>1. SubscriptionUpdate(s)
      BY <1>11 DEF Subscribe, ReplayLocks, ReplayEnds, StreamSend, StreamEnds,
         Leave, ContextEnds, Cancel, Close, SubscriptionUpdate, Unlocked
    <2>2. UNCHANGED <<unsent, published, disp, handlers, recorded, recording, count,
                      panicked>>
      BY <1>11 DEF Subscribe, ReplayLocks, ReplayEnds, StreamSend, StreamEnds,
         Leave, ContextEnds, Cancel, Close
    <2> QED BY <1>20, <2>1, <2>2
  <1>12. ASSUME UNCHANGED vars PROVE TypeOK'
    BY <1>12 DEF vars
  <1> QED
    BY StepCases, <1>1, <1>2, <1>3, <1>4, <1>5, <1>6, <1>8, <1>9, <1>10, <1>11, <1>12

(* Every step keeps LockInv: eventHandlers changes only while no dispatch  *)
(* runs.                                                                   *)
LEMMA StepLock ==
    ASSUME TypeOK, LockInv, [Next]_vars
    PROVE  LockInv'
  <1> USE DEF LockInv, Dispatching
  <1>1. ASSUME NEW e \in Events, PublishEvent(e) PROVE LockInv'
    BY <1>1 DEF PublishEvent
  <1>2. ASSUME NEW e \in Events, DispatchEvent(e) PROVE LockInv'
    <2>1. disp'.event = e /\ disp'.open = handlers \cup {Recorder}
      BY <1>2 DEF DispatchEvent
    <2>2. \A s \in Subscribers : s # Recorder
      BY EventsAssumption
    <2> QED BY <1>2, <2>1, <2>2, EventsAssumption DEF DispatchEvent
  <1>3. ASSUME DispatchEnds PROVE LockInv'
    <2>1. disp.open = {} /\ disp'.open = {}
      BY <1>3 DEF DispatchEnds, AllReturned, TypeOK
    <2> QED BY <1>3, <2>1 DEF DispatchEnds
  <1>4. ASSUME RecorderLocks PROVE LockInv'
    BY <1>4 DEF RecorderLocks
  <1>5. ASSUME Record PROVE LockInv'
    <2>1. disp'.event = disp.event /\ disp'.open = disp.open \ {Recorder}
      BY <1>5 DEF Record, HandlerReturns, TypeOK
    <2> QED BY <1>5, <2>1 DEF Record
  <1>6. ASSUME NEW s \in Subscribers, Deliver(s) PROVE LockInv'
    <2>1. disp'.event = disp.event /\ disp'.open = disp.open \ {s}
      BY <1>6 DEF Deliver, HandlerReturns, TypeOK
    <2>2. \A t \in Subscribers : sub'[t].phase = sub[t].phase
      BY <1>6 DEF Deliver, TypeOK, Subscription
    <2> QED BY <1>6, <2>1, <2>2, EventsAssumption DEF Deliver
  <1>7. ASSUME NEW s \in Subscribers, SubscribeToEvents(s) PROVE LockInv'
    <2>1. \A t \in Subscribers : sub'[t].phase = IF t = s THEN "open" ELSE sub[t].phase
      BY <1>7 DEF SubscribeToEvents, TypeOK, Subscription
    <2> QED BY <1>7, <2>1 DEF SubscribeToEvents, HandlersMayChange
  <1>8. ASSUME NEW s \in Subscribers, Unsubscribe(s) PROVE LockInv'
    <2>1. \A t \in Subscribers :
            sub'[t].phase = IF t = s THEN "closing" ELSE sub[t].phase
      BY <1>8 DEF Unsubscribe, TypeOK, Subscription
    <2>2. disp' = disp /\ disp.open = {}
      BY <1>8 DEF Unsubscribe, HandlersMayChange
    <2> QED BY <1>8, <2>1, <2>2 DEF Unsubscribe
  <1>9. ASSUME UNCHANGED <<disp, handlers, recording>>,
               \A t \in Subscribers :
                 sub'[t].phase \in {"open", "cancelling"}
                   <=> sub[t].phase \in {"open", "cancelling"}
        PROVE  LockInv'
    BY <1>9
  <1>10. ASSUME NEW s \in Subscribers, Cancel(s) \/ Close(s) \/ Subscribe(s)
         PROVE  LockInv'
    <2>1. PICK p \in {"cancelling", "closed", "subscribing"} :
            /\ sub' = [sub EXCEPT ![s].phase = p]
            /\ sub[s].phase \in {"open", "cancelling"} <=> p = "cancelling"
      BY <1>10 DEF Cancel, Close, Subscribe
    <2>2. \A t \in Subscribers : sub'[t].phase = IF t = s THEN p ELSE sub[t].phase
      BY <2>1 DEF TypeOK, Subscription
    <2>3. UNCHANGED <<disp, handlers, recording>>
      BY <1>10 DEF Cancel, Close, Subscribe
    <2> QED BY <2>1, <2>2, <2>3, <1>9
  <1>11. ASSUME NEW s \in Subscribers,
                \/ ReplayLocks(s) \/ Replay(s) \/ ReplayEnds(s) \/ StreamSend(s)
                \/ StreamEnds(s) \/ Leave(s) \/ ContextEnds(s)
         PROVE  LockInv'
    <2>1. UNCHANGED <<disp, handlers, recording>>
      BY <1>11 DEF ReplayLocks, Replay, ReplayEnds, StreamSend, StreamEnds, Leave,
         ContextEnds
    <2>2. \A t \in Subscribers : sub'[t].phase = sub[t].phase
      <3>1. CASE ReplayLocks(s) BY <3>1 DEF ReplayLocks, TypeOK, Subscription
      <3>2. CASE Replay(s) BY <3>2 DEF Replay, TypeOK, Subscription
      <3>3. CASE ReplayEnds(s) BY <3>3 DEF ReplayEnds, TypeOK, Subscription
      <3>4. CASE StreamSend(s) BY <3>4 DEF StreamSend, TypeOK, Subscription
      <3>5. CASE StreamEnds(s) BY <3>5 DEF StreamEnds, TypeOK, Subscription
      <3>6. CASE Leave(s) BY <3>6 DEF Leave, TypeOK, Subscription
      <3>7. CASE ContextEnds(s) BY <3>7 DEF ContextEnds, TypeOK, Subscription
      <3> QED BY <1>11, <3>1, <3>2, <3>3, <3>4, <3>5, <3>6, <3>7
    <2> QED BY <2>1, <2>2, <1>9
  <1>12. ASSUME UNCHANGED vars PROVE LockInv'
    BY <1>12 DEF vars
  <1> QED
    BY StepCases, <1>1, <1>2, <1>3, <1>4, <1>5, <1>6, <1>7, <1>8, <1>10, <1>11, <1>12

(* Every variable keeps to its type: only an event that is being dispatched *)
(* is recorded or delivered (service.go:28-32, bus.go:55-67).              *)
THEOREM EventsTypeCorrect == Spec => []TypeOK
  <1>1. TypeOK /\ LockInv /\ [Next]_vars => (TypeOK /\ LockInv)'
    BY StepType, StepLock
  <1> QED BY InitialLock, <1>1, PTL DEF Spec

(* A live event never meets a closed channel, whoever leaves when: init    *)
(* can only panic in a replay (service.go:50-56, 67-71).                   *)
THEOREM LiveSendsCorrect == Spec => []LiveSendsFindChannelOpen
  <1>1. TypeOK /\ LockInv /\ [Next]_vars => (TypeOK /\ LockInv)'
    BY StepType, StepLock
  <1>2. LockInv => LiveSendsFindChannelOpen
    BY DEF LockInv, LiveSendsFindChannelOpen, Closed
  <1> QED BY InitialLock, <1>1, <1>2, PTL DEF Spec
(* Nobody replays before the subscription is in eventHandlers.             *)
ReplaysAfterSubscribing ==
    \A s \in Subscribers :
      sub[s].phase \in {"none", "subscribing"} => sub[s].replay = "lock"

TakenUp(e) == e \in RecordedEvents \/ e = disp.event
Reaches(s, e) ==
    \/ count[s][e] > 0
    \/ e \in StillToReplay(s)
    \/ e = disp.event /\ s \in disp.open

GapInv == TypeOK /\ LockInv /\ ReplaysAfterSubscribing /\ NothingFallsBetween

(* A step that only moves other goroutines, or takes s out of "open",      *)
(* disturbs nothing for s.                                                 *)
LEMMA OtherStep ==
    ASSUME NEW s \in Subscribers, NEW e \in Events,
           sub[s].phase = "open" /\ TakenUp(e) => Reaches(s, e),
           UNCHANGED <<recorded, disp>>, count'[s] = count[s],
           \/ sub'[s].phase # "open"
           \/ /\ sub'[s].phase = sub[s].phase
              /\ sub'[s].replay = sub[s].replay /\ sub'[s].next = sub[s].next
    PROVE  (sub[s].phase = "open" /\ TakenUp(e) => Reaches(s, e))'
  BY DEF TakenUp, Reaches, StillToReplay, RecordedEvents

(* Recording the event that is being dispatched adds to what is replayed   *)
(* to those who have not begun their replay.                               *)
LEMMA RecordStep ==
    ASSUME TypeOK, LockInv, Record, NEW s \in Subscribers, NEW e \in Events,
           sub[s].phase = "open" /\ TakenUp(e) => Reaches(s, e)
    PROVE  (sub[s].phase = "open" /\ TakenUp(e) => Reaches(s, e))'
  <1>1. disp.event \in Events
    BY DEF Record, LockInv, Dispatching, TypeOK
  <1>2. /\ Len(recorded') = Len(recorded) + 1 /\ Len(recorded) \in Nat
        /\ \A n \in 1..Len(recorded) : recorded'[n] = recorded[n]
        /\ recorded'[Len(recorded) + 1] = disp.event
    BY <1>1 DEF Record, TypeOK
  <1>3. RecordedEvents' = RecordedEvents \cup {disp.event}
    BY <1>2 DEF RecordedEvents
  <1>4. s # Recorder /\ disp'.event = disp.event /\ disp'.open = disp.open \ {Recorder}
    BY EventsAssumption DEF Record, HandlerReturns, TypeOK
  <1>5. sub' = sub /\ count' = count /\ sub[s].replay \in {"lock", "done"}
    BY DEF Record, Replaying, TypeOK, Subscription
  <1>6. StillToReplay(s) \subseteq StillToReplay(s)'
    BY <1>3, <1>5 DEF StillToReplay
  <1> QED BY <1>3, <1>4, <1>5, <1>6 DEF TakenUp, Reaches

(* The steps of the replay itself.                                         *)
LEMMA ReplayStep ==
    ASSUME TypeOK, NEW s \in Subscribers, NEW e \in Events, Replayer(s),
           sub[s].phase = "open" /\ TakenUp(e) => Reaches(s, e)
    PROVE  (sub[s].phase = "open" /\ TakenUp(e) => Reaches(s, e))'
  <1>1. UNCHANGED <<recorded, disp>>
    BY DEF Replayer, ReplayLocks, Replay, ReplayEnds
  <1>2. Len(recorded) \in Nat
    BY DEF TypeOK
  <1>3. CASE ReplayLocks(s)
    <2>1. /\ sub'[s].phase = sub[s].phase /\ sub[s].replay = "lock"
          /\ sub'[s].replay = "send" /\ sub'[s].next = 1
      BY <1>3 DEF ReplayLocks, TypeOK, Subscription
    <2>2. StillToReplay(s)' = StillToReplay(s)
      BY <1>1, <2>1 DEF StillToReplay, RecordedEvents
    <2> QED BY <1>1, <1>3, <2>1, <2>2 DEF ReplayLocks, TakenUp, Reaches, RecordedEvents
  <1>4. CASE Replay(s)
    <2>1. /\ sub'[s].phase = sub[s].phase /\ sub[s].replay = "send"
          /\ sub'[s].replay = "send" /\ sub'[s].next = sub[s].next + 1
          /\ sub[s].next \in Nat \ {0} /\ sub[s].next <= Len(recorded)
      BY <1>4 DEF Replay, Replaying, TypeOK, Subscription
    <2> DEFINE f == recorded[sub[s].next]
    <2>2. f \in Events
      BY <2>1 DEF TypeOK
    <2>3. StillToReplay(s) \subseteq StillToReplay(s)' \cup {f}
      BY <1>1, <1>2, <2>1 DEF StillToReplay
    <2>4. ASSUME sub[s].phase = "open"
          PROVE  count'[s][f] > 0 /\ \A g \in Events \ {f} : count'[s][g] = count[s][g]
      <3>1. count' = [count EXCEPT ![s][f] = @ + 1]
        BY <1>4, <2>4 DEF Replay, Send, Closed
      <3>2. count[s] \in [Events -> Nat] /\ count[s][f] \in Nat
        BY <2>2 DEF TypeOK
      <3>3. count'[s] = [count[s] EXCEPT ![f] = @ + 1]
        BY <3>1 DEF TypeOK
      <3> HIDE DEF f
      <3> QED BY <3>2, <3>3, <2>2
    <2>5. TakenUp(e)' = TakenUp(e)
      BY <1>1 DEF TakenUp, RecordedEvents
    <2> HIDE DEF f
    <2> QED BY <1>1, <2>1, <2>2, <2>3, <2>4, <2>5 DEF Reaches
  <1>5. CASE ReplayEnds(s)
    <2>1. /\ sub'[s].phase = sub[s].phase /\ sub[s].replay = "send"
          /\ sub[s].next \in Nat \ {0} /\ sub[s].next > Len(recorded)
      BY <1>5 DEF ReplayEnds, Replaying, TypeOK, Subscription
    <2>2. StillToReplay(s) = {}
      BY <1>2, <2>1 DEF StillToReplay
    <2> QED BY <1>1, <1>5, <2>1, <2>2 DEF ReplayEnds, TakenUp, Reaches, RecordedEvents
  <1> QED BY <1>3, <1>4, <1>5 DEF Replayer

(* Every step keeps the covering of every subscriber and every event.      *)
LEMMA GapStep ==
    ASSUME GapInv, [Next]_vars
    PROVE  NothingFallsBetween'
  <1> DEFINE Safe(s, e) == sub[s].phase = "open" /\ TakenUp(e) => Reaches(s, e)
  <1>1. SUFFICES ASSUME NEW s \in Subscribers, NEW e \in Events
                 PROVE  Safe(s, e)'
    BY DEF NothingFallsBetween, TakenUp, Reaches
  <1>2. Safe(s, e) /\ TypeOK /\ LockInv /\ ReplaysAfterSubscribing
    BY DEF GapInv, NothingFallsBetween, TakenUp, Reaches
  <1>3. s # Recorder /\ None \notin Events
    BY EventsAssumption
  <1>4. ASSUME NEW f \in Events, DispatchEvent(f) PROVE Safe(s, e)'
    <2>1. disp.event = None /\ disp'.event = f /\ disp'.open = handlers \cup {Recorder}
      BY <1>4 DEF DispatchEvent, Dispatching
    <2>2. StillToReplay(s)' = StillToReplay(s) /\ RecordedEvents' = RecordedEvents
      BY <1>4 DEF DispatchEvent, StillToReplay, RecordedEvents
    <2>3. sub[s].phase = "open" => s \in handlers
      BY <1>2 DEF LockInv
    <2> QED BY <1>2, <1>3, <1>4, <2>1, <2>2, <2>3 DEF DispatchEvent, TakenUp, Reaches
  <1>5. CASE DispatchEnds
    <2>1. disp.open = {} /\ disp'.event = None
      BY <1>2, <1>5 DEF DispatchEnds, AllReturned, TypeOK
    <2>2. StillToReplay(s)' = StillToReplay(s) /\ RecordedEvents' = RecordedEvents
      BY <1>5 DEF DispatchEnds, StillToReplay, RecordedEvents
    <2> QED BY <1>2, <1>3, <1>5, <2>1, <2>2 DEF DispatchEnds, TakenUp, Reaches
  <1>6. CASE Record
    BY <1>2, <1>6, RecordStep
  <1>7. ASSUME NEW t \in Subscribers, Deliver(t) PROVE Safe(s, e)'
    <2>1. disp.event \in Events
      BY <1>2, <1>7 DEF Deliver, LockInv, Dispatching, TypeOK
    <2>2. disp'.event = disp.event /\ disp'.open = disp.open \ {t}
      BY <1>2, <1>7 DEF Deliver, HandlerReturns, TypeOK
    <2>3. /\ sub'[s].phase = sub[s].phase /\ sub'[s].replay = sub[s].replay
          /\ sub'[s].next = sub[s].next /\ recorded' = recorded
      BY <1>2, <1>7 DEF Deliver, TypeOK, Subscription
    <2>4. StillToReplay(s)' = StillToReplay(s) /\ RecordedEvents' = RecordedEvents
      BY <2>3 DEF StillToReplay, RecordedEvents
    <2>5. s # t => count'[s] = count[s]
      BY <1>2, <1>7 DEF Deliver, Send, TypeOK
    <2>6. ASSUME s = t, sub[s].phase = "open"
          PROVE  /\ count'[s][disp.event] > 0
                 /\ \A g \in Events \ {disp.event} : count'[s][g] = count[s][g]
      <3>1. count' = [count EXCEPT ![s][disp.event] = @ + 1]
        BY <1>7, <2>6 DEF Deliver, Send, Closed
      <3>2. count[s] \in [Events -> Nat] /\ count[s][disp.event] \in Nat
        BY <1>2, <2>1 DEF TypeOK
      <3>3. count'[s] = [count[s] EXCEPT ![disp.event] = @ + 1]
        BY <1>2, <3>1 DEF TypeOK
      <3> QED BY <2>1, <3>2, <3>3
    <2> QED BY <1>2, <2>2, <2>3, <2>4, <2>5, <2>6 DEF TakenUp, Reaches
  <1>8. ASSUME NEW t \in Subscribers, SubscribeToEvents(t) PROVE Safe(s, e)'
    <2>1. CASE t = s
      <3>1. sub[s].replay = "lock" /\ sub'[s].replay = "lock" /\ disp' = disp /\ disp.event = None
        BY <1>2, <1>8, <2>1 DEF SubscribeToEvents, HandlersMayChange, Dispatching,
           ReplaysAfterSubscribing, TypeOK, Subscription
      <3>2. StillToReplay(s)' = RecordedEvents'
        BY <3>1 DEF StillToReplay
      <3> QED BY <1>3, <3>1, <3>2 DEF TakenUp, Reaches
    <2>2. CASE t # s
      <3>1. sub'[s] = sub[s] /\ UNCHANGED <<recorded, disp, count>>
        BY <1>2, <1>8, <2>2 DEF SubscribeToEvents, TypeOK
      <3> QED BY <1>2, <3>1, OtherStep
    <2> QED BY <2>1, <2>2
  <1>9. ASSUME NEW t \in Subscribers, Replayer(t) PROVE Safe(s, e)'
    <2>1. CASE t = s
      BY <1>2, <1>9, <2>1, ReplayStep
    <2>2. CASE t # s
      <3>1. sub'[s] = sub[s] /\ count'[s] = count[s] /\ UNCHANGED <<recorded, disp>>
        <4>1. CASE ReplayLocks(t) BY <1>2, <2>2, <4>1 DEF ReplayLocks, TypeOK
        <4>2. CASE Replay(t) BY <1>2, <2>2, <4>2 DEF Replay, Send, TypeOK
        <4>3. CASE ReplayEnds(t) BY <1>2, <2>2, <4>3 DEF ReplayEnds, TypeOK
        <4> QED BY <1>9, <4>1, <4>2, <4>3 DEF Replayer
      <3> QED BY <1>2, <3>1, OtherStep
    <2> QED BY <2>1, <2>2
  <1>10. ASSUME NEW t \in Subscribers,
                \/ Subscribe(t) \/ StreamSend(t) \/ StreamEnds(t) \/ Leave(t)
                \/ ContextEnds(t) \/ Cancel(t) \/ Unsubscribe(t) \/ Close(t)
         PROVE  Safe(s, e)'
    <2>1. UNCHANGED <<recorded, disp, count>>
      BY <1>10 DEF Subscribe, StreamSend, StreamEnds, Leave, ContextEnds, Cancel,
         Unsubscribe, Close
    <2>2. \/ sub'[s].phase # "open"
          \/ /\ sub'[s].phase = sub[s].phase
             /\ sub'[s].replay = sub[s].replay /\ sub'[s].next = sub[s].next
      <3> USE <1>2 DEF TypeOK, Subscription
      <3>1. CASE Subscribe(t) BY <3>1 DEF Subscribe
      <3>2. CASE StreamSend(t) BY <3>2 DEF StreamSend
      <3>3. CASE StreamEnds(t) BY <3>3 DEF StreamEnds
      <3>4. CASE Leave(t) BY <3>4 DEF Leave
      <3>5. CASE ContextEnds(t) BY <3>5 DEF ContextEnds
      <3>6. CASE Cancel(t) BY <3>6 DEF Cancel
      <3>7. CASE Unsubscribe(t) BY <3>7 DEF Unsubscribe
      <3>8. CASE Close(t) BY <3>8 DEF Close
      <3> QED BY <1>10, <3>1, <3>2, <3>3, <3>4, <3>5, <3>6, <3>7, <3>8
    <2> QED BY <1>2, <2>1, <2>2, OtherStep
  <1>11. ASSUME UNCHANGED <<recorded, disp, count, sub>> PROVE Safe(s, e)'
    BY <1>2, <1>11, OtherStep
  <1>12. CASE \/ \E f \in Events : PublishEvent(f)
              \/ RecorderLocks \/ UNCHANGED vars
    BY <1>11, <1>12 DEF PublishEvent, RecorderLocks, vars
  <1> HIDE DEF Safe
  <1> QED
    BY StepCases, <1>4, <1>5, <1>6, <1>7, <1>8, <1>9, <1>10, <1>12 DEF Replayer

(* Every step keeps replays behind subscriptions.                          *)
LEMMA ReplaysAfterStep ==
    ASSUME GapInv, [Next]_vars
    PROVE  ReplaysAfterSubscribing'
  <1> USE DEF GapInv, ReplaysAfterSubscribing
  <1>1. SUFFICES ASSUME NEW s \in Subscribers
                 PROVE  sub'[s].phase \in {"none", "subscribing"} => sub'[s].replay = "lock"
    OBVIOUS
  <1> USE DEF TypeOK, Subscription
  <1>2. ASSUME NEW t \in Subscribers, Replayer(t)
        PROVE  sub'[s].phase \in {"none", "subscribing"} => sub'[s].replay = "lock"
    <2>1. sub[t].phase \notin {"none", "subscribing"} /\ sub'[t].phase = sub[t].phase
      <3>1. CASE ReplayLocks(t) BY <3>1 DEF ReplayLocks
      <3>2. CASE Replay(t) BY <3>2 DEF Replay, Replaying
      <3>3. CASE ReplayEnds(t) BY <3>3 DEF ReplayEnds, Replaying
      <3> QED BY <1>2, <3>1, <3>2, <3>3 DEF Replayer
    <2>2. s # t => sub'[s] = sub[s]
      BY <1>2 DEF Replayer, ReplayLocks, Replay, ReplayEnds
    <2> QED BY <2>1, <2>2
  <1>3. ASSUME NEW t \in Subscribers,
               \/ Subscribe(t) \/ SubscribeToEvents(t) \/ Deliver(t)
               \/ StreamSend(t) \/ StreamEnds(t) \/ Leave(t) \/ ContextEnds(t)
               \/ Cancel(t) \/ Unsubscribe(t) \/ Close(t)
        PROVE  /\ sub'[s].replay = sub[s].replay
               /\ sub'[s].phase \in {"none", "subscribing"}
                    => sub[s].phase \in {"none", "subscribing"}
    <2>1. CASE Subscribe(t) BY <2>1 DEF Subscribe
    <2>2. CASE SubscribeToEvents(t) BY <2>2 DEF SubscribeToEvents
    <2>3. CASE Deliver(t) BY <2>3 DEF Deliver
    <2>4. CASE StreamSend(t) BY <2>4 DEF StreamSend
    <2>5. CASE StreamEnds(t) BY <2>5 DEF StreamEnds
    <2>6. CASE Leave(t) BY <2>6 DEF Leave
    <2>7. CASE ContextEnds(t) BY <2>7 DEF ContextEnds
    <2>8. CASE Cancel(t) BY <2>8 DEF Cancel
    <2>9. CASE Unsubscribe(t) BY <2>9 DEF Unsubscribe
    <2>10. CASE Close(t) BY <2>10 DEF Close
    <2> QED BY <1>3, <2>1, <2>2, <2>3, <2>4, <2>5, <2>6, <2>7, <2>8, <2>9, <2>10
  <1>4. ASSUME sub' = sub
        PROVE  sub'[s].phase \in {"none", "subscribing"} => sub'[s].replay = "lock"
    BY <1>4
  <1>5. CASE \/ \E e \in Events : PublishEvent(e) \/ DispatchEvent(e)
             \/ DispatchEnds \/ RecorderLocks \/ Record \/ UNCHANGED vars
    BY <1>4, <1>5 DEF PublishEvent, DispatchEvent, DispatchEnds, RecorderLocks,
       Record, vars
  <1> QED
    BY StepCases, <1>2, <1>3, <1>5 DEF Replayer

(* No event falls between the replay and the live events, for any number   *)
(* of events and subscribers (service.go:48-65).                           *)
THEOREM NoGapCorrect == Spec => []NothingFallsBetween
  <1>1. Init => GapInv
    <2>1. Init => ReplaysAfterSubscribing
      BY DEF Init, ReplaysAfterSubscribing, NotSubscribed
    <2>2. Init => NothingFallsBetween
      BY DEF Init, NothingFallsBetween, NotSubscribed
    <2> QED BY <2>1, <2>2, InitialLock DEF GapInv
  <1>2. GapInv /\ [Next]_vars => GapInv'
    BY StepType, StepLock, GapStep, ReplaysAfterStep DEF GapInv
  <1>3. GapInv => NothingFallsBetween
    BY DEF GapInv
  <1> QED BY <1>1, <1>2, <1>3, PTL DEF Spec
================================================================================
