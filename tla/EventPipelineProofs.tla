------------------------ MODULE EventPipelineProofs ------------------------
(***************************************************************************)
(* From on_event in one process to next() in another, for any number of    *)
(* events, retries, crashes, restarts and waiting deliveries.  What the    *)
(* two proofs say of their parts is put together: a step of the pipeline   *)
(* is one of the publisher, or one of the subscriber, or both at a         *)
(* restart of the server.                                                  *)
(***************************************************************************)
EXTENDS EventPipeline, TLAPS

PP == INSTANCE EventPublisherProofs
SP == INSTANCE EventSubscriberProofs WITH newest <- 0, copies <- 0, MaxCopies <- 0

LEMMA Assumed ==
  /\ MaxEvents \in Nat \ {0} /\ StreamLimit \in Nat \ {0}
  /\ PP!PublisherAssumption /\ SP!SubscriberAssumption
  /\ PP!JetStreamAssumption /\ SP!JetStreamAssumption
BY PipelineAssumption
   DEF PipelineAssumption, P!JetStreamAssumption, P!PublisherAssumption, S!SubscriberAssumption,
       PP!JetStreamAssumption, PP!PublisherAssumption, SP!SubscriberAssumption,
       SP!JetStreamAssumption, P!Events, PP!Events, S!Events, SP!Events
-----------------------------------------------------------------------------
(* The publisher's part of a step is a step of EventPublisher.             *)

LEMMA SameStore ==
  ASSUME NEW e PROVE /\ P!Store(e) <=> PP!Store(e)
                     /\ P!Store(e) <=> SP!Store(e)
<1>1. ASSUME NEW T
      PROVE  P!Cardinality(T) = PP!Cardinality(T) /\ P!Cardinality(T) = SP!Cardinality(T)
  BY DEF P!Cardinality, PP!Cardinality, SP!Cardinality
<1>2. ASSUME NEW T PROVE P!Newest(T) = PP!Newest(T) /\ P!Newest(T) = SP!Newest(T)
  BY <1>1 DEF P!Newest, PP!Newest, SP!Newest
<1>3. ASSUME NEW m PROVE P!Subject(m) = PP!Subject(m) /\ P!Subject(m) = SP!Subject(m)
  BY DEF P!Subject, PP!Subject, SP!Subject
<1> QED BY <1>2, <1>3 DEF P!Store, PP!Store, SP!Store
LEMMA SameRange == ASSUME NEW f PROVE P!Range(f) = PP!Range(f)
BY DEF P!Range, PP!Range

LEMMA SameServe == ASSUME NEW m PROVE P!Serve(m) <=> PP!Serve(m)
BY SameStore DEF P!Serve, PP!Serve, P!Answer, PP!Answer, P!busVars, PP!busVars

LEMMA PublishingIs == P!Publishing => PP!Publishing
<1>1. \A kind : P!AttemptFails(kind) <=> PP!AttemptFails(kind)
  BY DEF P!AttemptFails, PP!AttemptFails, P!GiveUp, PP!GiveUp, P!Return, PP!Return, P!NextTry,
         PP!NextTry, P!NoEvent, PP!NoEvent, P!layerVars, PP!layerVars, P!busVars, PP!busVars
<1>2. P!StreamReady \/ P!CreateFails => PP!StreamReady \/ PP!CreateFails
  BY DEF P!StreamReady, PP!StreamReady, P!CreateFails, PP!CreateFails, P!CreateStream,
         PP!CreateStream, P!Return, PP!Return, P!NextTry, PP!NextTry, P!NoEvent, PP!NoEvent,
         P!layerVars, PP!layerVars, P!busVars, PP!busVars, P!outcomes, PP!outcomes, P!netVars,
         PP!netVars
<1>3. P!RecvEvent \/ P!RecvClosed => PP!RecvEvent \/ PP!RecvClosed
  BY DEF P!RecvEvent, PP!RecvEvent, P!RecvClosed, PP!RecvClosed, P!layerVars, PP!layerVars,
         P!taskVars, PP!taskVars, P!busVars, PP!busVars, P!outcomes, PP!outcomes, P!netVars,
         PP!netVars
<1>4. P!Send \/ P!AckReceived => PP!Send \/ PP!AckReceived
  BY DEF P!Send, PP!Send, P!AckReceived, PP!AckReceived, P!Return, PP!Return, P!NoEvent,
         PP!NoEvent, P!layerVars, PP!layerVars, P!busVars, PP!busVars, P!outcomes, PP!outcomes
<1>5. P!SendFails \/ P!TimedOut \/ P!ErrorReceived
        => PP!SendFails \/ PP!TimedOut \/ PP!ErrorReceived
  BY <1>1 DEF P!SendFails, PP!SendFails, P!TimedOut, PP!TimedOut, P!ErrorReceived,
              PP!ErrorReceived
<1>6. P!BackoffOver => PP!BackoffOver
  BY DEF P!BackoffOver, PP!BackoffOver, P!layerVars, PP!layerVars, P!busVars, PP!busVars,
         P!outcomes, PP!outcomes, P!netVars, PP!netVars
<1> QED BY <1>2, <1>3, <1>4, <1>5, <1>6 DEF P!Publishing, PP!Publishing

LEMMA EnvironmentIs ==
  P!OnEvent \/ P!DropLayer \/ P!Cancel \/ P!Deliver \/ P!DeliverStray \/ P!Disconnect
    \/ P!ServerRestart
  => PP!Environment
<1> USE DEF P!layerVars, PP!layerVars, P!taskVars, PP!taskVars, P!outcomes, PP!outcomes,
            P!netVars, PP!netVars, P!busVars, PP!busVars
<1>1. P!OnEvent \/ P!DropLayer => PP!OnEvent \/ PP!DropLayer
  BY DEF P!OnEvent, PP!OnEvent, P!CanAccept, PP!CanAccept, P!Running, PP!Running, P!DropLayer,
         PP!DropLayer
<1>2. P!Cancel => PP!Cancel
  BY SameRange DEF P!Cancel, PP!Cancel, P!Running, PP!Running, P!NoEvent, PP!NoEvent
<1>3. P!Deliver \/ P!DeliverStray => PP!Deliver \/ PP!DeliverStray
  BY SameServe DEF P!Deliver, PP!Deliver, P!DeliverStray, PP!DeliverStray
<1>4. P!Disconnect \/ P!ServerRestart => PP!Disconnect \/ PP!ServerRestart
  BY DEF P!Disconnect, PP!Disconnect, P!ServerRestart, PP!ServerRestart, P!LoseStream,
         PP!LoseStream
<1> QED BY <1>1, <1>2, <1>3, <1>4 DEF PP!Environment

LEMMA ConnectIs == P!Connect => PP!Connect
BY DEF P!Connect, PP!Connect, P!layerVars, PP!layerVars, P!outcomes, PP!outcomes, P!netVars,
       PP!netVars, P!busVars, PP!busVars

LEMMA SubscriberLeaves == S!SNext => UNCHANGED busVars
BY DEF S!SNext, S!Subscribing, S!Receiving, S!RequestFails, S!GotStream, S!GotConsumer, S!Poll,
       S!Parse, S!Resubscribe, S!Crash, S!Subscribe, S!Push, S!Redeliver, S!AckArrives,
       S!AckLost, S!busVars, busVars

LEMMA PublisherVars == UNCHANGED <<busVars, publisherVars>> => UNCHANGED PP!vars
BY DEF busVars, publisherVars, PP!vars, PP!layerVars, PP!taskVars, PP!outcomes, PP!netVars,
       PP!busVars

LEMMA PublisherIs == Spec => PP!Spec
<1>1. Init => PP!Init
  BY DEF Init, P!Init, PP!Init, P!BusInit, PP!BusInit, P!NoEvent, PP!NoEvent
<1>2. [Next]_vars => [PP!Next]_PP!vars
  <2>1. PublisherSteps \/ Restart => PP!Next
    BY ConnectIs, PublishingIs, EnvironmentIs DEF PublisherSteps, Restart, PP!Next
  <2>2. S!SNext /\ UNCHANGED publisherVars => UNCHANGED PP!vars
    BY SubscriberLeaves, PublisherVars
  <2>3. UNCHANGED vars => UNCHANGED PP!vars
    BY PublisherVars DEF vars
  <2> QED BY <2>1, <2>2, <2>3 DEF Next
<1> QED BY <1>1, <1>2, PTL DEF Spec, PP!Spec
-----------------------------------------------------------------------------
(* The subscriber's part is one of EventSubscriber.                        *)

LEMMA SubscriberIs == S!SNext => SP!SNext
<1> USE DEF S!busVars, SP!busVars, S!serverVars, SP!serverVars, S!clientVars, SP!clientVars,
            S!output, SP!output, S!history, SP!history, S!NoMessage, SP!NoMessage
<1>1. S!HaveConsumer <=> SP!HaveConsumer
  BY DEF S!HaveConsumer, SP!HaveConsumer
<1>2. S!Subscribe <=> SP!Subscribe
  BY DEF S!Subscribe, SP!Subscribe
<1>3. S!Subscribing => SP!Subscribing
  BY <1>1, <1>2
     DEF S!Subscribing, SP!Subscribing, S!RequestFails, SP!RequestFails, S!GotStream,
         SP!GotStream, S!GotConsumer, SP!GotConsumer, S!StartingPoint, SP!StartingPoint
<1>4. S!Receiving => SP!Receiving
  BY DEF S!Receiving, SP!Receiving, S!Poll, SP!Poll, S!Parse, SP!Parse
<1>5. S!Push => SP!Push
  <2>1. S!Cardinality(pending) = SP!Cardinality(pending)
    BY DEF S!Cardinality, SP!Cardinality
  <2>2. S!HasRoom <=> SP!HasRoom
    BY <2>1 DEF S!HasRoom, SP!HasRoom
  <2>3. S!Subscribed <=> SP!Subscribed
    BY DEF S!Subscribed, SP!Subscribed
  <2> QED BY <2>2, <2>3 DEF S!Push, SP!Push
<1>6. S!Redeliver => SP!Redeliver
  BY DEF S!Redeliver, SP!Redeliver, S!Subscribed, SP!Subscribed
<1>7. S!Resubscribe \/ S!Crash => SP!Resubscribe \/ SP!Crash
  BY <1>2 DEF S!Resubscribe, SP!Resubscribe, S!Crash, SP!Crash, S!Subscribed, SP!Subscribed
<1>8. S!AckArrives \/ S!AckLost => SP!AckArrives \/ SP!AckLost
  BY DEF S!AckArrives, SP!AckArrives, S!AckLost, SP!AckLost
<1> QED BY <1>3, <1>4, <1>5, <1>6, <1>7, <1>8 DEF S!SNext, SP!SNext
-----------------------------------------------------------------------------
(* What links the two: all the subscriber has was stored, in an order      *)
(* that the publisher keeps.                                               *)
StoredEvents == {a.ev : a \in stored}
Linked == SP!SubscriberOrder /\ SP!SeenIn(StoredEvents)

PublisherOK == PP!PublisherInv /\ PP!OrderInv /\ PP!StoredInv

LEMMA PublisherHolds == ~Straggling /\ Spec => []PublisherOK
<1>1. PP!Spec => []PP!PublisherInv
  BY Assumed, PP!PublisherInvariant
<1>2. ~Straggling /\ PP!Spec => [](PP!OrderInv /\ PP!StreamInOrder)
  BY Assumed, PP!StreamOrder
<1>3. ~Straggling /\ PP!Spec => []PP!StoredInv
  BY Assumed, PP!StoredOrder
<1> QED BY <1>1, <1>2, <1>3, PublisherIs, PTL DEF PublisherOK

(* A step of the publisher stores at most what is first on the connection, *)
(* and all that was stored before is not newer.                            *)
LEMMA PublisherStores ==
  ASSUME PublisherOK, PublisherSteps, UNCHANGED subscriberVars, Linked
  PROVE  Linked'
<1>1. UNCHANGED SP!subVars /\ strays = {} /\ link \in Seq(PP!Attempt)
  BY DEF subscriberVars, SP!subVars, SP!serverVars, SP!clientVars, SP!output, SP!history,
         PublisherOK, PP!OrderInv, PP!PublisherInv, PP!TypeOK
<1>2. ASSUME UNCHANGED <<up, msgs, lastSeq, stored>> \/ (P!CreateStream /\ UNCHANGED stored)
      PROVE  Linked'
  <2>1. SP!CreateStream \/ UNCHANGED SP!busVars
    BY <1>2 DEF P!CreateStream, SP!CreateStream, SP!busVars
  <2>2. SP!SubscriberOrder'
    BY <1>1, <2>1, Assumed, SP!CreateStep, SP!StandStill DEF Linked
  <2>3. SP!SeenIn(StoredEvents)'
    BY <1>1, <1>2 DEF Linked, SP!SeenIn, StoredEvents, P!CreateStream, SP!subVars,
                      SP!clientVars, SP!output
  <2> QED BY <2>2, <2>3 DEF Linked
<1>3. ASSUME link # <<>>, up, P!Store(Head(link).ev), stored' = stored \cup {Head(link)}
      PROVE  Linked'
  <2> PICK before : before = StoredEvents
    OBVIOUS
  <2> PICK e : e = Head(link).ev
    OBVIOUS
  <2>1. Head(link) = link[1] /\ 1 \in DOMAIN link /\ Head(link) \in PP!Attempt
    BY <1>1, <1>3
  <2>2. e \in SP!Events
    BY <2>1 DEF PP!Attempt, PP!Events, SP!Events
  <2>3. \A s \in before : s <= e
    BY <2>1 DEF StoredEvents, PublisherOK, PP!StoredInv, PP!StoredInOrder
  <2>4. SP!Store(e)
    BY <1>3, SameStore
  <2>5. SP!SubscriberOrder' /\ SP!SeenIn(before \cup {e})'
    BY <1>1, <1>3, <2>2, <2>3, <2>4, Assumed, SP!StoreStep DEF Linked
  <2>6. StoredEvents' = before \cup {e}
    BY <1>3 DEF StoredEvents
  <2> QED BY <2>5, <2>6 DEF Linked, SP!SeenIn
<1>4. CASE P!Deliver
  BY <1>2, <1>3, <1>4 DEF P!Deliver, P!Serve, P!busVars
<1>5. CASE P!DeliverStray
  BY <1>1, <1>5 DEF P!DeliverStray
<1>6. CASE P!Publishing
  BY <1>2, <1>6
     DEF P!Publishing, P!StreamReady, P!CreateFails, P!RecvEvent, P!RecvClosed, P!Send,
         P!AckReceived, P!SendFails, P!TimedOut, P!ErrorReceived, P!AttemptFails,
         P!BackoffOver, P!busVars
<1>7. CASE P!Connect \/ P!OnEvent \/ P!DropLayer \/ P!Cancel \/ P!Disconnect
  BY <1>2, <1>7 DEF P!Connect, P!OnEvent, P!DropLayer, P!Cancel, P!Disconnect, P!busVars
<1> QED BY <1>4, <1>5, <1>6, <1>7 DEF PublisherSteps

LEMMA LinkedStep ==
  ASSUME PublisherOK, MaxAckPending = 1, Linked, [Next]_vars
  PROVE  Linked' /\ latest <= latest'
<1>1. latest <= latest
  BY DEF Linked, SP!SubscriberOrder, SP!ConsumerOK
<1>2. CASE PublisherSteps /\ UNCHANGED subscriberVars
  BY <1>1, <1>2, PublisherStores DEF subscriberVars
<1>3. CASE S!SNext /\ UNCHANGED publisherVars
  <2>1. SP!SNext
    BY <1>3, SubscriberIs
  <2>2. SP!SubscriberOrder' /\ latest <= latest'
    BY <2>1, Assumed, SP!SubscriberStep DEF Linked
  <2> PICK before : before = StoredEvents
    OBVIOUS
  <2>3. SP!SeenIn(before)'
    BY <2>1, Assumed, SP!SeenStep DEF Linked
  <2>4. StoredEvents' = before
    BY <1>3 DEF publisherVars, StoredEvents
  <2> QED BY <2>2, <2>3, <2>4 DEF Linked, SP!SeenIn
<1>4. CASE Restart
  <2>1. SP!LoseStream /\ SP!ConsumerGone /\ UNCHANGED stored
    BY <1>4 DEF Restart, P!ServerRestart, P!LoseStream, SP!LoseStream, S!ConsumerGone,
                SP!ConsumerGone, S!clientVars, SP!clientVars, S!output, SP!output,
                S!history, SP!history
  <2>2. SP!SubscriberOrder'
    BY <2>1, Assumed, SP!RestartStep DEF Linked
  <2>3. SP!SeenIn(StoredEvents)' /\ latest' = latest
    BY <2>1 DEF Linked, SP!SeenIn, StoredEvents, SP!LoseStream, SP!ConsumerGone,
                SP!clientVars, SP!output
  <2> QED BY <1>1, <2>2, <2>3 DEF Linked
<1>5. CASE UNCHANGED vars
  <2>1. UNCHANGED SP!busVars /\ UNCHANGED SP!subVars /\ UNCHANGED <<stored, latest>>
    BY <1>5 DEF vars, busVars, subscriberVars, publisherVars, SP!busVars, SP!subVars,
                SP!serverVars, SP!clientVars, SP!output, SP!history
  <2>2. SP!SubscriberOrder'
    BY <2>1, Assumed, SP!StandStill DEF Linked
  <2>3. SP!SeenIn(StoredEvents)'
    BY <2>1 DEF Linked, SP!SeenIn, StoredEvents, SP!busVars, SP!subVars, SP!clientVars,
                SP!output
  <2> QED BY <1>1, <2>1, <2>2, <2>3 DEF Linked
<1> QED BY <1>2, <1>3, <1>4, <1>5 DEF Next

(* All that was stored was taken off the channel by the publisher.         *)
LEMMA HandedTaken == PublisherOK /\ Linked => HandedWasTaken
<1> SUFFICES ASSUME PublisherOK, Linked PROVE HandedWasTaken
  OBVIOUS
<1>1. handed \subseteq StoredEvents
  BY DEF Linked, SP!SeenIn
<1>2. \A e \in StoredEvents : e \notin Unpublishable
                             /\ e \in PP!InHand \cup acked \cup failed \cup lost
  BY DEF StoredEvents, PublisherOK, PP!StoredInv, PP!OriginOK, PP!Taken
<1>3. /\ PP!InHand \cup acked \cup failed \cup lost \subseteq 1..generated
      /\ dropped \cap (PP!InHand \cup acked \cup failed \cup lost) = {}
      /\ PP!Range(buffer) \cap (PP!InHand \cup acked \cup failed \cup lost) = {}
  BY DEF PublisherOK, PP!PublisherInv, PP!Accounted
<1>4. PP!Range(buffer) = {buffer[i] : i \in DOMAIN buffer}
  BY DEF PP!Range
<1> QED BY <1>1, <1>2, <1>3, <1>4 DEF HandedWasTaken

(* While requests do not overtake each other and the consumer waits for    *)
(* one acknowledgement at a time, next() in one process returns events in  *)
(* the order in which on_event saw them in the other, and only those that  *)
(* were taken off the channel.                                             *)
THEOREM EndToEndOrder == ~Straggling /\ MaxAckPending = 1 /\ Spec => EndToEnd
<1>1. CASE ~Straggling /\ MaxAckPending = 1
  <2>1. Init => Linked
    <3>1. SUFFICES ASSUME Init PROVE Linked
      OBVIOUS
    <3>2. SP!BusInit /\ SP!SInit /\ stored = {}
      BY <3>1 DEF Init, P!Init, P!BusInit, SP!BusInit, S!SInit, SP!SInit, S!NoMessage,
                  SP!NoMessage
    <3>3. StoredEvents = {}
      BY <3>2 DEF StoredEvents
    <3> QED BY <3>2, <3>3, Assumed, SP!OrderInit DEF Linked
  <2>2. PublisherOK /\ Linked /\ [Next]_vars => Linked' /\ latest <= latest'
    BY <1>1, LinkedStep
  <2>3. (PublisherOK /\ Linked => HandedWasTaken)'
    BY HandedTaken, PTL
  <2>4. Spec => []PublisherOK
    BY <1>1, PublisherHolds
  <2>5. PublisherOK /\ Linked /\ PublisherOK' /\ [Next]_vars
          => Linked' /\ [latest <= latest' /\ HandedWasTaken']_vars
    BY <2>2, <2>3
  <2> QED BY <2>1, <2>4, <2>5, PTL DEF Spec, EndToEnd
<1> QED BY <1>1
=============================================================================
