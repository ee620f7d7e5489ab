------------------------ MODULE EventPublisherProofs ------------------------
(***************************************************************************)
(* Proofs about EventPublisher, for every value of its constants: its      *)
(* types and control, the account of the events, the meaning of an Ok, the *)
(* order of the stream, how long an acknowledged event stays in it, and    *)
(* the steps of EventDelivery, which it implements.  That it also          *)
(* implements the fairness is left to TLC.                                 *)
(***************************************************************************)
EXTENDS EventPublisher, FiniteSetTheorems, TLAPS

USE JetStreamAssumption, PublisherAssumption
    DEF JetStreamAssumption, PublisherAssumption, NoEvent

(* Sequences: what Append and Tail leave in a sequence, and where. *)
LEMMA AppendIs ==
  ASSUME NEW S, NEW s \in Seq(S), NEW x \in S
  PROVE  /\ Append(s, x) \in Seq(S)
         /\ Len(Append(s, x)) = Len(s) + 1
         /\ DOMAIN Append(s, x) = 1..Len(s) + 1
         /\ \A i \in DOMAIN s : Append(s, x)[i] = s[i]
         /\ Append(s, x)[Len(s) + 1] = x
         /\ Range(Append(s, x)) = Range(s) \cup {x}
<1>1. /\ Append(s, x) \in Seq(S)
      /\ Len(Append(s, x)) = Len(s) + 1
      /\ DOMAIN Append(s, x) = 1..Len(s) + 1
      /\ \A i \in DOMAIN s : Append(s, x)[i] = s[i]
      /\ Append(s, x)[Len(s) + 1] = x
      /\ DOMAIN s = 1..Len(s) /\ Len(s) \in Nat
  OBVIOUS
<1>2. Range(Append(s, x)) = Range(s) \cup {x}
  BY <1>1 DEF Range
<1> QED BY <1>1, <1>2

LEMMA TailIs ==
  ASSUME NEW S, NEW s \in Seq(S), s # <<>>
  PROVE  /\ Tail(s) \in Seq(S)
         /\ Head(s) \in S
         /\ Head(s) = s[1] /\ 1 \in DOMAIN s
         /\ Len(Tail(s)) = Len(s) - 1
         /\ DOMAIN Tail(s) = 1..Len(s) - 1
         /\ \A i \in DOMAIN Tail(s) : i + 1 \in DOMAIN s /\ Tail(s)[i] = s[i + 1]
         /\ Range(s) = Range(Tail(s)) \cup {Head(s)}
<1>1. /\ Tail(s) \in Seq(S)
      /\ Head(s) \in S
      /\ Head(s) = s[1] /\ 1 \in DOMAIN s
      /\ Len(Tail(s)) = Len(s) - 1
      /\ DOMAIN Tail(s) = 1..Len(s) - 1
      /\ \A i \in DOMAIN Tail(s) : i + 1 \in DOMAIN s /\ Tail(s)[i] = s[i + 1]
      /\ DOMAIN s = 1..Len(s) /\ Len(s) \in Nat
  OBVIOUS
<1>2. \A i \in DOMAIN s : i = 1 \/ (i - 1 \in DOMAIN Tail(s) /\ s[i] = Tail(s)[i - 1])
  BY <1>1
<1>3. Range(s) \subseteq Range(Tail(s)) \cup {Head(s)}
  BY <1>1, <1>2 DEF Range
<1>4. Range(Tail(s)) \cup {Head(s)} \subseteq Range(s)
  BY <1>1 DEF Range
<1> QED BY <1>1, <1>3, <1>4
-----------------------------------------------------------------------------
(* What the server does keeps its state well typed. *)
LEMMA StoreType ==
  ASSUME BusTypeOK, NEW e \in Events, Store(e)
  PROVE  BusTypeOK'
BY DEF BusTypeOK, Store, Newest, Message

LEMMA ServeType ==
  ASSUME TypeOK, NEW m \in Attempt, Serve(m)
  PROVE  BusTypeOK' /\ stored' \subseteq Attempt /\ reply' \in Answers
<1>1. CASE up /\ Store(m.ev) /\ stored' = stored \cup {m} /\ Answer(m, "ok")
  <2>1. m.ev \in Events
    BY DEF Attempt
  <2> QED BY <1>1, <2>1, StoreType DEF TypeOK, Answer, Answers
<1>2. CASE UNCHANGED <<busVars, stored>> /\ Answer(m, "noStream")
  BY <1>2 DEF TypeOK, BusTypeOK, busVars, Answer, Answers
<1>3. CASE UNCHANGED <<busVars, stored>> /\ Answer(m, "error")
  BY <1>3 DEF TypeOK, BusTypeOK, busVars, Answer, Answers
<1> QED BY <1>1, <1>2, <1>3 DEF Serve

LEMMA TypeStep == TypeOK /\ ControlOK /\ [Next]_vars => TypeOK'
<1> SUFFICES ASSUME TypeOK, ControlOK, [Next]_vars PROVE TypeOK'
  OBVIOUS
<1> USE DEF TypeOK, ControlOK, Locations, Answers, layerVars, taskVars,
            outcomes, netVars
<1>1. CASE OnEvent
  <2>1. generated + 1 \in Events
    BY <1>1 DEF OnEvent, Events
  <2>2. buffer' \in Seq(Events) /\ Len(buffer') <= Capacity
    BY <1>1, <2>1, AppendIs, SMTT(20) DEF OnEvent, CanAccept
  <2> QED BY <1>1, <2>1, <2>2 DEF OnEvent, BusTypeOK, busVars
<1>2. CASE DropLayer
  BY <1>2 DEF DropLayer, BusTypeOK, busVars
<1>3. CASE Connect
  BY <1>3 DEF Connect, BusTypeOK, busVars
<1>4. CASE StreamReady
  BY <1>4 DEF StreamReady, CreateStream, Return, NextTry, BusTypeOK
<1>5. CASE CreateFails
  <2>1. BusTypeOK'
    BY <1>5 DEF CreateFails, CreateStream, BusTypeOK, busVars
  <2> QED BY <1>5, <2>1 DEF CreateFails, Return
<1>6. CASE RecvEvent
  <2>1. /\ Tail(buffer) \in Seq(Events) /\ Head(buffer) \in Events
        /\ Len(Tail(buffer)) <= Capacity
    BY <1>6, TailIs DEF RecvEvent
  <2> QED BY <1>6, <2>1 DEF RecvEvent, BusTypeOK, busVars
<1>7. CASE RecvClosed
  BY <1>7 DEF RecvClosed, BusTypeOK, busVars
<1>8. CASE Send
  <2>1. [ev |-> cur, try |-> tries] \in Attempt
    BY <1>8 DEF Send, Attempt
  <2>2. link' \in Seq(Attempt)
    BY <1>8, <2>1, AppendIs DEF Send
  <2> QED BY <1>8, <2>2 DEF Send, BusTypeOK, busVars
<1>9. CASE AckReceived
  BY <1>9 DEF AckReceived, Return, BusTypeOK, busVars
<1>10. CASE SendFails \/ TimedOut \/ ErrorReceived
  <2>1. PICK kind : AttemptFails(kind) /\ UNCHANGED link /\ pc \in {"send", "await"}
    BY <1>10 DEF SendFails, TimedOut, ErrorReceived
  <2>2. UNCHANGED busVars
    BY <2>1 DEF AttemptFails
  <2>3. BusTypeOK'
    BY <2>2 DEF BusTypeOK, busVars
  <2>4. CASE tries = MaxRetries /\ Return
    BY <2>1, <2>3, <2>4 DEF AttemptFails, GiveUp, Return
  <2>5. CASE tries < MaxRetries
    BY <2>1, <2>3, <2>5 DEF AttemptFails, GiveUp, Return, NextTry
  <2> QED BY <2>1, <2>4, <2>5 DEF AttemptFails
<1>11. CASE BackoffOver
  BY <1>11 DEF BackoffOver, BusTypeOK, busVars
<1>12. CASE Cancel
  <2>1. Range(buffer) \subseteq Events
    BY DEF Range
  <2> QED BY <1>12, <2>1 DEF Cancel, BusTypeOK, busVars
<1>13. CASE Deliver
  <2>1. Tail(link) \in Seq(Attempt) /\ Head(link) \in Attempt
    BY <1>13, TailIs DEF Deliver
  <2> QED BY <1>13, <2>1, ServeType DEF Deliver
<1>14. CASE DeliverStray
  BY <1>14, ServeType DEF DeliverStray
<1>15. CASE Disconnect
  <2>1. Tail(link) \in Seq(Attempt) /\ Head(link) \in Attempt
    BY <1>15, TailIs DEF Disconnect
  <2> QED BY <1>15, <2>1 DEF Disconnect, BusTypeOK, busVars
<1>16. CASE ServerRestart
  <2>1. BusTypeOK'
    BY <1>16 DEF ServerRestart, LoseStream, BusTypeOK
  <2>2. losses' \in 0..MaxLosses
    BY <1>16 DEF ServerRestart
  <2> QED BY <1>16, <2>1, <2>2 DEF ServerRestart
<1>17. CASE UNCHANGED vars
  BY <1>17 DEF vars, BusTypeOK, busVars
<1> QED
  BY <1>1, <1>2, <1>3, <1>4, <1>5, <1>6, <1>7, <1>8, <1>9, <1>10, <1>11, <1>12,
     <1>13, <1>14, <1>15, <1>16, <1>17 DEF Next, Publishing, Environment
LEMMA ControlStep == TypeOK /\ ControlOK /\ [Next]_vars => ControlOK'
<1> SUFFICES ASSUME TypeOK, ControlOK, [Next]_vars PROVE ControlOK'
  OBVIOUS
<1> USE DEF TypeOK, ControlOK, Running, Locations, layerVars, taskVars, netVars
<1>1. CASE OnEvent
  BY <1>1 DEF OnEvent, CanAccept
<1>2. CASE DropLayer
  BY <1>2 DEF DropLayer
<1>3. CASE Connect
  BY <1>3 DEF Connect
<1>4. CASE StreamReady
  BY <1>4 DEF StreamReady, Return
<1>5. CASE CreateFails
  BY <1>5 DEF CreateFails, Return
<1>6. CASE RecvEvent
  <2>1. Head(buffer) \in Events
    BY <1>6, TailIs DEF RecvEvent
  <2>2. Head(buffer) # NoEvent
    BY <2>1 DEF Events
  <2> QED BY <1>6, <2>2 DEF RecvEvent
<1>7. CASE RecvClosed
  BY <1>7 DEF RecvClosed
<1>8. CASE Send
  BY <1>8 DEF Send
<1>9. CASE AckReceived
  BY <1>9 DEF AckReceived, Return
<1>10. CASE SendFails \/ TimedOut \/ ErrorReceived
  BY <1>10 DEF SendFails, TimedOut, ErrorReceived, AttemptFails, GiveUp, Return
<1>11. CASE BackoffOver
  BY <1>11 DEF BackoffOver
<1>12. CASE Cancel
  BY <1>12 DEF Cancel
<1>13. CASE Deliver
  BY <1>13 DEF Deliver
<1>14. CASE DeliverStray
  BY <1>14 DEF DeliverStray
<1>15. CASE Disconnect
  BY <1>15 DEF Disconnect
<1>16. CASE ServerRestart
  BY <1>16 DEF ServerRestart
<1>17. CASE UNCHANGED vars
  BY <1>17 DEF vars
<1> QED
  BY <1>1, <1>2, <1>3, <1>4, <1>5, <1>6, <1>7, <1>8, <1>9, <1>10, <1>11, <1>12,
     <1>13, <1>14, <1>15, <1>16, <1>17 DEF Next, Publishing, Environment

(* The account and the order of the events depend on these variables only. *)
AccountOK == Accounted /\ TakenInOrder

LEMMA AccountUnchanged ==
  ASSUME AccountOK,
         UNCHANGED <<generated, buffer, dropped, cur, acked, failed, lost>>
  PROVE  AccountOK'
BY DEF AccountOK, Accounted, TakenInOrder, InHand

(* publish returns: the event in hand is settled one way. *)
LEMMA AccountReturn ==
  ASSUME TypeOK, AccountOK, cur' = NoEvent,
         UNCHANGED <<generated, buffer, dropped, lost>>,
         \/ acked' = acked \cup InHand /\ UNCHANGED failed
         \/ failed' = failed \cup InHand /\ UNCHANGED acked
  PROVE  AccountOK'
<1>1. InHand' = {}
  BY DEF InHand
<1>2. Accounted'
  BY <1>1 DEF AccountOK, Accounted
<1>3. TakenInOrder'
  BY <1>1 DEF AccountOK, TakenInOrder
<1> QED BY <1>2, <1>3 DEF AccountOK

LEMMA AccountOnEvent ==
  ASSUME TypeOK, AccountOK, OnEvent
  PROVE  AccountOK'
<1> USE DEF OnEvent, layerVars, taskVars, outcomes
<1>1. /\ generated + 1 \in Events
      /\ generated + 1 \notin 1..generated
      /\ 1..generated' = (1..generated) \cup {generated + 1}
      /\ \A e \in 1..generated : e < generated + 1
  BY DEF TypeOK, Events
<1>2. InHand' = InHand
  BY DEF InHand
<1>3. CASE CanAccept /\ buffer' = Append(buffer, generated + 1) /\ UNCHANGED dropped
  <2>1. /\ Range(buffer') = Range(buffer) \cup {generated + 1}
        /\ DOMAIN buffer' = 1..Len(buffer) + 1
        /\ DOMAIN buffer = 1..Len(buffer) /\ Len(buffer) \in Nat
        /\ \A i \in DOMAIN buffer : buffer'[i] = buffer[i]
        /\ buffer'[Len(buffer) + 1] = generated + 1
    BY <1>1, <1>3, AppendIs DEF TypeOK
  <2>2. Accounted'
    BY <1>1, <1>2, <1>3, <2>1 DEF AccountOK, Accounted
  <2>3. \A e \in acked \cup failed \cup InHand \cup Range(buffer) : e < generated + 1
    BY <1>1 DEF AccountOK, Accounted
  <2>4. \A i \in DOMAIN buffer : buffer[i] < generated + 1
    BY <2>3 DEF Range
  <2>5. \A i, j \in DOMAIN buffer' : i < j => buffer'[i] < buffer'[j]
    BY <2>1, <2>4 DEF AccountOK, TakenInOrder
  <2>6. TakenInOrder'
    BY <1>2, <2>1, <2>3, <2>5 DEF AccountOK, TakenInOrder
  <2> QED BY <2>2, <2>6 DEF AccountOK
<1>4. CASE dropped' = dropped \cup {generated + 1} /\ UNCHANGED buffer
  <2>1. Accounted'
    BY <1>1, <1>2, <1>4 DEF AccountOK, Accounted
  <2>2. TakenInOrder'
    BY <1>2, <1>4 DEF AccountOK, TakenInOrder
  <2> QED BY <2>1, <2>2 DEF AccountOK
<1> QED BY <1>3, <1>4

LEMMA AccountRecv ==
  ASSUME TypeOK, ControlOK, AccountOK, RecvEvent
  PROVE  AccountOK'
<1> USE DEF RecvEvent, layerVars, taskVars
<1> DEFINE h == Head(buffer)
<1>1. /\ h \in Events /\ h = buffer[1] /\ 1 \in DOMAIN buffer
      /\ buffer' = Tail(buffer)
      /\ Range(buffer) = Range(buffer') \cup {h}
      /\ DOMAIN buffer' = 1..Len(buffer) - 1
      /\ DOMAIN buffer = 1..Len(buffer) /\ Len(buffer) \in Nat
      /\ \A i \in DOMAIN buffer' : i + 1 \in DOMAIN buffer /\ buffer'[i] = buffer[i + 1]
  BY TailIs DEF TypeOK
<1>2. InHand = {}
  BY DEF ControlOK, InHand
<1>3. \A i \in DOMAIN buffer' : h < buffer'[i]
  BY <1>1 DEF AccountOK, TakenInOrder
<1>4. \A f \in Range(buffer') : h < f
  BY <1>3 DEF Range
<1>5. h \notin Range(buffer')
  BY <1>1, <1>4 DEF Events
<1>6. \A e \in acked \cup failed : e < h
  BY <1>1 DEF AccountOK, TakenInOrder
<1>7. \A i, j \in DOMAIN buffer' : i < j => buffer'[i] < buffer'[j]
  BY <1>1 DEF AccountOK, TakenInOrder
<1>8. \/ failed' = failed \cup {h} /\ InHand' = {}
      \/ failed' = failed /\ InHand' = {h}
  BY <1>1, <1>2 DEF InHand, Events
<1>9. Accounted'
  BY <1>1, <1>2, <1>5, <1>8 DEF AccountOK, Accounted
<1>10. TakenInOrder'
  BY <1>1, <1>2, <1>4, <1>6, <1>7, <1>8 DEF AccountOK, TakenInOrder
<1> QED BY <1>9, <1>10 DEF AccountOK

LEMMA AccountStep ==
  TypeOK /\ ControlOK /\ AccountOK /\ [Next]_vars => AccountOK'
<1> SUFFICES ASSUME TypeOK, ControlOK, AccountOK, [Next]_vars PROVE AccountOK'
  OBVIOUS
<1> USE DEF layerVars, taskVars, outcomes
<1>1. CASE OnEvent
  BY <1>1, AccountOnEvent
<1>2. CASE DropLayer \/ Connect \/ RecvClosed \/ Send \/ BackoffOver
  BY <1>2, AccountUnchanged
     DEF DropLayer, Connect, RecvClosed, Send, BackoffOver
<1>3. CASE StreamReady
  BY <1>3, AccountUnchanged DEF StreamReady, Return
<1>4. CASE CreateFails
  BY <1>4, AccountUnchanged, AccountReturn DEF CreateFails, Return, InHand
<1>5. CASE RecvEvent
  BY <1>5, AccountRecv
<1>6. CASE AckReceived
  BY <1>6, AccountReturn DEF AckReceived, Return, InHand, ControlOK
<1>7. CASE SendFails \/ TimedOut \/ ErrorReceived
  <2>1. PICK kind : AttemptFails(kind) /\ pc \in {"send", "await"}
    BY <1>7 DEF SendFails, TimedOut, ErrorReceived
  <2> QED BY <2>1, AccountUnchanged, AccountReturn
          DEF AttemptFails, GiveUp, Return, InHand, ControlOK
<1>8. CASE Cancel
  <2>1. Range(buffer') = {} /\ DOMAIN buffer' = {}
    BY <1>8 DEF Cancel, Range
  <2>2. InHand' = {} /\ lost' = lost \cup Range(buffer) \cup InHand
    BY <1>8 DEF Cancel, InHand
  <2>3. Accounted'
    BY <1>8, <2>1, <2>2 DEF Cancel, AccountOK, Accounted
  <2>4. TakenInOrder'
    BY <1>8, <2>1, <2>2 DEF Cancel, AccountOK, TakenInOrder
  <2> QED BY <2>3, <2>4 DEF AccountOK
<1>9. CASE Deliver \/ DeliverStray \/ Disconnect \/ ServerRestart
  BY <1>9, AccountUnchanged
     DEF Deliver, DeliverStray, Disconnect, ServerRestart
<1>10. CASE UNCHANGED vars
  BY <1>10, AccountUnchanged DEF vars
<1> QED
  BY <1>1, <1>2, <1>3, <1>4, <1>5, <1>6, <1>7, <1>8, <1>9, <1>10
     DEF Next, Publishing, Environment
-----------------------------------------------------------------------------
LEMMA AnswerServe ==
  ASSUME AnswerOK, NEW m, Serve(m), UNCHANGED taskVars
  PROVE  AnswerOK' /\ stored \subseteq stored'
BY DEF AnswerOK, Serve, Answer, taskVars

LEMMA AnswerStep ==
  TypeOK /\ ControlOK /\ AnswerOK /\ [Next]_vars => AnswerOK' /\ stored \subseteq stored'
<1> SUFFICES ASSUME TypeOK, ControlOK, AnswerOK, [Next]_vars
             PROVE  AnswerOK' /\ stored \subseteq stored'
  OBVIOUS
<1> USE DEF AnswerOK, layerVars, taskVars, netVars
<1>1. CASE OnEvent \/ DropLayer \/ Disconnect \/ ServerRestart
  BY <1>1 DEF OnEvent, DropLayer, Disconnect, ServerRestart
<1>2. CASE Connect \/ RecvEvent \/ RecvClosed \/ BackoffOver
  BY <1>2 DEF Connect, RecvEvent, RecvClosed, BackoffOver
<1>3. CASE StreamReady \/ CreateFails
  BY <1>3 DEF StreamReady, CreateFails, Return
<1>4. CASE Send \/ AckReceived \/ Cancel
  BY <1>4 DEF Send, AckReceived, Return, Cancel
<1>5. CASE SendFails \/ TimedOut \/ ErrorReceived
  BY <1>5 DEF SendFails, TimedOut, ErrorReceived, AttemptFails
<1>6. CASE Deliver \/ DeliverStray
  BY <1>6, AnswerServe DEF Deliver, DeliverStray
<1>7. CASE UNCHANGED vars
  BY <1>7 DEF vars
<1> QED
  BY <1>1, <1>2, <1>3, <1>4, <1>5, <1>6, <1>7
     DEF Next, Publishing, Environment

(* TypeOK, ControlOK, Accounted, TakenInOrder and AnswerOK hold in every    *)
(* reachable state: the channel and the retry counters keep their bounds,  *)
(* and every event that on_event was called with is in exactly one place,  *)
(* in the order in which events were emitted.                              *)
THEOREM PublisherInvariant == Spec => []PublisherInv
<1>1. Init => PublisherInv
  <2> SUFFICES ASSUME Init PROVE PublisherInv
    OBVIOUS
  <2>1. TypeOK
    <3>1. buffer \in Seq(Events) /\ Len(buffer) = 0 /\ link \in Seq(Attempt)
      BY DEF Init
    <3>2. BusTypeOK
      BY DEF Init, BusInit, BusTypeOK
    <3> QED BY <3>1, <3>2 DEF Init, TypeOK, Locations, Answers
  <2>2. ControlOK /\ AnswerOK
    BY DEF Init, ControlOK, AnswerOK, Running
  <2>3. Range(buffer) = {} /\ DOMAIN buffer = {} /\ InHand = {}
    BY DEF Init, Range, InHand
  <2>4. Accounted /\ TakenInOrder
    BY <2>3 DEF Init, Accounted, TakenInOrder
  <2> QED BY <2>1, <2>2, <2>4 DEF PublisherInv
<1>2. PublisherInv /\ [Next]_vars => PublisherInv'
  BY TypeStep, ControlStep, AccountStep, AnswerStep DEF PublisherInv, AccountOK
<1> QED BY <1>1, <1>2, PTL DEF Spec

(* publish returns Ok only for an event that the stream has stored: the    *)
(* answer the task consumes is about the attempt it awaits (AnswerOK).     *)
THEOREM OkMeansStored == Spec => []AckedWasStored
<1>1. Init => AckedWasStored
  BY DEF Init, AckedWasStored
<1>2. PublisherInv /\ AckedWasStored /\ [Next]_vars => AckedWasStored'
  <2> SUFFICES ASSUME PublisherInv, AckedWasStored, [Next]_vars
               PROVE  AckedWasStored'
    OBVIOUS
  <2>1. stored \subseteq stored'
    BY AnswerStep DEF PublisherInv
  <2>2. CASE AckReceived
    <3>1. [ev |-> cur, try |-> tries] \in stored
      BY <2>2 DEF AckReceived, PublisherInv, AnswerOK
    <3>2. cur \in {a.ev : a \in stored}
      BY <3>1
    <3> QED BY <2>1, <2>2, <3>2 DEF AckReceived, AckedWasStored
  <2>3. CASE UNCHANGED acked
    BY <2>1, <2>3 DEF AckedWasStored
  <2>4. AckReceived \/ UNCHANGED acked
    BY DEF Next, Publishing, Environment, vars, outcomes, OnEvent, DropLayer,
           Connect, StreamReady, CreateFails, RecvEvent, RecvClosed, Send,
           SendFails, TimedOut, ErrorReceived, AttemptFails, GiveUp, BackoffOver,
           Cancel, Deliver, DeliverStray, Disconnect, ServerRestart
  <2> QED BY <2>2, <2>3, <2>4
<1> QED BY <1>1, <1>2, PublisherInvariant, PTL DEF Spec
-----------------------------------------------------------------------------
LEMMA LinkEvents ==
  ASSUME TypeOK PROVE \A i \in DOMAIN link : link[i].ev \in Int
<1>1. \A i \in DOMAIN link : link[i] \in Attempt
  BY DEF TypeOK
<1> QED BY <1>1 DEF Attempt, Events

(* The stream's part of the order: it depends on these variables only, and *)
(* taking an event off the channel, sending it or losing a request keeps   *)
(* it.                                                                     *)
LEMMA OrderUnchanged ==
  ASSUME OrderInv, UNCHANGED <<strays, busVars, link>>,
         generated <= generated', generated' \in Int, TypeOK,
         Range(buffer') \subseteq Int,
         \A f \in Range(buffer') : f \in Range(buffer) \/ f > generated,
         \A f \in InHand' : f \in InHand \/ f \in Range(buffer)
  PROVE  OrderInv'
<1>1. BusConsistent' /\ StreamInOrder'
  BY DEF OrderInv, busVars, BusConsistent, StreamInOrder
<1>2. \A m \in msgs : m.ev \in Int
  BY DEF TypeOK, BusTypeOK, Message, Events
<1>3. \A i \in DOMAIN link : link[i].ev \in Int
  BY LinkEvents
<1>4. Range(buffer) \subseteq Int /\ InHand \subseteq Int /\ generated \in Int
  BY DEF TypeOK, Events, Range, InHand
<1>5. InHand' \subseteq Int
  BY <1>4
<1>7. LinkInOrder
  BY DEF OrderInv
<1>8. msgs' = msgs /\ link' = link
  BY DEF busVars
<1>9. LinkInOrder'
  <2> USE DEF LinkInOrder
  <2>1. /\ \A i, j \in DOMAIN link' : i < j => link'[i].ev <= link'[j].ev
        /\ \A m \in msgs', i \in DOMAIN link' : m.ev <= link'[i].ev
    BY <1>7, <1>8
  <2>2. /\ \A i \in DOMAIN link' : link'[i].ev <= generated'
        /\ \A m \in msgs' : m.ev <= generated'
    BY <1>2, <1>3, <1>4, <1>7, <1>8
  <2>3. \A i \in DOMAIN link', f \in Range(buffer') : link'[i].ev < f
    BY <1>3, <1>4, <1>7, <1>8
  <2>4. \A m \in msgs', f \in Range(buffer') : m.ev < f
    BY <1>2, <1>4, <1>7, <1>8
  <2>5. \A i \in DOMAIN link', f \in InHand' : link'[i].ev <= f
    BY <1>3, <1>4, <1>7, <1>8
  <2>6. ASSUME NEW m \in msgs', NEW f \in InHand' PROVE m.ev <= f
    <3>1. m \in msgs /\ m.ev \in Int
      BY <1>2, <1>8
    <3>2. CASE f \in InHand
      BY <3>1, <3>2, <1>7
    <3>3. CASE f \in Range(buffer)
      BY <3>1, <3>3, <1>4, <1>7
    <3> QED BY <3>2, <3>3
  <2> QED BY <2>1, <2>2, <2>3, <2>4, <2>5, <2>6
<1> QED BY <1>1, <1>9 DEF OrderInv

(* What Newest keeps was there. *)
LEMMA NewestSubset == ASSUME NEW S PROVE Newest(S) \subseteq S
BY DEF Newest

(* The oldest request is off the link, the stream is what it was. *)
LEMMA OrderTail ==
  ASSUME TypeOK, OrderInv, link # <<>>, link' = Tail(link),
         UNCHANGED <<strays, busVars, generated, buffer, cur>>
  PROVE  OrderInv'
<1>1. /\ \A i \in DOMAIN link' : i + 1 \in DOMAIN link /\ link'[i] = link[i + 1]
      /\ DOMAIN link' \subseteq Int
  BY TailIs DEF TypeOK
<1>2. BusConsistent' /\ StreamInOrder'
  BY DEF OrderInv, busVars, BusConsistent, StreamInOrder
<1>3. LinkInOrder'
  BY <1>1 DEF OrderInv, LinkInOrder, busVars, InHand
<1> QED BY <1>2, <1>3 DEF OrderInv

(* The server stores the oldest request.  Nothing in the stream is newer   *)
(* than it, and a message of the same event is replaced.                   *)
LEMMA OrderStore ==
  ASSUME TypeOK, OrderInv, link # <<>>, link' = Tail(link), up,
         Store(Head(link).ev), UNCHANGED <<strays, generated, buffer, cur>>
  PROVE  OrderInv'
<1> DEFINE e == Head(link).ev
           new == [seq |-> lastSeq + 1, ev |-> e]
<1>1. /\ \A i \in DOMAIN link' : i + 1 \in DOMAIN link /\ link'[i] = link[i + 1]
      /\ DOMAIN link' \subseteq Int /\ 1 \in DOMAIN link /\ Head(link) = link[1]
      /\ \A i \in DOMAIN link : link[i].ev \in Int /\ i \in Int /\ i >= 1
  BY TailIs, LinkEvents DEF TypeOK
<1>2. \A m \in msgs' : m = new \/ (m \in msgs /\ m.ev # e)
  BY NewestSubset DEF Store, Subject
<1>3. lastSeq \in Nat /\ lastSeq' = lastSeq + 1
  BY DEF TypeOK, BusTypeOK, Store
<1>4. \A m \in msgs : m.seq \in 1..lastSeq /\ m.ev \in Int
  BY DEF OrderInv, BusConsistent, TypeOK, BusTypeOK, Message, Events
<1>5. \A m \in msgs : m.ev <= e
  BY <1>1 DEF OrderInv, LinkInOrder
<1>6. new.seq = lastSeq + 1 /\ new.ev = e
  OBVIOUS
<1> HIDE DEF new
<1>7. BusConsistent'
  <2>1. \A m \in msgs' : m.seq \in 1..lastSeq'
    BY <1>2, <1>3, <1>4, <1>6
  <2>2. \A m, n \in msgs' : m.seq = n.seq => m = n
    BY <1>2, <1>3, <1>4, <1>6 DEF OrderInv, BusConsistent
  <2>3. up'
    BY DEF Store
  <2> QED BY <2>1, <2>2, <2>3 DEF BusConsistent
<1>8. StreamInOrder'
  BY <1>1, <1>2, <1>3, <1>4, <1>5, <1>6 DEF OrderInv, StreamInOrder
<1>9. \A i \in DOMAIN link' : e <= link'[i].ev
  BY <1>1 DEF OrderInv, LinkInOrder
<1>10. LinkInOrder'
  <2> USE <1>1 DEF OrderInv, LinkInOrder
  <2>1. /\ \A i, j \in DOMAIN link' : i < j => link'[i].ev <= link'[j].ev
        /\ \A i \in DOMAIN link' : link'[i].ev <= generated'
        /\ \A i \in DOMAIN link', f \in Range(buffer)' : link'[i].ev < f
        /\ \A i \in DOMAIN link', f \in InHand' : link'[i].ev <= f
    BY DEF InHand
  <2>2. \A m \in msgs', i \in DOMAIN link' : m.ev <= link'[i].ev
    BY <1>2, <1>6, <1>9
  <2>3. /\ \A m \in msgs' : m.ev <= generated'
        /\ \A m \in msgs', f \in Range(buffer)' : m.ev < f
        /\ \A m \in msgs', f \in InHand' : m.ev <= f
    BY <1>2, <1>6 DEF InHand
  <2> QED BY <2>1, <2>2, <2>3
<1> QED BY <1>7, <1>8, <1>10 DEF OrderInv

(* A new request is about the event in hand, than which none is newer. *)
LEMMA OrderSend ==
  ASSUME TypeOK, ControlOK, TakenInOrder, Accounted, OrderInv, Send
  PROVE  OrderInv'
<1> USE DEF Send, layerVars
<1> DEFINE new == [ev |-> cur, try |-> tries]
<1>1. /\ cur \in Events /\ cur \in InHand /\ InHand' = InHand /\ cur \in Int
      /\ generated \in Int
  BY DEF TypeOK, ControlOK, InHand, Events
<1>2. new \in Attempt
  BY <1>1 DEF TypeOK, Attempt
<1>3. /\ DOMAIN link' = 1..Len(link) + 1
      /\ DOMAIN link = 1..Len(link) /\ Len(link) \in Nat
      /\ \A i \in DOMAIN link : link'[i] = link[i]
      /\ link'[Len(link) + 1] = new
  BY <1>2, AppendIs DEF TypeOK
<1>4. new.ev = cur
  OBVIOUS
<1>5. \A i \in DOMAIN link' : link'[i] = new \/ (i \in DOMAIN link /\ link'[i] = link[i])
  BY <1>3
<1> HIDE DEF new
<1>6. BusConsistent' /\ StreamInOrder'
  BY DEF OrderInv, busVars, BusConsistent, StreamInOrder
<1>7. cur <= generated
  BY <1>1 DEF Accounted
<1>8. \A f \in Range(buffer) : cur < f
  BY <1>1 DEF TakenInOrder
<1>9. LinkInOrder'
  <2> USE DEF OrderInv, LinkInOrder, busVars
  <2>1. \A i \in DOMAIN link : link[i].ev <= cur
    BY <1>1
  <2>2. \A i, j \in DOMAIN link' : i < j => link'[i].ev <= link'[j].ev
    BY <1>3, <1>4, <1>1, <2>1
  <2>3. \A m \in msgs', i \in DOMAIN link' : m.ev <= link'[i].ev
    BY <1>1, <1>4, <1>5
  <2>4. /\ \A i \in DOMAIN link' : link'[i].ev <= generated'
        /\ \A m \in msgs' : m.ev <= generated'
    BY <1>4, <1>5, <1>7
  <2>5. /\ \A i \in DOMAIN link', f \in Range(buffer)' : link'[i].ev < f
        /\ \A m \in msgs', f \in Range(buffer)' : m.ev < f
    BY <1>4, <1>5, <1>8
  <2>6. /\ \A i \in DOMAIN link', f \in InHand' : link'[i].ev <= f
        /\ \A m \in msgs', f \in InHand' : m.ev <= f
    BY <1>1, <1>4, <1>5 DEF InHand
  <2> QED BY <2>2, <2>3, <2>4, <2>5, <2>6
<1> QED BY <1>6, <1>9 DEF OrderInv

LEMMA OrderRestart ==
  ASSUME OrderInv, ServerRestart PROVE OrderInv'
<1>1. msgs' = {} /\ UNCHANGED <<link, strays, generated, buffer, cur>> /\ lastSeq' = 0
  BY DEF ServerRestart, LoseStream, layerVars, taskVars, netVars
<1>2. BusConsistent' /\ StreamInOrder'
  BY <1>1 DEF BusConsistent, StreamInOrder
<1>3. LinkInOrder'
  BY <1>1 DEF OrderInv, LinkInOrder, InHand
<1> QED BY <1>1, <1>2, <1>3 DEF OrderInv
LEMMA OrderStep ==
  PublisherInv /\ OrderInv /\ ~Straggling /\ [Next]_vars => OrderInv'
<1> SUFFICES ASSUME PublisherInv, OrderInv, ~Straggling, [Next]_vars
             PROVE  OrderInv'
  OBVIOUS
<1>0. TypeOK /\ ControlOK /\ TakenInOrder /\ Accounted /\ strays = {}
  BY DEF PublisherInv, OrderInv
<1> USE DEF layerVars, taskVars, outcomes, netVars
<1>1. /\ generated \in Int /\ Range(buffer) \subseteq Int
      /\ (cur # NoEvent => cur \in InHand)
  BY <1>0 DEF TypeOK, Events, Range, InHand
<1> DEFINE Quiet == UNCHANGED <<strays, busVars, link, generated, buffer>>
<1>2. ASSUME Quiet, InHand' \subseteq InHand PROVE OrderInv'
  BY <1>0, <1>1, <1>2, OrderUnchanged
<1>3. CASE OnEvent
  <2>1. generated' = generated + 1 /\ InHand' = InHand
    BY <1>3 DEF OnEvent, InHand
  <2>2. CASE buffer' = Append(buffer, generated + 1)
    <3>1. generated + 1 \in Events
      BY <1>0, <1>1, <1>3 DEF OnEvent, Events, TypeOK
    <3>2. Range(buffer') = Range(buffer) \cup {generated + 1}
      BY <1>0, <2>2, <3>1, AppendIs DEF TypeOK
    <3> QED BY <1>0, <1>1, <1>3, <2>1, <3>2, OrderUnchanged DEF OnEvent
  <2>3. CASE UNCHANGED buffer
    BY <1>0, <1>1, <1>3, <2>1, <2>3, OrderUnchanged DEF OnEvent
  <2> QED BY <1>3, <2>2, <2>3 DEF OnEvent
<1>4. CASE DropLayer \/ Connect \/ RecvClosed \/ BackoffOver
  BY <1>2, <1>4 DEF DropLayer, Connect, RecvClosed, BackoffOver, InHand
<1>5. CASE StreamReady \/ CreateFails
  <2>1. CASE UNCHANGED busVars
    BY <1>2, <1>5, <2>1 DEF StreamReady, CreateFails, Return, InHand
  <2>2. CASE CreateStream
    <3>1. UNCHANGED <<msgs, lastSeq, strays, link, generated, buffer>> /\ up'
      BY <1>5, <2>2 DEF StreamReady, CreateFails, CreateStream
    <3>2. InHand' \subseteq InHand
      BY <1>5 DEF StreamReady, CreateFails, Return, InHand
    <3>3. BusConsistent' /\ StreamInOrder'
      BY <3>1 DEF OrderInv, BusConsistent, StreamInOrder
    <3>4. LinkInOrder'
      BY <3>1, <3>2 DEF OrderInv, LinkInOrder
    <3> QED BY <3>1, <3>3, <3>4 DEF OrderInv
  <2> QED BY <1>5, <2>1, <2>2 DEF StreamReady, CreateFails
<1>6. CASE RecvEvent
  <2>1. /\ Range(buffer) = Range(buffer') \cup {Head(buffer)}
        /\ buffer' = Tail(buffer)
    BY <1>0, <1>6, TailIs DEF RecvEvent, TypeOK
  <2>2. InHand' \subseteq InHand \cup {Head(buffer)}
    BY <1>6 DEF RecvEvent, InHand
  <2> QED BY <1>0, <1>1, <1>6, <2>1, <2>2, OrderUnchanged DEF RecvEvent
<1>7. CASE Send
  BY <1>0, <1>7, OrderSend
<1>8. CASE AckReceived
  BY <1>2, <1>8 DEF AckReceived, Return, InHand
<1>9. CASE SendFails \/ TimedOut \/ ErrorReceived
  <2>1. PICK kind : AttemptFails(kind) /\ UNCHANGED link
    BY <1>9 DEF SendFails, TimedOut, ErrorReceived
  <2> QED BY <1>2, <2>1 DEF AttemptFails, GiveUp, Return, InHand
<1>10. CASE Cancel
  <2>1. Range(buffer') = {} /\ InHand' = {}
    BY <1>10 DEF Cancel, Range, InHand
  <2> QED BY <1>0, <1>1, <1>10, <2>1, OrderUnchanged DEF Cancel
<1>11. CASE Deliver
  <2>1. CASE up /\ Store(Head(link).ev)
    BY <1>0, <1>11, <2>1, OrderStore DEF Deliver
  <2>2. CASE UNCHANGED busVars
    BY <1>0, <1>11, <2>2, OrderTail DEF Deliver
  <2> QED BY <1>11, <2>1, <2>2 DEF Deliver, Serve
<1>12. CASE DeliverStray
  BY <1>0, <1>12 DEF DeliverStray
<1>13. CASE Disconnect
  BY <1>0, <1>13, OrderTail DEF Disconnect
<1>14. CASE ServerRestart
  BY <1>14, OrderRestart
<1>15. CASE UNCHANGED vars
  BY <1>2, <1>15 DEF vars, InHand
<1> QED
  BY <1>3, <1>4, <1>5, <1>6, <1>7, <1>8, <1>9, <1>10, <1>11, <1>12, <1>13,
     <1>14, <1>15 DEF Next, Publishing, Environment

(* When requests cannot overtake each other, the stream holds events in    *)
(* the order in which on_event saw them, one message for each, whatever    *)
(* was lost, late or sent again.                                           *)
THEOREM StreamOrder == ~Straggling /\ Spec => [](OrderInv /\ StreamInOrder)
<1>1. Init => OrderInv
  BY DEF Init, BusInit, OrderInv, BusConsistent, LinkInOrder, StreamInOrder
<1>2. PublisherInv /\ OrderInv /\ ~Straggling /\ [Next]_vars => OrderInv'
  BY OrderStep
<1>3. OrderInv => StreamInOrder
  BY DEF OrderInv
<1>4. CASE ~Straggling
  <2>1. PublisherInv /\ OrderInv /\ [Next]_vars => OrderInv'
    BY <1>2, <1>4
  <2>2. Spec => [](OrderInv /\ StreamInOrder)
    BY <1>1, <1>3, <2>1, PublisherInvariant, PTL DEF Spec
  <2> QED BY <2>2
<1> QED BY <1>4
-----------------------------------------------------------------------------
(* What the stream has ever stored, also before a restart of the server.   *)

(* No request on its way, nor anything that is still to be sent, is older  *)
(* than what was stored.                                                   *)
StoredInOrder ==
  /\ \A a \in stored, i \in DOMAIN link : a.ev <= link[i].ev
  /\ \A a \in stored, f \in Range(buffer) : a.ev < f
  /\ \A a \in stored, f \in InHand : a.ev <= f

(* What is sent was taken off the channel and has an identity.             *)
Taken(e) == e \notin Unpublishable /\ e \in InHand \cup acked \cup failed \cup lost

OriginOK ==
  /\ \A e \in InHand : Taken(e)
  /\ \A i \in DOMAIN link : Taken(link[i].ev)
  /\ \A a \in stored : Taken(a.ev)
  /\ \A m \in msgs : m.ev \in {a.ev : a \in stored}

StoredInv == StoredInOrder /\ OriginOK

(* Nothing new was stored or sent, and no event is taken by anybody else.  *)
LEMMA StoredUnchanged ==
  ASSUME TypeOK, StoredInv, UNCHANGED <<stored, link>>, msgs' \subseteq msgs,
         \A f \in Range(buffer') : f \in Range(buffer) \/ f > generated,
         Range(buffer') \subseteq Int, \A a \in stored : a.ev <= generated,
         \A f \in InHand' : f \in InHand \/ (f \in Range(buffer) /\ f \notin Unpublishable),
         InHand \cup acked \cup failed \cup lost
           \subseteq (InHand \cup acked \cup failed \cup lost)'
  PROVE  StoredInv'
<1>1. /\ \A a \in stored : a.ev \in Int
      /\ \A i \in DOMAIN link : link[i].ev \in Int
      /\ generated \in Int /\ InHand \subseteq Int /\ Range(buffer) \subseteq Int
  <2>1. \A a \in stored : a.ev \in Int
    BY DEF TypeOK, Attempt, Events
  <2>2. \A i \in DOMAIN link : link[i].ev \in Int
    BY LinkEvents DEF TypeOK, Events
  <2>3. generated \in Int /\ InHand \subseteq Int
    BY DEF TypeOK, Events, InHand
  <2>4. Range(buffer) \subseteq Int
    BY DEF TypeOK, Events, Range
  <2> QED BY <2>1, <2>2, <2>3, <2>4
<1>2. \A e : Taken(e) => Taken(e)'
  BY DEF Taken
<1>3. OriginOK'
  <2>1. \A e \in InHand' : Taken(e)'
    BY DEF Taken, StoredInv, OriginOK
  <2> QED BY <1>2, <2>1 DEF StoredInv, OriginOK
<1>4. \A a \in stored, f \in Range(buffer') : a.ev < f
  <2> SUFFICES ASSUME NEW a \in stored, NEW f \in Range(buffer') PROVE a.ev < f
    OBVIOUS
  <2>1. a.ev \in Int /\ a.ev <= generated /\ f \in Int
    BY <1>1
  <2>2. CASE f \in Range(buffer)
    BY <2>2 DEF StoredInv, StoredInOrder
  <2>3. CASE f > generated
    BY <1>1, <2>1, <2>3
  <2> QED BY <2>2, <2>3
<1>5. \A a \in stored, f \in InHand' : a.ev <= f
  <2> SUFFICES ASSUME NEW a \in stored, NEW f \in InHand' PROVE a.ev <= f
    OBVIOUS
  <2>1. CASE f \in InHand
    BY <2>1 DEF StoredInv, StoredInOrder
  <2>2. CASE f \in Range(buffer)
    BY <1>1, <2>2 DEF StoredInv, StoredInOrder
  <2> QED BY <2>1, <2>2
<1>6. StoredInOrder'
  BY <1>4, <1>5 DEF StoredInv, StoredInOrder
<1> QED BY <1>3, <1>6 DEF StoredInv

(* The oldest request is off the link, and the stream may have stored it.  *)
LEMMA StoredDeliver ==
  ASSUME TypeOK, OrderInv, StoredInv, link # <<>>, link' = Tail(link),
         UNCHANGED <<generated, buffer, cur, acked, failed, lost>>,
         \/ UNCHANGED <<msgs, stored>>
         \/ Store(Head(link).ev) /\ stored' = stored \cup {Head(link)}
  PROVE  StoredInv'
<1> DEFINE h == Head(link)
<1>1. /\ \A i \in DOMAIN link' : i + 1 \in DOMAIN link /\ link'[i] = link[i + 1]
      /\ DOMAIN link' \subseteq Int /\ 1 \in DOMAIN link /\ h = link[1]
      /\ \A i \in DOMAIN link : link[i].ev \in Int /\ i \in Int /\ i >= 1
  BY TailIs, LinkEvents DEF TypeOK
<1>2. stored' \subseteq stored \cup {h} /\ InHand' = InHand
  BY DEF InHand
<1>3. \A m \in msgs' : m.ev \in {a.ev : a \in stored'}
  <2>1. CASE UNCHANGED <<msgs, stored>>
    BY <2>1 DEF StoredInv, OriginOK
  <2>2. CASE Store(h.ev) /\ stored' = stored \cup {h}
    <3>1. \A m \in msgs' : m.ev = h.ev \/ m \in msgs
      BY <2>2, NewestSubset DEF Store
    <3> HIDE DEF h
    <3>2. {a.ev : a \in stored'} = {a.ev : a \in stored} \cup {h.ev}
      BY <2>2
    <3> QED BY <3>1, <3>2 DEF StoredInv, OriginOK
  <2> QED BY <2>1, <2>2
<1>4. \A e : Taken(e) => Taken(e)'
  BY <1>2 DEF Taken
<1>5. Taken(h.ev)
  BY <1>1 DEF StoredInv, OriginOK
<1>6. OriginOK'
  <2>1. \A i \in DOMAIN link' : Taken(link[i].ev)'
    BY <1>1, <1>4 DEF StoredInv, OriginOK
  <2>2. \A a \in stored' : Taken(a.ev)'
    BY <1>2, <1>4, <1>5 DEF StoredInv, OriginOK
  <2>3. \A e \in InHand' : Taken(e)'
    BY <1>2, <1>4 DEF StoredInv, OriginOK
  <2> QED BY <1>3, <2>1, <2>2, <2>3 DEF OriginOK
<1>7. /\ \A i \in DOMAIN link' : h.ev <= link'[i].ev
      /\ \A f \in Range(buffer) : h.ev < f
      /\ \A f \in InHand : h.ev <= f
  BY <1>1 DEF OrderInv, LinkInOrder
<1>8. StoredInOrder'
  <2>1. \A a \in stored', i \in DOMAIN link' : a.ev <= link'[i].ev
    BY <1>1, <1>2, <1>7 DEF StoredInv, StoredInOrder
  <2>2. \A a \in stored', f \in Range(buffer)' : a.ev < f
    BY <1>2, <1>7 DEF StoredInv, StoredInOrder
  <2>3. \A a \in stored', f \in InHand' : a.ev <= f
    BY <1>2, <1>7 DEF StoredInv, StoredInOrder
  <2> QED BY <2>1, <2>2, <2>3 DEF StoredInOrder
<1> QED BY <1>6, <1>8 DEF StoredInv

LEMMA StoredSend ==
  ASSUME TypeOK, ControlOK, StoredInv, Send
  PROVE  StoredInv'
<1> USE DEF Send, layerVars, outcomes, busVars
<1> DEFINE new == [ev |-> cur, try |-> tries]
<1>1. cur \in InHand /\ InHand' = InHand /\ new \in Attempt
  BY DEF TypeOK, ControlOK, InHand, Attempt
<1>2. \A i \in DOMAIN link' : link'[i] = new \/ (i \in DOMAIN link /\ link'[i] = link[i])
  BY <1>1, AppendIs DEF TypeOK
<1>3. new.ev = cur
  OBVIOUS
<1> HIDE DEF new
<1>4. \A e : Taken(e) => Taken(e)'
  BY <1>1 DEF Taken
<1>5. OriginOK'
  <2>1. \A i \in DOMAIN link' : Taken(link[i].ev)'
    BY <1>1, <1>2, <1>3, <1>4 DEF StoredInv, OriginOK
  <2> QED BY <1>1, <1>4, <2>1 DEF StoredInv, OriginOK
<1>6. StoredInOrder'
  BY <1>1, <1>2, <1>3 DEF StoredInv, StoredInOrder
<1> QED BY <1>5, <1>6 DEF StoredInv

LEMMA StoredStep ==
  PublisherInv /\ OrderInv /\ StoredInv /\ ~Straggling /\ [Next]_vars => StoredInv'
<1> SUFFICES ASSUME PublisherInv, OrderInv, StoredInv, ~Straggling, [Next]_vars
             PROVE  StoredInv'
  OBVIOUS
<1>0. TypeOK /\ ControlOK /\ TakenInOrder /\ Accounted /\ strays = {}
  BY DEF PublisherInv, OrderInv
<1> USE DEF layerVars, taskVars, outcomes, netVars
<1>1. /\ generated \in Int /\ Range(buffer) \subseteq Int
      /\ (cur # NoEvent => InHand = {cur}) /\ (cur = NoEvent => InHand = {})
  BY <1>0 DEF TypeOK, Events, Range, InHand
<1>2. \A a \in stored : a.ev <= generated
  <2> SUFFICES ASSUME NEW a \in stored PROVE a.ev <= generated
    OBVIOUS
  <2>1. a.ev \in InHand \cup acked \cup failed \cup lost
    BY DEF StoredInv, OriginOK, Taken
  <2>2. a.ev \in 1..generated
    BY <1>0, <2>1 DEF Accounted
  <2> QED BY <1>1, <2>2
<1>3. ASSUME UNCHANGED <<stored, link, buffer, msgs>>, InHand' \subseteq InHand,
             InHand \cup acked \cup failed \cup lost
               \subseteq (InHand \cup acked \cup failed \cup lost)'
      PROVE  StoredInv'
  BY <1>0, <1>1, <1>2, <1>3, StoredUnchanged
<1>4. CASE OnEvent
  <2>1. /\ UNCHANGED <<stored, link, msgs, cur, acked, failed, lost>>
        /\ generated + 1 \in Events /\ InHand' = InHand
    BY <1>0, <1>1, <1>4 DEF OnEvent, Events, TypeOK, busVars, InHand
  <2>2. CASE buffer' = Append(buffer, generated + 1)
    <3>1. Range(buffer') = Range(buffer) \cup {generated + 1}
      BY <1>0, <2>1, <2>2, AppendIs DEF TypeOK
    <3> QED BY <1>0, <1>1, <1>2, <2>1, <3>1, StoredUnchanged
  <2>3. CASE UNCHANGED buffer
    BY <1>3, <2>1, <2>3
  <2> QED BY <1>4, <2>2, <2>3 DEF OnEvent
<1>5. CASE DropLayer \/ Connect \/ RecvClosed \/ BackoffOver
  BY <1>3, <1>5 DEF DropLayer, Connect, RecvClosed, BackoffOver, InHand, busVars
<1>6. CASE StreamReady
  BY <1>1, <1>3, <1>6 DEF StreamReady, CreateStream, Return, InHand
<1>7. CASE CreateFails
  <2>1. UNCHANGED <<stored, link, buffer, msgs>>
    BY <1>7 DEF CreateFails, CreateStream, busVars
  <2>2. \/ InHand' = InHand /\ UNCHANGED <<acked, failed, lost>>
        \/ InHand' = {} /\ failed' = failed \cup InHand /\ UNCHANGED <<acked, lost>>
    BY <1>7 DEF CreateFails, Return, InHand
  <2> QED BY <1>3, <2>1, <2>2
<1>8. CASE RecvEvent
  <2>1. /\ Range(buffer) = Range(buffer') \cup {Head(buffer)}
        /\ buffer' = Tail(buffer) /\ cur = NoEvent
    BY <1>0, <1>8, TailIs DEF RecvEvent, TypeOK, ControlOK
  <2>2. /\ \A f \in InHand' : f \in InHand \/ (f \in Range(buffer) /\ f \notin Unpublishable)
        /\ InHand = {} /\ failed \subseteq failed' /\ UNCHANGED <<acked, lost>>
    BY <1>1, <1>8, <2>1 DEF RecvEvent, InHand
  <2>3. Range(buffer') \subseteq Range(buffer)
    BY <2>1
  <2> QED BY <1>0, <1>1, <1>2, <1>8, <2>2, <2>3, StoredUnchanged DEF RecvEvent, busVars
<1>9. CASE Send
  BY <1>0, <1>9, StoredSend
<1>10. CASE AckReceived
  <2>1. InHand' = {} /\ acked' = acked \cup InHand /\ UNCHANGED <<failed, lost>>
    BY <1>0, <1>1, <1>10 DEF AckReceived, Return, InHand, ControlOK
  <2> QED BY <1>3, <1>10, <2>1 DEF AckReceived, busVars
<1>11. CASE SendFails \/ TimedOut \/ ErrorReceived
  <2>1. PICK kind : AttemptFails(kind) /\ UNCHANGED link /\ pc \in {"send", "await"}
    BY <1>11 DEF SendFails, TimedOut, ErrorReceived
  <2>2. InHand = {cur}
    BY <1>0, <1>1, <2>1 DEF ControlOK
  <2>3. \/ InHand' = {} /\ failed' = failed \cup InHand /\ UNCHANGED <<acked, lost>>
        \/ InHand' = InHand /\ UNCHANGED <<acked, failed, lost>>
    BY <2>1, <2>2 DEF AttemptFails, GiveUp, Return, InHand
  <2>4. UNCHANGED <<stored, link, buffer, msgs>>
    BY <2>1 DEF AttemptFails, GiveUp, busVars
  <2> QED BY <1>3, <2>3, <2>4
<1>12. CASE Cancel
  <2>1. Range(buffer') = {} /\ InHand' = {}
    BY <1>12 DEF Cancel, Range, InHand
  <2>2. lost' = lost \cup Range(buffer) \cup InHand /\ UNCHANGED <<acked, failed>>
    BY <1>12 DEF Cancel, InHand
  <2>3. UNCHANGED <<stored, link, msgs>>
    BY <1>12 DEF Cancel, busVars
  <2> QED BY <1>0, <1>2, <2>1, <2>2, <2>3, StoredUnchanged
<1>13. CASE Deliver
  BY <1>0, <1>13, StoredDeliver DEF Deliver, Serve, busVars
<1>14. CASE DeliverStray
  BY <1>0, <1>14 DEF DeliverStray
<1>15. CASE Disconnect
  BY <1>0, <1>15, StoredDeliver DEF Disconnect, busVars
<1>16. CASE ServerRestart
  <2>1. /\ msgs' = {} /\ InHand' = InHand
        /\ UNCHANGED <<stored, link, buffer, acked, failed, lost>>
    BY <1>16 DEF ServerRestart, LoseStream, InHand
  <2> QED BY <1>0, <1>1, <1>2, <2>1, StoredUnchanged
<1>17. CASE UNCHANGED vars
  BY <1>3, <1>17 DEF vars, InHand, busVars
<1> QED
  BY <1>4, <1>5, <1>6, <1>7, <1>8, <1>9, <1>10, <1>11, <1>12, <1>13, <1>14, <1>15, <1>16, <1>17
  DEF Next, Publishing, Environment

(* The same over a restart of the server: what was stored before is no     *)
(* newer than what is stored after it, and all of it was taken off the     *)
(* channel and has an identity.                                            *)
THEOREM StoredOrder == ~Straggling /\ Spec => []StoredInv
<1>1. Init => StoredInv
  <2> SUFFICES ASSUME Init PROVE StoredInv
    OBVIOUS
  <2>1. DOMAIN link = {} /\ InHand = {} /\ Range(buffer) = {} /\ stored = {} /\ msgs = {}
    BY DEF Init, BusInit, InHand, Range
  <2> QED BY <2>1 DEF StoredInv, StoredInOrder, OriginOK
<1>2. PublisherInv /\ OrderInv /\ StoredInv /\ ~Straggling /\ [Next]_vars => StoredInv'
  BY StoredStep
<1>3. CASE ~Straggling
  <2>1. PublisherInv /\ OrderInv /\ StoredInv /\ [Next]_vars => StoredInv'
    BY <1>2, <1>3
  <2>2. Spec => [](OrderInv /\ StreamInOrder)
    BY <1>3, StreamOrder
  <2> QED BY <1>1, <2>1, <2>2, PublisherInvariant, PTL DEF Spec
<1> QED BY <1>3

(* What the stream has stored it still holds, or it has stored StreamLimit *)
(* later events since.                                                     *)
StoredEvents == {a.ev : a \in stored}
Later(e) == {f \in StoredEvents : f > e}

SurvivesInv ==
  losses = 0 =>
    \A e \in StoredEvents \ {m.ev : m \in msgs} : Cardinality(Later(e)) >= StreamLimit

LEMMA LaterFinite ==
  ASSUME TypeOK
  PROVE  /\ StoredEvents \subseteq Events
         /\ \A e : IsFiniteSet(Later(e)) /\ Cardinality(Later(e)) \in Nat
<1>1. StoredEvents \subseteq Events
  BY DEF TypeOK, Attempt, StoredEvents
<1>2. IsFiniteSet(Events)
  BY FS_Interval DEF Events
<1>3. \A e : IsFiniteSet(Later(e))
  BY <1>1, <1>2, FS_Subset DEF Later
<1> QED BY <1>1, <1>3, FS_CardinalityType

(* A message that makes room for that of event e was followed by           *)
(* StreamLimit later ones, each of another event.                          *)
LEMMA MadeRoom ==
  ASSUME TypeOK, TypeOK', OrderInv, StoredInv, StoredInv', NEW e \in Events, Store(e),
         \A m \in msgs : m.ev <= e, e \in StoredEvents',
         StoredEvents \subseteq StoredEvents',
         NEW m \in msgs, m.ev \notin {n.ev : n \in msgs'}
  PROVE  Cardinality(Later(m.ev)') >= StreamLimit
<1> DEFINE new == [seq |-> lastSeq + 1, ev |-> e]
           S == {n \in msgs : Subject(n.ev) # Subject(e)} \cup {new}
           K == {n \in S : n.seq > m.seq}
<1>1. msgs' = Newest(S) /\ lastSeq \in Nat
  BY DEF Store, TypeOK, BusTypeOK
<1>2. new.seq = lastSeq + 1 /\ new.ev = e
  OBVIOUS
<1>3. S = {n \in msgs : n.ev # e} \cup {new}
  BY DEF Subject
<1>4. \A n \in msgs : n.seq \in Int /\ n.seq <= lastSeq /\ n.ev \in Int
  BY DEF TypeOK, BusTypeOK, Message, Events, OrderInv, BusConsistent
<1>5. e \in Int
  BY DEF Events
<1> HIDE DEF new, S
<1>6. new \in msgs'
  <2>1. {n \in S : n.seq > new.seq} = {}
    BY <1>1, <1>2, <1>3, <1>4
  <2>2. Cardinality({n \in S : n.seq > new.seq}) < StreamLimit
    <3>1. Cardinality({}) < StreamLimit
      BY FS_EmptySet
    <3> QED BY <2>1, <3>1
  <2> QED BY <1>1, <1>3, <2>2 DEF Newest
<1>7. m.ev # e /\ m \in S /\ m \notin msgs'
  BY <1>2, <1>3, <1>6
<1>8. ~(Cardinality(K) < StreamLimit)
  BY <1>1, <1>7 DEF Newest
<1>9. PICK f : f = [n \in K |-> n.ev]
  OBVIOUS
<1>10. \A n \in K : n.ev \in Later(m.ev)'
  <2> SUFFICES ASSUME NEW n \in K PROVE n.ev \in Later(m.ev)'
    OBVIOUS
  <2>1. CASE n = new
    BY <1>2, <1>4, <1>5, <1>7, <2>1 DEF Later
  <2>2. CASE n \in msgs
    <3>1. n.ev > m.ev
      BY <1>4, <2>2 DEF OrderInv, StreamInOrder
    <3>2. n.ev \in StoredEvents
      BY <2>2 DEF StoredInv, OriginOK, StoredEvents
    <3> QED BY <3>1, <3>2 DEF Later
  <2> QED BY <1>3, <2>1, <2>2
<1>11. \A n, p \in K : n.ev = p.ev => n = p
  <2> SUFFICES ASSUME NEW n \in K, NEW p \in K, n.ev = p.ev PROVE n = p
    OBVIOUS
  <2>1. CASE n = new \/ p = new
    BY <1>2, <1>3, <2>1
  <2>2. CASE n \in msgs /\ p \in msgs
    BY <1>4, <2>2 DEF OrderInv, StreamInOrder, BusConsistent
  <2> QED BY <1>3, <2>1, <2>2
<1>12. f \in Injection(K, Later(m.ev)')
  <2>1. f \in [K -> Later(m.ev)']
    BY <1>9, <1>10
  <2>2. IsInjective(f)
    BY <1>9, <1>11 DEF IsInjective
  <2> QED BY <2>1, <2>2 DEF Injection
<1>13. IsFiniteSet(Later(m.ev)') /\ Cardinality(Later(m.ev)') \in Nat
  <2>1. StoredEvents' \subseteq Events
    BY DEF TypeOK, Attempt, StoredEvents
  <2>2. IsFiniteSet(Later(m.ev)')
    <3>1. IsFiniteSet(Events)
      BY FS_Interval DEF Events
    <3>2. Later(m.ev)' \subseteq Events
      BY <2>1 DEF Later
    <3> QED BY <3>1, <3>2, FS_Subset
  <2> QED BY <2>2, FS_CardinalityType
<1>14. IsFiniteSet(K) /\ Cardinality(K) <= Cardinality(Later(m.ev)')
  BY <1>12, <1>13, FS_Injection
<1>15. Cardinality(K) \in Nat
  BY <1>14, FS_CardinalityType
<1> HIDE DEF K
<1> QED BY <1>8, <1>13, <1>14, <1>15

LEMMA SurvivesServe ==
  ASSUME TypeOK, TypeOK', OrderInv, StoredInv, StoredInv', SurvivesInv, link # <<>>,
         Store(Head(link).ev), stored' = stored \cup {Head(link)}, losses' = losses
  PROVE  SurvivesInv'
<1> SUFFICES ASSUME losses = 0, NEW e \in StoredEvents', e \notin {m.ev : m \in msgs'}
             PROVE  Cardinality(Later(e)') >= StreamLimit
  BY DEF SurvivesInv
<1> DEFINE h == Head(link).ev
<1>1. 1 \in DOMAIN link /\ Head(link) = link[1] /\ h \in Events
  BY TailIs DEF TypeOK, Attempt
<1>2. \A m \in msgs : m.ev <= h
  BY <1>1 DEF OrderInv, LinkInOrder
<1>3. StoredEvents' = StoredEvents \cup {h}
  BY DEF StoredEvents
<1> HIDE DEF h
<1>4. CASE e \in {m.ev : m \in msgs}
  <2>1. PICK m \in msgs : m.ev = e
    BY <1>4
  <2>2. Store(h)
    BY DEF h
  <2> QED BY <1>1, <1>2, <1>3, <2>1, <2>2, MadeRoom
<1>5. CASE e \in StoredEvents /\ e \notin {m.ev : m \in msgs}
  <2>1. Later(e) \subseteq Later(e)'
    BY <1>3 DEF Later
  <2>2. /\ IsFiniteSet(Later(e)') /\ Cardinality(Later(e)) \in Nat
        /\ Cardinality(Later(e)) >= StreamLimit
    <3>1. StoredEvents' \subseteq Events
      BY DEF TypeOK, Attempt, StoredEvents
    <3>2. IsFiniteSet(Later(e)')
      <4>1. IsFiniteSet(Events)
        BY FS_Interval DEF Events
      <4>2. Later(e)' \subseteq Events
        BY <3>1 DEF Later
      <4> QED BY <4>1, <4>2, FS_Subset
    <3> QED BY <1>5, <3>2, LaterFinite DEF SurvivesInv
  <2>3. Cardinality(Later(e)) <= Cardinality(Later(e)')
    BY <2>1, <2>2, FS_Subset
  <2>4. Cardinality(Later(e)') \in Nat
    BY <2>2, FS_CardinalityType
  <2> QED BY <2>2, <2>3, <2>4
<1>6. CASE e = h /\ e \notin {m.ev : m \in msgs}
  <2>1. \A m \in msgs' : m.ev # h
    BY <1>6
  <2> DEFINE new == [seq |-> lastSeq + 1, ev |-> h]
             S == {n \in msgs : Subject(n.ev) # Subject(h)} \cup {new}
  <2>2. msgs' = Newest(S)
    BY DEF Store, h
  <2>3. {n \in S : n.seq > new.seq} = {}
    BY DEF TypeOK, BusTypeOK, Message, OrderInv, BusConsistent
  <2>4. Cardinality({n \in S : n.seq > new.seq}) < StreamLimit
    BY <2>3, FS_EmptySet
  <2>5. new \in msgs' /\ new.ev = h
    BY <2>2, <2>4 DEF Newest
  <2> QED BY <2>1, <2>5
<1> QED BY <1>3, <1>4, <1>5, <1>6

LEMMA SurvivesStep ==
  ASSUME TypeOK, TypeOK', OrderInv, StoredInv, StoredInv', SurvivesInv, [Next]_vars
  PROVE  SurvivesInv'
<1>1. ASSUME UNCHANGED <<msgs, stored>>, losses' = losses PROVE SurvivesInv'
  BY <1>1 DEF SurvivesInv, StoredEvents, Later
<1>2. CASE Deliver
  BY <1>1, <1>2, SurvivesServe DEF Deliver, Serve, busVars
<1>3. CASE DeliverStray
  BY <1>3 DEF DeliverStray, OrderInv
<1>4. CASE ServerRestart
  <2>1. losses' # 0
    BY <1>4 DEF ServerRestart, TypeOK
  <2> QED BY <2>1 DEF SurvivesInv
<1>5. CASE OnEvent \/ DropLayer \/ Connect \/ RecvEvent \/ RecvClosed \/ Send \/ AckReceived
           \/ BackoffOver \/ Cancel \/ Disconnect
  BY <1>1, <1>5 DEF OnEvent, DropLayer, Connect, RecvEvent, RecvClosed, Send, AckReceived,
                    BackoffOver, Cancel, Disconnect, busVars
<1>6. CASE StreamReady \/ CreateFails
  BY <1>1, <1>6 DEF StreamReady, CreateFails, CreateStream, busVars
<1>7. CASE SendFails \/ TimedOut \/ ErrorReceived
  <2>1. PICK kind : AttemptFails(kind)
    BY <1>7 DEF SendFails, TimedOut, ErrorReceived
  <2> QED BY <1>1, <2>1 DEF AttemptFails, busVars
<1>8. CASE UNCHANGED vars
  BY <1>1, <1>8 DEF vars, busVars
<1> QED BY <1>2, <1>3, <1>4, <1>5, <1>6, <1>7, <1>8 DEF Next, Publishing, Environment

(* publish's Ok lasts: while the server does not restart and requests do   *)
(* not overtake each other, an acknowledged event leaves the stream only   *)
(* after StreamLimit later events have been stored, for a stream of any    *)
(* size and any number of copies sent twice.                               *)
THEOREM OkLasts == ~Straggling /\ Spec => []AckedSurvives
<1>1. Init => SurvivesInv
  BY DEF Init, SurvivesInv, StoredEvents
<1>2. PublisherInv => TypeOK
  BY DEF PublisherInv
<1>3. AckedWasStored /\ SurvivesInv => AckedSurvives
  BY DEF AckedWasStored, SurvivesInv, AckedSurvives, StoredEvents, Later
<1>4. CASE ~Straggling
  <2>1. TypeOK /\ TypeOK' /\ OrderInv /\ StoredInv /\ StoredInv' /\ SurvivesInv /\ [Next]_vars
          => SurvivesInv'
    BY SurvivesStep
  <2>2. Spec => [](OrderInv /\ StreamInOrder) /\ []StoredInv
    BY <1>4, StreamOrder, StoredOrder
  <2> QED BY <1>1, <1>2, <1>3, <2>1, <2>2, PublisherInvariant, OkMeansStored, PTL DEF Spec
<1> QED BY <1>4

-----------------------------------------------------------------------------
(* EventPublisher implements the steps of EventDelivery.                     *)

(* Where each event is, and the places that the phases stand for.          *)
Where == [e \in Events |-> PhaseOf(e)]

PhasesOK ==
  /\ Where \in [Events -> Delivery!Phases]
  /\ \A e \in Events :
       /\ Where[e] = "queued" <=> e \in Range(buffer)
       /\ Where[e] = "taken" <=> e = cur
       /\ Where[e] = "published" <=> e \in acked
       /\ Where[e] = "failed" <=> e \in failed
       /\ Where[e] = "dropped" <=> e \in dropped
       /\ Where[e] = "lost" <=> e \in lost
       /\ Where[e] = "unborn" <=> e > generated

LEMMA PhasesHold == PublisherInv => PhasesOK
<1> SUFFICES ASSUME PublisherInv PROVE PhasesOK
  OBVIOUS
<1>1. Accounted /\ generated \in 0..MaxEvents
  BY DEF PublisherInv, TypeOK
<1>2. ASSUME NEW e \in Events
      PROVE  /\ e \in Range(buffer) => PhaseOf(e) = "queued"
             /\ e = cur => PhaseOf(e) = "taken"
             /\ e \in acked => PhaseOf(e) = "published"
             /\ e \in failed => PhaseOf(e) = "failed"
             /\ e \in dropped => PhaseOf(e) = "dropped"
             /\ e \in lost => PhaseOf(e) = "lost"
             /\ e > generated => PhaseOf(e) = "unborn"
  <2>1. e \in InHand <=> e = cur
    BY DEF InHand, Events
  <2>2. e \in 1..generated <=> ~(e > generated)
    BY <1>1 DEF Events
  <2> QED BY <1>1, <2>1, <2>2 DEF Accounted, PhaseOf
<1>3. ASSUME NEW e \in Events
      PROVE  \/ e \in Range(buffer) \/ e = cur \/ e \in acked \/ e \in failed
             \/ e \in dropped \/ e \in lost \/ e > generated
  BY <1>1 DEF Accounted, Events, InHand
<1>4. \A e \in Events : Where[e] = PhaseOf(e)
  BY DEF Where
<1>5. \A e \in Events : Where[e] \in Delivery!Phases
  BY <1>2, <1>3, <1>4 DEF Delivery!Phases
<1>6. Where \in [Events -> Delivery!Phases]
  BY <1>5 DEF Where
<1> QED BY <1>2, <1>3, <1>4, <1>6 DEF PhasesOK
-----------------------------------------------------------------------------
(* A step of the publisher as EventDelivery sees it.                       *)
LEMMA Stutters ==
  ASSUME PhasesOK, PhasesOK', Running' = Running,
         UNCHANGED <<generated, buffer, dropped, cur, acked, failed, lost>>
  PROVE  UNCHANGED Delivery!vars
<1>1. \A e \in Events : Where'[e] = Where[e]
  BY DEF PhasesOK, Delivery!Phases
<1>2. Where' = Where
  BY <1>1 DEF PhasesOK
<1> QED BY <1>2 DEF Delivery!vars, Where

LEMMA Moves ==
  ASSUME PhasesOK, PhasesOK', NEW e \in Events, NEW p, Where'[e] = p,
         \A f \in Events \ {e} : Where'[f] = Where[f]
  PROVE  Delivery!Move(e, p)
<1>1. Where' = [Where EXCEPT ![e] = p]
  BY DEF PhasesOK
<1> QED BY <1>1 DEF Delivery!Move, Where

LEMMA SameCardinality ==
  ASSUME NEW S
  PROVE  Delivery!Cardinality(S) = Cardinality(S)
BY DEF Cardinality, Delivery!Cardinality

LEMMA QueuedIs ==
  ASSUME PublisherInv, PhasesOK
  PROVE  /\ Delivery!In("queued") = Range(buffer)
         /\ Delivery!In("taken") = InHand
         /\ Delivery!In("unborn") = {e \in Events : e > generated}
         /\ Cardinality(Range(buffer)) = Len(buffer)
<1>1. \A p : Delivery!In(p) = {e \in Events : Where[e] = p}
  BY DEF Delivery!In, Where, Events
<1>2. buffer \in Seq(Events) /\ DOMAIN buffer = 1..Len(buffer) /\ Len(buffer) \in Nat
  BY DEF PublisherInv, TypeOK
<1>3. Range(buffer) \subseteq Events /\ InHand \subseteq Events
  BY <1>2 DEF PublisherInv, TypeOK, InHand, Range
<1>4. buffer \in Bijection(1..Len(buffer), Range(buffer))
  <2>1. \A i, j \in 1..Len(buffer) : i # j => buffer[i] # buffer[j]
    <3>1. \A i \in 1..Len(buffer) : buffer[i] \in Int
      BY <1>2 DEF Events
    <3>2. \A i, j \in 1..Len(buffer) : i < j => buffer[i] < buffer[j]
      BY <1>2 DEF PublisherInv, TakenInOrder
    <3> QED BY <1>2, <3>1, <3>2
  <2>2. \A y \in Range(buffer) : \E i \in 1..Len(buffer) : buffer[i] = y
    BY <1>2 DEF Range
  <2>3. buffer \in [1..Len(buffer) -> Range(buffer)]
    BY <1>2 DEF Range
  <2> QED BY <2>1, <2>2, <2>3 DEF Bijection, Injection, Surjection, IsInjective
<1>5. ExistsBijection(1..Len(buffer), Range(buffer))
  BY <1>4 DEF ExistsBijection
<1>6. Cardinality(Range(buffer)) = Len(buffer)
  BY <1>2, <1>5, FS_CountingElements
<1>7. Delivery!In("queued") = Range(buffer)
  BY <1>1, <1>3 DEF PhasesOK
<1>8. Delivery!In("taken") = InHand
  BY <1>1, <1>3 DEF PhasesOK, InHand, Events
<1>9. Delivery!In("unborn") = {e \in Events : e > generated}
  BY <1>1 DEF PhasesOK
<1> QED BY <1>6, <1>7, <1>8, <1>9
-----------------------------------------------------------------------------
(* on_event: the next event is accepted while there is room, and refused   *)
(* only when there is none or nobody receives.                             *)
LEMMA OnEventDelivers ==
  ASSUME PublisherInv, PhasesOK, PhasesOK', OnEvent
  PROVE  Delivery!Accept \/ Delivery!Refuse
<1> DEFINE e == generated + 1
<1>1. e \in Events /\ generated \in Nat /\ e > generated
  BY DEF OnEvent, PublisherInv, TypeOK, Events
<1>2. buffer \in Seq(Events) /\ Len(buffer) \in Nat /\ Len(buffer) <= Capacity
  BY DEF PublisherInv, TypeOK
<1>3. Delivery!Oldest(e, Delivery!In("unborn"))
  BY <1>1, QueuedIs DEF Delivery!Oldest, Events
<1>4. /\ cur' = cur /\ acked' = acked /\ failed' = failed /\ lost' = lost
      /\ generated' = e /\ Running' = Running
  BY DEF OnEvent, taskVars, outcomes, Running
<1>5. \A f \in Events \ {e} : f > generated' <=> f > generated
  BY <1>1, <1>4 DEF Events
<1>6. CASE CanAccept /\ buffer' = Append(buffer, e) /\ UNCHANGED dropped
  <2>1. Range(buffer') = Range(buffer) \cup {e}
    BY <1>1, <1>2, <1>6, AppendIs
  <2>2. Where'[e] = "queued"
    BY <1>1, <2>1 DEF PhasesOK
  <2>3. \A f \in Events \ {e} : Where'[f] = Where[f]
    BY <1>4, <1>5, <1>6, <2>1 DEF PhasesOK, Delivery!Phases
  <2>4. Delivery!Move(e, "queued")
    BY <1>1, <2>2, <2>3, Moves
  <2>5. Running /\ Delivery!Cardinality(Delivery!In("queued")) < Capacity
    BY <1>6, QueuedIs, SameCardinality DEF CanAccept
  <2>6. e \in 1..MaxEvents /\ Running' = Running
    BY <1>1, <1>4 DEF Events
  <2> HIDE DEF e
  <2> QED BY <1>3, <2>4, <2>5, <2>6 DEF Delivery!Accept
<1>7. CASE ~CanAccept /\ dropped' = dropped \cup {e} /\ UNCHANGED buffer
  <2>1. Where'[e] = "dropped"
    BY <1>1, <1>7 DEF PhasesOK
  <2>2. \A f \in Events \ {e} : Where'[f] = Where[f]
    BY <1>4, <1>5, <1>7 DEF PhasesOK, Delivery!Phases
  <2>3. Delivery!Move(e, "dropped")
    BY <1>1, <2>1, <2>2, Moves
  <2>4. Running => Delivery!Cardinality(Delivery!In("queued")) = Capacity
    BY <1>2, <1>7, QueuedIs, SameCardinality DEF CanAccept
  <2>5. e \in 1..MaxEvents /\ Running' = Running
    BY <1>1, <1>4 DEF Events
  <2> HIDE DEF e
  <2> QED BY <1>3, <2>3, <2>4, <2>5 DEF Delivery!Refuse
<1> QED BY <1>6, <1>7 DEF OnEvent

(* publish_events takes the oldest event, and holds no other.              *)
LEMMA RecvDelivers ==
  ASSUME PublisherInv, PhasesOK, PhasesOK', RecvEvent
  PROVE  Delivery!Take
<1> DEFINE e == Head(buffer)
<1>1. /\ buffer \in Seq(Events) /\ buffer # <<>> /\ buffer' = Tail(buffer)
      /\ pc = "recv"
  BY DEF RecvEvent, PublisherInv, TypeOK
<1>2. /\ e \in Events /\ e \in Range(buffer)
      /\ Range(buffer) = Range(buffer') \cup {e}
  BY <1>1, TailIs
<1>3. Range(buffer) \subseteq Events
  BY <1>1 DEF Range
<1>4. \A f \in Range(buffer) : e <= f
  <2>1. \A i \in DOMAIN buffer : buffer[1] <= buffer[i]
    BY <1>1, TailIs DEF PublisherInv, TakenInOrder, Events
  <2> QED BY <1>1, <2>1, TailIs DEF Range
<1>5. Delivery!Oldest(e, Delivery!In("queued"))
  BY <1>2, <1>4, QueuedIs DEF Delivery!Oldest
<1>6. Delivery!In("taken") = {} /\ Running /\ cur = NoEvent
  BY <1>1, QueuedIs DEF PublisherInv, ControlOK, InHand, Running
<1>7. e \notin Range(buffer')
  <2>1. /\ \A i \in DOMAIN buffer' : i + 1 \in DOMAIN buffer /\ buffer'[i] = buffer[i + 1]
        /\ e = buffer[1] /\ 1 \in DOMAIN buffer /\ DOMAIN buffer' = 1..Len(buffer) - 1
        /\ Len(buffer) \in Nat
    BY <1>1, TailIs
  <2>2. \A i \in DOMAIN buffer' : 1 < i + 1
    BY <2>1
  <2>3. \A i \in DOMAIN buffer' : e < buffer'[i]
    BY <2>1, <2>2 DEF PublisherInv, TakenInOrder
  <2> QED BY <1>2, <2>3 DEF Range, Events
<1>8. UNCHANGED <<generated, dropped, acked, lost>>
  BY DEF RecvEvent, layerVars
<1> HIDE DEF e
<1>9. CASE /\ failed' = failed \cup {e} /\ UNCHANGED taskVars
  <2>1. Where'[e] = "failed"
    BY <1>2, <1>9 DEF PhasesOK
  <2>2. cur' = cur /\ Running' = Running
    BY <1>9 DEF taskVars, Running
  <2>3. \A f \in Events \ {e} : Where'[f] = Where[f]
    BY <1>2, <1>7, <1>8, <1>9, <2>2 DEF PhasesOK, Delivery!Phases
  <2>4. Delivery!Move(e, "failed")
    BY <1>2, <2>1, <2>3, Moves
  <2> QED BY <1>2, <1>5, <1>6, <2>2, <2>4 DEF Delivery!Take, Events
<1>10. CASE /\ pc' = "send" /\ cur' = e /\ UNCHANGED failed
  <2>1. Where'[e] = "taken"
    BY <1>2, <1>10 DEF PhasesOK
  <2>2. Running' = Running
    BY <1>6, <1>10 DEF Running
  <2>3. \A f \in Events \ {e} : f # cur /\ f # cur'
    BY <1>6, <1>10 DEF Events
  <2>4. \A f \in Events \ {e} : Where'[f] = Where[f]
    BY <1>2, <1>7, <1>8, <1>10, <2>3 DEF PhasesOK, Delivery!Phases
  <2>5. Delivery!Move(e, "taken")
    BY <1>2, <2>1, <2>4, Moves
  <2> QED BY <1>2, <1>5, <1>6, <2>2, <2>5 DEF Delivery!Take, Events
<1> QED BY <1>9, <1>10 DEF RecvEvent, e

(* publish returns for the event in hand.                                  *)
LEMMA ReturnDelivers ==
  ASSUME PublisherInv, PhasesOK, PhasesOK', cur # NoEvent, Running, Return,
         UNCHANGED <<generated, buffer, dropped, lost>>,
         \/ acked' = acked \cup {cur} /\ UNCHANGED failed
         \/ failed' = failed \cup {cur} /\ UNCHANGED acked
  PROVE  Delivery!Settle
<1>1. cur \in Events /\ cur \in Delivery!In("taken")
  BY QueuedIs DEF PublisherInv, TypeOK, InHand
<1>2. cur' = NoEvent /\ Running' = Running
  BY DEF Return, Running
<1>3. \A f \in Events : f # cur'
  BY <1>2 DEF Events
<1>4. \A f \in Events \ {cur} : Where'[f] = Where[f]
  BY <1>3 DEF PhasesOK, Delivery!Phases
<1>5. Where'[cur] = "published" \/ Where'[cur] = "failed"
  BY <1>1 DEF PhasesOK
<1>6. Delivery!Move(cur, "published") \/ Delivery!Move(cur, "failed")
  BY <1>1, <1>4, <1>5, Moves
<1> QED BY <1>1, <1>2, <1>6 DEF Delivery!Settle

(* The task ends or is cancelled: what it or the channel holds is lost.    *)
LEMMA StopDelivers ==
  ASSUME PublisherInv, PhasesOK, PhasesOK', Running, ~Running',
         Range(buffer') = {}, cur' = NoEvent,
         UNCHANGED <<generated, dropped, acked, failed>>,
         lost' = lost \cup Range(buffer) \cup InHand
  PROVE  Delivery!Stop
<1>1. \A f \in Events : f # cur'
  BY DEF Events
<1>2. \A f \in Events : f \in InHand <=> f = cur
  BY DEF InHand, Events
<1>3. \A f \in Events :
        Where'[f] = IF Where[f] \in {"queued", "taken"} THEN "lost" ELSE Where[f]
  BY <1>1, <1>2 DEF PhasesOK, Delivery!Phases
<1>4. Where' = [f \in Events |->
        IF Where[f] \in {"queued", "taken"} THEN "lost" ELSE Where[f]]
  BY <1>3 DEF PhasesOK
<1>5. Running' = FALSE
  BY DEF Running
<1> QED BY <1>4, <1>5 DEF Delivery!Stop, Where, Events
-----------------------------------------------------------------------------
LEMMA StepDelivers ==
  ASSUME PublisherInv, PhasesOK, PhasesOK', [Next]_vars
  PROVE  [Delivery!Next]_(Delivery!vars)
<1> USE DEF layerVars, taskVars, outcomes
<1>1. CASE OnEvent
  BY <1>1, OnEventDelivers DEF Delivery!Next
<1>2. CASE RecvEvent
  BY <1>2, RecvDelivers DEF Delivery!Next
<1>3. CASE AckReceived
  <2>1. cur # NoEvent /\ Running
    BY <1>3 DEF AckReceived, PublisherInv, ControlOK, Running
  <2> QED BY <1>3, <2>1, ReturnDelivers DEF AckReceived, Delivery!Next
<1>4. ASSUME NEW kind \in {"TimedOut", "StreamNotFound", "Other"},
             AttemptFails(kind), pc \in {"send", "await"}
      PROVE  [Delivery!Next]_(Delivery!vars)
  <2>1. cur # NoEvent /\ Running
    BY <1>4 DEF PublisherInv, ControlOK, Running
  <2>2. CASE GiveUp /\ Return
    BY <1>4, <2>1, <2>2, ReturnDelivers DEF AttemptFails, GiveUp, Delivery!Next
  <2>3. CASE UNCHANGED <<cur, failed, buffer>> /\ pc' \in {"send", "create", "backoff"}
    <3>1. Running' = Running
      BY <1>4, <2>3 DEF Running
    <3> QED BY <1>4, <2>3, <3>1, Stutters DEF AttemptFails
  <2> QED BY <1>4, <2>2, <2>3 DEF AttemptFails
<1>5. CASE SendFails \/ TimedOut \/ ErrorReceived
  BY <1>4, <1>5 DEF SendFails, TimedOut, ErrorReceived
<1>6. CASE CreateFails
  <2>1. pc = "create" /\ UNCHANGED <<generated, buffer, dropped, acked, lost>> /\ Running
    BY <1>6 DEF CreateFails, Running
  <2>2. CASE pc' = "createBackoff" /\ UNCHANGED <<cur, failed>>
    <3>1. Running' = Running
      BY <2>1, <2>2 DEF Running
    <3> QED BY <2>1, <2>2, <3>1, Stutters
  <2>3. CASE Return /\ cur # NoEvent /\ failed' = failed \cup {cur}
    BY <2>1, <2>3, ReturnDelivers DEF Delivery!Next
  <2>4. CASE Return /\ cur = NoEvent /\ failed' = failed
    <3>1. Running' = Running /\ cur' = cur
      BY <2>1, <2>4 DEF Running, Return
    <3> QED BY <2>1, <2>4, <3>1, Stutters
  <2>5. cur # NoEvent => {cur} \ {NoEvent} = {cur}
    OBVIOUS
  <2> QED BY <1>6, <2>2, <2>3, <2>4, <2>5 DEF CreateFails
<1>7. CASE RecvClosed \/ Cancel
  <2>1. Running /\ ~Running'
    BY <1>7 DEF RecvClosed, Cancel, Running
  <2>2. cur' = NoEvent /\ buffer' = <<>>
    BY <1>7 DEF RecvClosed, Cancel, PublisherInv, ControlOK
  <2>3. Range(buffer') = {}
    BY <2>2 DEF Range
  <2>4. CASE RecvClosed
    <3>1. Range(buffer) = {} /\ InHand = {}
      BY <2>2, <2>3, <2>4 DEF RecvClosed, InHand
    <3> QED BY <2>1, <2>2, <2>3, <2>4, <3>1, StopDelivers DEF RecvClosed, Delivery!Next
  <2>5. CASE Cancel
    BY <2>1, <2>2, <2>3, <2>5, StopDelivers DEF Cancel, InHand, Delivery!Next
  <2> QED BY <1>7, <2>4, <2>5
<1>8. CASE \/ DropLayer \/ Connect \/ StreamReady \/ Send \/ BackoffOver
           \/ Deliver \/ DeliverStray \/ Disconnect \/ ServerRestart \/ UNCHANGED vars
  <2>1. UNCHANGED <<generated, buffer, dropped, cur, acked, failed, lost>>
    BY <1>8 DEF DropLayer, Connect, StreamReady, Return, Send, BackoffOver, Deliver,
                DeliverStray, Disconnect, ServerRestart, vars
  <2>2. pc' = pc \/ (Running /\ Running')
    BY <1>8 DEF DropLayer, Connect, StreamReady, Return, Send, BackoffOver, Deliver,
                DeliverStray, Disconnect, ServerRestart, vars, Running
  <2>3. Running' = Running
    BY <2>2 DEF Running
  <2> QED BY <2>1, <2>3, Stutters
<1> QED BY <1>1, <1>2, <1>3, <1>5, <1>6, <1>7, <1>8 DEF Next, Publishing, Environment

(* Every step of layer, channel, task, connection and server is one that   *)
(* EventDelivery allows: events are taken one at a time in their order,    *)
(* refused only when the channel is full or nobody receives, and settled   *)
(* exactly once and for good.                                              *)
THEOREM PublisherDelivers == Spec => Delivery!SafeSpec
<1>1. Init => Delivery!Init
  <2> SUFFICES ASSUME Init PROVE Delivery!Init
    OBVIOUS
  <2>1. Range(buffer) = {} /\ \A e \in Events : e # cur
    BY DEF Init, Range, Events
  <2>2. \A e \in Events : PhaseOf(e) = "unborn"
    BY <2>1 DEF Init, PhaseOf
  <2>3. Running = TRUE
    BY DEF Init, Running
  <2> QED BY <2>2, <2>3 DEF Delivery!Init, Events
<1> QED BY <1>1, PhasesHold, StepDelivers, PublisherInvariant, PTL
        DEF Spec, Delivery!SafeSpec
=============================================================================
