----------------------- MODULE EventSubscriberProofs -----------------------
(***************************************************************************)
(* The order in which next() returns events, for any number of events,     *)
(* copies, crashes, restarts and waiting deliveries, while the consumer    *)
(* waits for one acknowledgement at a time, as the one of subscribe does;  *)
(* and what a crash of the process costs, for any number it waits for.     *)
(***************************************************************************)
EXTENDS MCEventSubscriber, FiniteSetTheorems, TLAPS

USE JetStreamAssumption, SubscriberAssumption
    DEF JetStreamAssumption, SubscriberAssumption

LEMMA AppendIs ==
  ASSUME NEW S, NEW s \in Seq(S), NEW e \in S
  PROVE  /\ Append(s, e) \in Seq(S)
         /\ DOMAIN Append(s, e) = DOMAIN s \cup {Len(s) + 1}
         /\ \A i \in DOMAIN s : Append(s, e)[i] = s[i] /\ i < Len(s) + 1 /\ i \in Int
         /\ Append(s, e)[Len(s) + 1] = e /\ Len(s) + 1 \in Int
OBVIOUS

LEMMA TailIs ==
  ASSUME NEW S, NEW s \in Seq(S), s # <<>>
  PROVE  /\ Tail(s) \in Seq(S) /\ Head(s) \in S
         /\ Head(s) = s[1] /\ 1 \in DOMAIN s
         /\ \A i \in DOMAIN Tail(s) : /\ i + 1 \in DOMAIN s /\ Tail(s)[i] = s[i + 1]
                                      /\ i \in Int /\ 1 < i + 1
OBVIOUS

(* The stream: numbered, in the order of the events.                       *)
StreamOK ==
  /\ BusTypeOK /\ BusConsistent
  /\ \A m, n \in msgs : m.seq < n.seq => m.ev < n.ev

(* The consumer waits for the acknowledgement of the last message it has   *)
(* pushed, or for none.                                                    *)
ConsumerOK ==
  /\ cursor \in Nat /\ pending \subseteq {cursor}
  /\ inbox \in Seq(Message)
  /\ inHand \in [seq : Nat, ev : 0..MaxEvents]
  /\ latest \in 0..MaxEvents

(* What it may still push.                                                 *)
Ahead == {m \in msgs : m.seq > cursor \/ m.seq \in pending}

(* From what next() has returned to what the consumer may still push, no   *)
(* event is older than one before it.                                      *)
HandOver ==
  /\ spc = "parsing" => latest <= inHand.ev
  /\ \A i \in DOMAIN inbox : latest <= inbox[i].ev /\ inHand.ev <= inbox[i].ev
  /\ \A i, j \in DOMAIN inbox : i < j => inbox[i].ev <= inbox[j].ev
  /\ \A m \in Ahead : latest <= m.ev /\ inHand.ev <= m.ev
  /\ \A m \in Ahead, i \in DOMAIN inbox : inbox[i].ev <= m.ev

SubscriberOrder == StreamOK /\ ConsumerOK /\ HandOver

(* All that the stream and the subscriber have is in S, which a producer   *)
(* says what it is.                                                        *)
SeenIn(S) ==
  /\ \A m \in msgs : m.ev \in S
  /\ \A i \in DOMAIN inbox : inbox[i].ev \in S
  /\ inHand.ev \in S \/ (inHand.ev = 0 /\ spc # "parsing")
  /\ handed \subseteq S /\ latest \in S \cup {0}

LEMMA Members ==
  ASSUME StreamOK, ConsumerOK
  PROVE  /\ \A m \in msgs : m \in Message /\ m.seq \in Nat /\ m.ev \in Int
         /\ \A i \in DOMAIN inbox : inbox[i] \in Message /\ inbox[i].ev \in Int
         /\ inHand.ev \in Int /\ latest \in Int /\ cursor \in Nat
<1>1. \A m \in Message : m.seq \in Nat /\ m.ev \in Int
  BY DEF Message, Events
<1>2. msgs \subseteq Message /\ \A i \in DOMAIN inbox : inbox[i] \in Message
  BY DEF StreamOK, ConsumerOK, BusTypeOK
<1>3. inHand.ev \in Int /\ latest \in Int /\ cursor \in Nat
  BY DEF ConsumerOK
<1> QED BY <1>1, <1>2, <1>3

(* The steps of the process and what only forgets: nothing new is ahead.   *)
LEMMA Forgets ==
  ASSUME SubscriberOrder, latest' = latest, Ahead' \subseteq Ahead,
         \/ UNCHANGED <<inbox, inHand>> /\ (spc' = "parsing" => spc = "parsing")
         \/ inbox' = <<>> /\ inHand' = NoMessage /\ spc' # "parsing"
  PROVE  HandOver'
<1> USE DEF SubscriberOrder, HandOver
<1>1. CASE UNCHANGED <<inbox, inHand>> /\ (spc' = "parsing" => spc = "parsing")
  BY <1>1
<1>2. CASE inbox' = <<>> /\ inHand' = NoMessage /\ spc' # "parsing"
  <2>1. inHand'.ev = 0 /\ DOMAIN inbox' = {}
    BY <1>2 DEF NoMessage
  <2>2. \A m \in Ahead : 0 <= m.ev
    BY DEF StreamOK, BusTypeOK, Message, Events, Ahead
  <2> QED BY <1>2, <2>1, <2>2
<1> QED BY <1>1, <1>2

(* A message that may be pushed is, for the first time or again.           *)
LEMMA PushKeeps ==
  ASSUME SubscriberOrder, NEW m \in Ahead,
         UNCHANGED <<busVars, latest, inHand, spc>>,
         inbox' = Append(inbox, m), \A n \in Ahead' : n \in Ahead /\ m.ev <= n.ev
  PROVE  HandOver' /\ inbox' \in Seq(Message)
<1>1. m \in msgs /\ m \in Message
  BY DEF Ahead, SubscriberOrder, StreamOK, BusTypeOK
<1>2. /\ inbox' \in Seq(Message)
      /\ DOMAIN inbox' = DOMAIN inbox \cup {Len(inbox) + 1}
      /\ \A i \in DOMAIN inbox : inbox'[i] = inbox[i] /\ i < Len(inbox) + 1 /\ i \in Int
      /\ inbox'[Len(inbox) + 1] = m /\ Len(inbox) + 1 \in Int
  BY <1>1, AppendIs DEF SubscriberOrder, ConsumerOK
<1>3. \A i \in DOMAIN inbox : inbox[i].ev <= m.ev
  BY DEF SubscriberOrder, HandOver
<1>4. latest <= m.ev /\ inHand.ev <= m.ev
  BY DEF SubscriberOrder, HandOver
<1>5. \A i \in DOMAIN inbox' : i \in DOMAIN inbox \/ inbox'[i] = m
  BY <1>2
<1>6. \A i, j \in DOMAIN inbox' : i < j => inbox'[i].ev <= inbox'[j].ev
  BY <1>1, <1>2, <1>3, SMTT(20) DEF SubscriberOrder, HandOver, Message, Events
<1>7. \A i \in DOMAIN inbox' : latest <= inbox'[i].ev /\ inHand.ev <= inbox'[i].ev
  BY <1>1, <1>2, <1>4, <1>5 DEF SubscriberOrder, HandOver
<1>8. \A n \in Ahead', i \in DOMAIN inbox' : inbox'[i].ev <= n.ev
  BY <1>2, <1>5 DEF SubscriberOrder, HandOver
<1> QED BY <1>2, <1>6, <1>7, <1>8 DEF SubscriberOrder, HandOver
-----------------------------------------------------------------------------
LEMMA PushStep ==
  ASSUME SubscriberOrder, MaxAckPending = 1, Push
  PROVE  SubscriberOrder'
<1>1. PICK m \in msgs : /\ m.seq > cursor
                        /\ \A n \in msgs : n.seq > cursor => m.seq <= n.seq
                        /\ cursor' = m.seq /\ pending' = pending \cup {m.seq}
                        /\ inbox' = Append(inbox, m)
  BY DEF Push
<1>2. UNCHANGED <<up, msgs, lastSeq, latest, inHand, spc>>
  BY DEF Push, busVars, clientVars, output
<1>3. pending = {}
  <2>1. SUFFICES ASSUME pending = {cursor} PROVE FALSE
    BY DEF SubscriberOrder, ConsumerOK
  <2>2. Cardinality({cursor}) = 1
    BY FS_Singleton
  <2> QED BY <2>1, <2>2 DEF Push, HasRoom
<1>4. m \in Ahead
  BY <1>1 DEF Ahead
<1>5. \A n \in msgs : n.seq \in Nat /\ n.ev \in Int
  BY Members DEF SubscriberOrder
<1>6. \A n \in Ahead' : n \in Ahead /\ m.ev <= n.ev
  <2> SUFFICES ASSUME NEW n \in Ahead' PROVE n \in Ahead /\ m.ev <= n.ev
    OBVIOUS
  <2>1. n \in msgs /\ n.seq >= m.seq
    BY <1>1, <1>2, <1>3, <1>5 DEF Ahead
  <2>2. n.seq > cursor
    BY <1>1, <1>5, <2>1, Members DEF SubscriberOrder
  <2>3. n.seq = m.seq => n = m
    BY <2>1 DEF SubscriberOrder, StreamOK, BusConsistent
  <2>4. n.seq > m.seq => m.ev < n.ev
    BY <2>1 DEF SubscriberOrder, StreamOK
  <2> QED BY <1>1, <1>5, <2>1, <2>2, <2>3, <2>4 DEF Ahead
<1>7. HandOver' /\ inbox' \in Seq(Message)
  BY <1>1, <1>2, <1>4, <1>6, PushKeeps DEF busVars
<1>8. ConsumerOK'
  BY <1>1, <1>2, <1>3, <1>5, <1>7 DEF SubscriberOrder, ConsumerOK
<1>9. StreamOK'
  BY <1>2 DEF SubscriberOrder, StreamOK, BusTypeOK, BusConsistent
<1> QED BY <1>7, <1>8, <1>9 DEF SubscriberOrder

LEMMA RedeliverStep ==
  ASSUME SubscriberOrder, Redeliver
  PROVE  SubscriberOrder'
<1>1. UNCHANGED <<up, msgs, lastSeq, latest, inHand, spc, cursor>>
  BY DEF Redeliver, busVars, clientVars, output
<1>2. StreamOK'
  BY <1>1 DEF SubscriberOrder, StreamOK, BusTypeOK, BusConsistent
<1>3. ASSUME NEW m \in msgs, m.seq \in pending, inbox' = Append(inbox, m), UNCHANGED pending
      PROVE  SubscriberOrder'
  <2>1. m \in Ahead /\ m.seq = cursor
    BY <1>3 DEF Ahead, SubscriberOrder, ConsumerOK
  <2>2. \A n \in msgs : n.seq \in Nat /\ n.ev \in Int
    BY Members DEF SubscriberOrder
  <2>3. \A n \in Ahead' : n \in Ahead /\ m.ev <= n.ev
    <3> SUFFICES ASSUME NEW n \in Ahead' PROVE n \in Ahead /\ m.ev <= n.ev
      OBVIOUS
    <3>1. n \in Ahead /\ n \in msgs /\ (n.seq = m.seq \/ n.seq > m.seq)
      BY <1>1, <1>3, <2>1 DEF Ahead, SubscriberOrder, ConsumerOK
    <3>2. n.seq = m.seq => n = m
      BY <3>1 DEF SubscriberOrder, StreamOK, BusConsistent
    <3>3. n.seq > m.seq => m.ev < n.ev
      BY <3>1 DEF SubscriberOrder, StreamOK
    <3> QED BY <2>2, <3>1, <3>2, <3>3
  <2>4. HandOver' /\ inbox' \in Seq(Message)
    BY <1>1, <1>3, <2>1, <2>3, PushKeeps DEF busVars
  <2> QED BY <1>1, <1>2, <1>3, <2>4 DEF SubscriberOrder, ConsumerOK
<1>4. ASSUME NEW s \in pending, pending' = pending \ {s}, UNCHANGED inbox
      PROVE  SubscriberOrder'
  <2>1. Ahead' \subseteq Ahead
    BY <1>1, <1>4 DEF Ahead
  <2>2. HandOver'
    BY <1>1, <1>4, <2>1, Forgets
  <2>3. ConsumerOK'
    BY <1>1, <1>4 DEF SubscriberOrder, ConsumerOK
  <2> QED BY <1>2, <2>2, <2>3 DEF SubscriberOrder
<1> QED BY <1>3, <1>4 DEF Redeliver

LEMMA PollStep ==
  ASSUME SubscriberOrder, Poll
  PROVE  SubscriberOrder'
<1>1. /\ UNCHANGED <<up, msgs, lastSeq, latest, cursor, pending>>
      /\ inbox # <<>> /\ inHand' = Head(inbox) /\ inbox' = Tail(inbox)
      /\ spc' = "parsing"
  BY DEF Poll, busVars, serverVars, output
<1>2. /\ inbox' \in Seq(Message) /\ inHand' \in Message
      /\ inHand' = inbox[1] /\ 1 \in DOMAIN inbox
      /\ \A i \in DOMAIN inbox' : /\ i + 1 \in DOMAIN inbox /\ inbox'[i] = inbox[i + 1]
                                  /\ i \in Int /\ 1 < i + 1
  BY <1>1, TailIs DEF SubscriberOrder, ConsumerOK
<1>3. StreamOK'
  BY <1>1 DEF SubscriberOrder, StreamOK, BusTypeOK, BusConsistent
<1>4. Ahead' = Ahead
  BY <1>1 DEF Ahead
<1>5. ConsumerOK'
  <2>1. inHand' \in [seq : Nat, ev : 0..MaxEvents]
    BY <1>2 DEF Message, Events
  <2> QED BY <1>1, <1>2, <2>1 DEF SubscriberOrder, ConsumerOK
<1>6. \A i \in DOMAIN inbox' : latest <= inbox'[i].ev /\ inHand'.ev <= inbox'[i].ev
  BY <1>2 DEF SubscriberOrder, HandOver
<1>7. \A i, j \in DOMAIN inbox' : i < j => inbox'[i].ev <= inbox'[j].ev
  BY <1>2 DEF SubscriberOrder, HandOver
<1>8. \A m \in Ahead' : /\ latest <= m.ev /\ inHand'.ev <= m.ev
                        /\ \A i \in DOMAIN inbox' : inbox'[i].ev <= m.ev
  BY <1>2, <1>4 DEF SubscriberOrder, HandOver
<1>9. latest <= inHand'.ev
  BY <1>2 DEF SubscriberOrder, HandOver
<1> QED BY <1>1, <1>3, <1>5, <1>6, <1>7, <1>8, <1>9 DEF SubscriberOrder, HandOver

LEMMA ParseStep ==
  ASSUME SubscriberOrder, Parse
  PROVE  SubscriberOrder' /\ latest <= latest'
<1>1. /\ UNCHANGED <<up, msgs, lastSeq, inbox, cursor, pending>>
      /\ spc = "parsing" /\ spc' = "polling" /\ inHand' = NoMessage
      /\ latest' = latest \/ latest' = inHand.ev
  BY DEF Parse, busVars, serverVars, output
<1>2. inHand'.ev = 0 /\ inHand' \in [seq : Nat, ev : 0..MaxEvents]
  BY <1>1 DEF NoMessage
<1>3. Ahead' = Ahead
  BY <1>1 DEF Ahead
<1>4. StreamOK'
  BY <1>1 DEF SubscriberOrder, StreamOK, BusTypeOK, BusConsistent
<1>5. ConsumerOK' /\ latest <= latest'
  BY <1>1, <1>2 DEF SubscriberOrder, ConsumerOK, HandOver
<1>6. /\ \A m \in Ahead : 0 <= m.ev
      /\ \A i \in DOMAIN inbox : 0 <= inbox[i].ev
  <2>1. latest \in Nat
    BY DEF SubscriberOrder, ConsumerOK
  <2>2. /\ \A m \in Ahead : latest <= m.ev /\ m \in msgs
        /\ \A i \in DOMAIN inbox : latest <= inbox[i].ev
    BY DEF SubscriberOrder, HandOver, Ahead
  <2> QED BY <2>1, <2>2, Members DEF SubscriberOrder
<1>7. HandOver'
  BY <1>1, <1>2, <1>3, <1>6 DEF SubscriberOrder, HandOver
<1> QED BY <1>4, <1>5, <1>7 DEF SubscriberOrder

(* What leaves the stream and the server's place in it alone, but for a    *)
(* stream that is created and an acknowledgement that arrives.             *)
LEMMA QuietStep ==
  ASSUME SubscriberOrder, UNCHANGED <<msgs, lastSeq, cursor, latest>>,
         up' = up \/ up' = TRUE, pending' \subseteq pending,
         \/ UNCHANGED <<inbox, inHand>> /\ (spc' = "parsing" => spc = "parsing")
         \/ inbox' = <<>> /\ inHand' = NoMessage /\ spc' # "parsing"
  PROVE  SubscriberOrder' /\ latest <= latest'
<1>1. latest <= latest
  BY DEF SubscriberOrder, ConsumerOK
<1>2. Ahead' \subseteq Ahead
  BY DEF Ahead
<1>3. HandOver'
  BY <1>2, Forgets
<1>4. StreamOK'
  <2>1. BusTypeOK'
    BY DEF SubscriberOrder, StreamOK, BusTypeOK
  <2>2. BusConsistent'
    BY DEF SubscriberOrder, StreamOK, BusConsistent
  <2> QED BY <2>1, <2>2 DEF SubscriberOrder, StreamOK
<1>5. NoMessage \in [seq : Nat, ev : 0..MaxEvents]
  BY DEF NoMessage
<1>6. ConsumerOK'
  <2>1. inbox' \in Seq(Message)
    <3>1. inbox \in Seq(Message) /\ <<>> \in Seq(Message)
      BY DEF SubscriberOrder, ConsumerOK
    <3> QED BY <3>1
  <2>2. inHand' \in [seq : Nat, ev : 0..MaxEvents]
    BY <1>5 DEF SubscriberOrder, ConsumerOK
  <2> QED BY <2>1, <2>2 DEF SubscriberOrder, ConsumerOK
<1> QED BY <1>1, <1>3, <1>4, <1>6 DEF SubscriberOrder

(* The subscriber and its consumer keep the order.                         *)
LEMMA SubscriberStep ==
  ASSUME SubscriberOrder, MaxAckPending = 1, SNext
  PROVE  SubscriberOrder' /\ latest <= latest'
<1>1. latest <= latest
  BY DEF SubscriberOrder, ConsumerOK
<1>2. CASE Parse
  BY <1>2, ParseStep
<1>3. CASE Poll
  BY <1>1, <1>3, PollStep DEF Poll, output
<1>4. CASE Push
  BY <1>1, <1>4, PushStep DEF Push, output
<1>5. CASE Redeliver
  BY <1>1, <1>5, RedeliverStep DEF Redeliver, output
<1>6. CASE RequestFails \/ GotStream \/ GotConsumer
  BY <1>6, QuietStep DEF RequestFails, GotStream, GotConsumer, StartingPoint, busVars,
                         serverVars, output
<1>7. CASE Resubscribe \/ Crash
  BY <1>7, QuietStep DEF Resubscribe, Crash, Subscribe, busVars, serverVars, output
<1>8. CASE AckArrives \/ AckLost
  BY <1>8, QuietStep DEF AckArrives, AckLost, busVars, serverVars, clientVars, output
<1> QED BY <1>2, <1>3, <1>4, <1>5, <1>6, <1>7, <1>8 DEF SNext, Subscribing, Receiving

(* It gets nothing that is not in the stream.                              *)
LEMMA SeenStep ==
  ASSUME SubscriberOrder, NEW S, SeenIn(S), SNext
  PROVE  SeenIn(S)'
<1>1. msgs' = msgs
  BY DEF SNext, Subscribing, Receiving, RequestFails, GotStream, GotConsumer, Poll, Parse,
         Resubscribe, Crash, Subscribe, Push, Redeliver, AckArrives, AckLost, busVars
<1>2. inbox \in Seq(Message) /\ NoMessage.ev = 0 /\ msgs \subseteq Message
  BY DEF SubscriberOrder, ConsumerOK, NoMessage, StreamOK, BusTypeOK
<1>3. CASE Parse
  <2>1. /\ UNCHANGED inbox /\ inHand'.ev = 0 /\ spc = "parsing" /\ spc' # "parsing"
        /\ \/ UNCHANGED <<handed, latest>>
           \/ handed' = handed \cup {inHand.ev} /\ latest' = inHand.ev
    BY <1>2, <1>3 DEF Parse, output
  <2> QED BY <1>1, <2>1 DEF SeenIn
<1>4. CASE Poll
  <2>1. /\ inHand' = inbox[1] /\ 1 \in DOMAIN inbox /\ UNCHANGED <<handed, latest>>
        /\ \A i \in DOMAIN inbox' : i + 1 \in DOMAIN inbox /\ inbox'[i] = inbox[i + 1]
    BY <1>2, <1>4, TailIs DEF Poll, output
  <2> QED BY <1>1, <2>1 DEF SeenIn
<1>5. CASE Push \/ Redeliver
  <2>1. /\ inbox' = inbox \/ \E m \in msgs : inbox' = Append(inbox, m)
        /\ UNCHANGED <<inHand, spc, handed, latest>>
    BY <1>5 DEF Push, Redeliver, clientVars, output
  <2>2. CASE inbox' = inbox
    BY <1>1, <2>1, <2>2 DEF SeenIn
  <2>3. ASSUME NEW m \in msgs, inbox' = Append(inbox, m)
        PROVE  SeenIn(S)'
    <3>1. \A i \in DOMAIN inbox' : inbox'[i] = m \/ (i \in DOMAIN inbox /\ inbox'[i] = inbox[i])
      BY <1>2, <2>3, AppendIs
    <3> QED BY <1>1, <2>1, <3>1 DEF SeenIn
  <2> QED BY <2>1, <2>2, <2>3
<1>6. CASE RequestFails \/ GotStream \/ GotConsumer \/ AckArrives \/ AckLost
  BY <1>1, <1>6 DEF RequestFails, GotStream, GotConsumer, AckArrives, AckLost, clientVars,
                    output, SeenIn
<1>7. CASE Resubscribe \/ Crash
  <2>1. /\ inbox' = <<>> /\ inHand' = NoMessage /\ spc' # "parsing"
        /\ UNCHANGED <<handed, latest>>
    BY <1>7 DEF Resubscribe, Crash, Subscribe, output
  <2>2. DOMAIN inbox' = {}
    BY <2>1
  <2> QED BY <1>1, <1>2, <2>1, <2>2 DEF SeenIn
<1> QED BY <1>3, <1>4, <1>5, <1>6, <1>7 DEF SNext, Subscribing, Receiving

(* An event is stored that is not older than any the subscriber has met.   *)
LEMMA StoreStep ==
  ASSUME SubscriberOrder, up, NEW e \in Events, Store(e), UNCHANGED subVars,
         NEW S, SeenIn(S), \A s \in S : s <= e
  PROVE  SubscriberOrder' /\ SeenIn(S \cup {e})'
<1> DEFINE new == [seq |-> lastSeq + 1, ev |-> e]
<1>1. UNCHANGED <<latest, handed, inHand, spc, inbox, cursor, pending, up>>
  BY DEF Store, subVars, serverVars, clientVars, output
<1>2. e \in Int
  BY DEF Events
<1>3. lastSeq \in Nat /\ new \in Message /\ lastSeq' = lastSeq + 1
  BY DEF SubscriberOrder, StreamOK, BusTypeOK, Message, Store
<1>4. \A m \in msgs' : m = new \/ (m \in msgs /\ m.ev # e)
  BY DEF Store, Newest, Subject
<1>5. \A m \in msgs : m \in Message /\ m.seq \in 1..lastSeq /\ m.ev \in Int /\ m.ev <= e
  BY Members DEF SubscriberOrder, StreamOK, BusConsistent, SeenIn
<1>6. StreamOK'
  <2>1. BusTypeOK'
    BY <1>1, <1>3, <1>4, <1>5 DEF SubscriberOrder, StreamOK, BusTypeOK
  <2>2. BusConsistent'
    <3>1. \A m \in msgs' : m.seq \in 1..lastSeq'
      BY <1>3, <1>4, <1>5
    <3>2. \A m, n \in msgs' : m.seq = n.seq => m = n
      BY <1>3, <1>4, <1>5 DEF SubscriberOrder, StreamOK, BusConsistent
    <3> QED BY <1>1, <3>1, <3>2 DEF BusConsistent
  <2>3. \A m, n \in msgs' : m.seq < n.seq => m.ev < n.ev
    <3> SUFFICES ASSUME NEW m \in msgs', NEW n \in msgs', m.seq < n.seq
                 PROVE  m.ev < n.ev
      OBVIOUS
    <3>1. CASE n = new
      <4>1. m # new
        BY <1>3, <3>1
      <4>2. m \in msgs /\ m.ev # e
        BY <1>4, <4>1
      <4> QED BY <1>2, <1>5, <3>1, <4>2
    <3>2. CASE n # new
      <4>1. n \in msgs /\ m # new
        BY <1>3, <1>4, <1>5, <3>2
      <4>2. m \in msgs
        BY <1>4, <4>1
      <4> QED BY <4>1, <4>2 DEF SubscriberOrder, StreamOK
    <3> QED BY <3>1, <3>2
  <2> QED BY <2>1, <2>2, <2>3 DEF StreamOK
<1>7. ConsumerOK'
  BY <1>1 DEF SubscriberOrder, ConsumerOK
<1>8. \A m \in Ahead' : m = new \/ m \in Ahead
  BY <1>1, <1>4 DEF Ahead
<1>9. /\ latest <= e /\ inHand.ev <= e
      /\ \A i \in DOMAIN inbox : inbox[i].ev <= e
  BY DEF SeenIn, Events
<1>10. /\ \A m \in Ahead' : latest <= m.ev /\ inHand.ev <= m.ev
       /\ \A m \in Ahead', i \in DOMAIN inbox : inbox[i].ev <= m.ev
  <2>1. new.ev = e
    OBVIOUS
  <2> HIDE DEF new
  <2> QED BY <1>8, <1>9, <2>1 DEF SubscriberOrder, HandOver
<1>11. HandOver'
  BY <1>1, <1>10 DEF SubscriberOrder, HandOver
<1>12. SeenIn(S \cup {e})'
  BY <1>1, <1>4 DEF SeenIn
<1> QED BY <1>6, <1>7, <1>11, <1>12 DEF SubscriberOrder

(* The stream is created, or lost with the consumer.                       *)
LEMMA CreateStep ==
  ASSUME SubscriberOrder, CreateStream, UNCHANGED subVars
  PROVE  SubscriberOrder'
BY QuietStep DEF CreateStream, subVars, serverVars, clientVars, output

LEMMA StandStill ==
  ASSUME SubscriberOrder, UNCHANGED busVars, UNCHANGED subVars
  PROVE  SubscriberOrder'
BY QuietStep DEF busVars, subVars, serverVars, clientVars, output

LEMMA RestartStep ==
  ASSUME SubscriberOrder, LoseStream, ConsumerGone
  PROVE  SubscriberOrder'
<1>1. /\ up' = FALSE /\ msgs' = {} /\ lastSeq' = 0 /\ cursor' = 0 /\ pending' = {}
      /\ UNCHANGED <<inbox, inHand, spc, latest>>
  BY DEF LoseStream, ConsumerGone, clientVars, output
<1>2. Ahead' = {}
  BY <1>1 DEF Ahead
<1>3. HandOver'
  BY <1>1, <1>2, Forgets
<1>4. StreamOK' /\ ConsumerOK'
  BY <1>1 DEF SubscriberOrder, StreamOK, BusTypeOK, BusConsistent, ConsumerOK
<1> QED BY <1>3, <1>4 DEF SubscriberOrder

LEMMA OrderInit ==
  ASSUME BusInit, SInit
  PROVE  SubscriberOrder /\ SeenIn({})
<1> USE DEF BusInit, SInit
<1>1. StreamOK
  <2>1. BusTypeOK
    BY DEF BusTypeOK
  <2>2. BusConsistent
    BY DEF BusConsistent
  <2> QED BY <2>1, <2>2 DEF StreamOK
<1>2. inbox \in Seq(Message) /\ DOMAIN inbox = {} /\ Ahead = {}
  BY DEF Ahead
<1>3. inHand \in [seq : Nat, ev : 0..MaxEvents] /\ inHand.ev = 0
  BY DEF NoMessage
<1> QED BY <1>1, <1>2, <1>3 DEF SubscriberOrder, ConsumerOK, HandOver, SeenIn
-----------------------------------------------------------------------------
(* With the producer of MCEventSubscriber: nothing is newer than what it   *)
(* has emitted.                                                            *)
OrderInv == SubscriberOrder /\ newest \in 0..MaxEvents /\ SeenIn(1..newest)

LEMMA OrderStep ==
  ASSUME OrderInv, MaxAckPending = 1, [Next]_vars
  PROVE  OrderInv' /\ latest <= latest'
<1> USE DEF OrderInv
<1>1. latest <= latest
  BY DEF SubscriberOrder, ConsumerOK
<1>2. PICK S : S = 1..newest
  OBVIOUS
<1>3. SeenIn(S)
  BY <1>2
<1>4. CASE SNext /\ UNCHANGED prodVars
  <2>1. SubscriberOrder' /\ latest <= latest'
    BY <1>4, SubscriberStep
  <2>2. SeenIn(S)' /\ newest' = newest
    BY <1>3, <1>4, SeenStep DEF prodVars
  <2> QED BY <1>2, <2>1, <2>2 DEF SeenIn
<1>5. CASE Produce
  <2>1. PICK e \in Events : e = newest' /\ newest <= e
    BY <1>5 DEF Produce, Events
  <2>2. up /\ Store(e) /\ UNCHANGED subVars
    BY <1>5, <2>1 DEF Produce
  <2>3. \A s \in S : s <= e
    BY <1>2, <2>1 DEF Events
  <2>4. SubscriberOrder' /\ SeenIn(S \cup {e})'
    BY <1>3, <2>2, <2>3, StoreStep
  <2>5. newest' \in 0..MaxEvents /\ S \cup {e} \subseteq 1..e
    BY <1>2, <2>1 DEF Events
  <2>6. SeenIn(1..newest)'
    BY <2>1, <2>4, <2>5 DEF SeenIn
  <2> QED BY <1>1, <2>2, <2>4, <2>5, <2>6 DEF subVars, output
<1>6. CASE Create
  <2>1. SubscriberOrder' /\ UNCHANGED <<msgs, newest, subVars>>
    BY <1>6, CreateStep DEF Create, CreateStream, prodVars
  <2> QED BY <1>1, <2>1 DEF subVars, clientVars, output, SeenIn
<1>7. CASE ServerRestart
  <2>1. SubscriberOrder'
    BY <1>7, RestartStep DEF ServerRestart
  <2>2. msgs' = {} /\ UNCHANGED <<newest, inbox, clientVars, output>>
    BY <1>7 DEF ServerRestart, LoseStream, ConsumerGone
  <2> QED BY <1>1, <2>1, <2>2 DEF clientVars, output, SeenIn
<1>8. CASE UNCHANGED vars
  <2>1. UNCHANGED <<up, msgs, lastSeq, cursor, pending, latest, inbox, inHand, spc, newest,
                    handed>>
    BY <1>8 DEF vars, busVars, subVars, serverVars, clientVars, output, prodVars
  <2>2. SubscriberOrder'
    BY <1>8, StandStill DEF vars
  <2> QED BY <1>1, <2>1, <2>2 DEF SeenIn
<1> QED BY <1>4, <1>5, <1>6, <1>7, <1>8 DEF Next

(* next() never returns an event emitted before one it has returned,       *)
(* whatever is pushed again, stored again or lost, and however often the   *)
(* process and the server restart: because the consumer waits for one      *)
(* acknowledgement at a time (max_ack_pending is 1).                       *)
THEOREM ReturnedInOrder == MaxAckPending = 1 /\ Spec => HandedInOrder
<1>1. CASE MaxAckPending = 1
  <2>1. OrderInv /\ [Next]_vars => OrderInv' /\ latest <= latest'
    BY <1>1, OrderStep
  <2>2. OrderInv /\ [Next]_vars => [latest <= latest']_latest
    BY <2>1
  <2>3. Init => OrderInv
    <3>1. 1..0 = {}
      OBVIOUS
    <3> QED BY <3>1, OrderInit DEF Init, OrderInv
  <2> QED BY <2>1, <2>2, <2>3, PTL DEF Spec, HandedInOrder
<1> QED BY <1>1

-----------------------------------------------------------------------------
(* What a crash can cost.                                                  *)

(* The stream is finite and numbered; the server has pushed no more than   *)
(* it holds and waits for no more than it has pushed.                      *)
ServerOK ==
  /\ BusTypeOK /\ BusConsistent /\ IsFiniteSet(msgs)
  /\ newest \in 0..MaxEvents
  /\ cons \in BOOLEAN /\ cursor \in 0..lastSeq
  /\ pending \subseteq 0..cursor /\ IsFiniteSet(pending)
  /\ Cardinality(pending) <= MaxAckPending
  /\ ~cons => cursor = 0

(* Only a subscription receives, and only next() has a message in hand.    *)
ProcessOK ==
  /\ inbox \in Seq(Message) /\ Len(inbox) <= MaxInbox
  /\ spc \in {"getStream", "getConsumer", "polling", "parsing", "failed"}
  /\ stries \in 0..MaxRetries
  /\ ~Subscribed => inbox = <<>>
  /\ IF spc = "parsing" THEN inHand \in Message ELSE inHand = NoMessage
  /\ acks \subseteq Nat
  /\ handed \subseteq Events /\ latest \in {0} \cup Events
  /\ late \in BOOLEAN /\ crashes \in 0..MaxCrashes

(* A number stands for one message: what the process has received under it *)
(* is what the stream holds under it, if it still holds it.                *)
Stands(d, last, held) == d.seq <= last /\ \A m \in held : m.seq = d.seq => m = d

SameMessages ==
  cons => /\ \A i \in DOMAIN inbox : Stands(inbox[i], cursor, msgs)
          /\ spc = "parsing" => Stands(inHand, cursor, msgs)
          /\ late \/ acks \subseteq 0..cursor

(* The pushed messages that are done, or soon will be, and that next() has *)
(* neither returned nor in hand: a redelivery can bring one back, but need *)
(* not.                                                                    *)
Gone ==
  {m \in msgs : /\ m.seq <= cursor
                /\ m.seq \notin pending \/ m.seq \in acks
                /\ m.ev \notin handed \cup Unparsable
                /\ m # inHand}

GoneInv == late \/ Cardinality(Gone) <= crashes

MissInv == ServerOK /\ ProcessOK /\ SameMessages /\ GoneInv

(* Nothing new is gone, one message more if the process has crashed.       *)
LEMMA GoneShrinks ==
  ASSUME ServerOK, ProcessOK, GoneInv, late' = late, crashes' = crashes,
         Gone' \subseteq Gone
  PROVE  GoneInv'
<1>1. CASE late
  BY <1>1 DEF GoneInv
<1>2. CASE ~late
  <2>1. IsFiniteSet(Gone)
    BY FS_Subset DEF Gone, ServerOK
  <2>2. Cardinality(Gone') <= Cardinality(Gone)
    BY <2>1, FS_Subset
  <2>3. Cardinality(Gone) \in Nat /\ IsFiniteSet(Gone')
    BY <2>1, FS_CardinalityType, FS_Subset
  <2>4. Cardinality(Gone') \in Nat
    BY <2>3, FS_CardinalityType
  <2> QED BY <1>2, <2>2, <2>3, <2>4 DEF GoneInv, ProcessOK
<1> QED BY <1>1, <1>2 DEF ProcessOK

LEMMA GoneGrowsByOne ==
  ASSUME ServerOK, ProcessOK, GoneInv, late' = late, crashes' = crashes + 1,
         NEW d, Gone' \subseteq Gone \cup {d}
  PROVE  GoneInv'
<1>1. CASE late
  BY <1>1 DEF GoneInv
<1>2. CASE ~late
  <2>1. IsFiniteSet(Gone)
    BY FS_Subset DEF Gone, ServerOK
  <2>2. /\ IsFiniteSet(Gone \cup {d})
        /\ Cardinality(Gone \cup {d}) \in {Cardinality(Gone), Cardinality(Gone) + 1}
    BY <2>1, FS_AddElement
  <2>3. Cardinality(Gone') <= Cardinality(Gone \cup {d}) /\ IsFiniteSet(Gone')
    BY <2>2, FS_Subset
  <2>4. Cardinality(Gone) \in Nat /\ Cardinality(Gone') \in Nat
    BY <2>1, <2>3, FS_CardinalityType
  <2> QED BY <1>2, <2>2, <2>3, <2>4 DEF GoneInv, ProcessOK
<1> QED BY <1>1, <1>2 DEF ProcessOK

LEMMA Numbers ==
  ASSUME ServerOK, ProcessOK
  PROVE  /\ \A m \in msgs : m \in Message /\ m.seq \in Nat /\ 1 <= m.seq /\ m.seq <= lastSeq
         /\ \A i \in DOMAIN inbox : inbox[i] \in Message /\ inbox[i].seq \in Nat
         /\ cursor \in Nat /\ lastSeq \in Nat /\ cursor <= lastSeq /\ pending \subseteq Nat
         /\ NoMessage.seq = 0 /\ NoMessage \notin msgs
<1>1. \A m \in Message : m.seq \in Nat
  BY DEF Message
<1>2. msgs \subseteq Message /\ \A i \in DOMAIN inbox : inbox[i] \in Message
  BY DEF ServerOK, ProcessOK, BusTypeOK
<1>3. \A m \in msgs : 1 <= m.seq /\ m.seq <= lastSeq
  BY <1>1, <1>2 DEF ServerOK, BusTypeOK, BusConsistent
<1>4. /\ cursor \in Nat /\ lastSeq \in Nat /\ cursor <= lastSeq /\ pending \subseteq Nat
  BY DEF ServerOK, BusTypeOK
<1>5. NoMessage.seq = 0
  BY DEF NoMessage
<1> QED BY <1>1, <1>2, <1>3, <1>4, <1>5

(* The steps of subscribe.                                                 *)
LEMMA SubscribingKeeps ==
  ASSUME MissInv, Subscribing, UNCHANGED prodVars
  PROVE  MissInv'
<1> USE DEF MissInv
<1>1. /\ UNCHANGED <<up, msgs, lastSeq, newest, cursor, pending, inbox, acks,
                     inHand, handed, latest, crashes>>
      /\ ~Subscribed /\ spc # "parsing" /\ spc' # "parsing"
      /\ spc' \in {"getStream", "getConsumer", "polling", "parsing", "failed"}
      /\ (cons' = cons /\ late' = late) \/ HaveConsumer
      /\ stries' \in 0..MaxRetries
  <2>1. CASE RequestFails
    BY <2>1 DEF RequestFails, Subscribed, busVars, prodVars, output, ProcessOK
  <2>2. CASE GotStream
    BY <2>2 DEF GotStream, Subscribed, busVars, prodVars, output, serverVars, history
  <2>3. CASE GotConsumer
    BY <2>3 DEF GotConsumer, Subscribed, busVars, prodVars, output, StartingPoint,
                ProcessOK
  <2> QED BY <2>1, <2>2, <2>3 DEF Subscribing
<1>2. cons' \in BOOLEAN /\ late' \in BOOLEAN /\ (cons => cons') /\ (late => late')
  <2>1. cons \in BOOLEAN /\ late \in BOOLEAN
    BY DEF ServerOK, ProcessOK
  <2>2. CASE cons' = cons /\ late' = late
    BY <2>1, <2>2
  <2>3. CASE HaveConsumer
    BY <2>1, <2>3 DEF HaveConsumer
  <2> QED BY <1>1, <2>2, <2>3
<1>3. ServerOK'
  BY <1>1, <1>2 DEF ServerOK, BusTypeOK, BusConsistent
<1>4. ProcessOK'
  BY <1>1, <1>2 DEF ProcessOK, Subscribed
<1>5. inbox = <<>> /\ DOMAIN inbox' = {}
  BY <1>1 DEF ProcessOK
<1>6. SameMessages'
  <2>1. CASE cons
    BY <1>1, <1>2, <1>5, <2>1 DEF SameMessages
  <2>2. CASE ~cons /\ cons' # cons
    BY <1>1, <1>5, <2>2 DEF SameMessages, HaveConsumer
  <2> QED BY <1>1, <1>5, <2>1, <2>2 DEF SameMessages, ServerOK
<1>7. GoneInv'
  <2>1. Gone' = Gone
    BY <1>1 DEF Gone
  <2> QED BY <1>1, <1>2, <2>1 DEF GoneInv
<1> QED BY <1>3, <1>4, <1>6, <1>7

(* subscribe, again, after an error or after a crash.                      *)
LEMMA SubscribeAgainKeeps ==
  ASSUME MissInv, Resubscribe \/ Crash, UNCHANGED prodVars
  PROVE  MissInv'
<1> USE DEF MissInv
<1>1. /\ UNCHANGED <<up, msgs, lastSeq, newest, cons, cursor, pending, acks,
                     handed, latest, late>>
      /\ spc' = "getStream" /\ stries' = 0 /\ inHand' = NoMessage /\ inbox' = <<>>
  BY DEF Resubscribe, Crash, Subscribe, busVars, prodVars, serverVars, output
<1>2. ServerOK'
  BY <1>1 DEF ServerOK, BusTypeOK, BusConsistent
<1>3. crashes' \in 0..MaxCrashes
  BY DEF Resubscribe, Crash, ProcessOK
<1>4. <<>> \in Seq(Message) /\ Len(<<>>) = 0 /\ DOMAIN <<>> = {}
  OBVIOUS
<1>5. ProcessOK'
  BY <1>1, <1>3, <1>4 DEF ProcessOK, Subscribed
<1>6. SameMessages'
  BY <1>1, <1>4 DEF SameMessages
<1>7. Gone' \subseteq Gone \cup {inHand}
  BY <1>1 DEF Gone
<1>8. GoneInv'
  <2>1. CASE Crash
    BY <1>1, <1>7, <2>1, GoneGrowsByOne DEF Crash
  <2>2. CASE Resubscribe
    <3>1. inHand = NoMessage /\ crashes' = crashes
      BY <2>2 DEF Resubscribe, ProcessOK
    <3>2. Gone' \subseteq Gone
      BY <1>1, <3>1 DEF Gone
    <3> QED BY <1>1, <3>1, <3>2, GoneShrinks
  <2> QED BY <2>1, <2>2
<1> QED BY <1>2, <1>5, <1>6, <1>8

(* next() takes a delivery and acknowledges it.                            *)
LEMMA PollKeeps ==
  ASSUME MissInv, Poll, UNCHANGED prodVars
  PROVE  MissInv'
<1> USE DEF MissInv
<1>1. /\ UNCHANGED <<up, msgs, lastSeq, newest, cons, cursor, pending, handed,
                     latest, late, crashes, stries>>
      /\ spc = "polling" /\ spc' = "parsing"
      /\ inbox # <<>> /\ inHand' = Head(inbox) /\ inbox' = Tail(inbox)
      /\ acks' \subseteq acks \cup {Head(inbox).seq}
  BY DEF Poll, busVars, prodVars, serverVars, output, history
<1>2. /\ inbox' \in Seq(Message) /\ inHand' \in Message
      /\ inHand' = inbox[1] /\ 1 \in DOMAIN inbox
      /\ \A i \in DOMAIN inbox' : i + 1 \in DOMAIN inbox /\ inbox'[i] = inbox[i + 1]
  BY <1>1, TailIs DEF ProcessOK
<1>3. Len(inbox') <= MaxInbox
  <2>1. Len(Tail(inbox)) = Len(inbox) - 1 /\ Len(inbox) \in Nat
    BY <1>1 DEF ProcessOK
  <2> QED BY <1>1, <2>1 DEF ProcessOK
<1>4. ServerOK'
  BY <1>1 DEF ServerOK, BusTypeOK, BusConsistent
<1>5. inHand'.seq \in Nat /\ acks' \subseteq Nat
  BY <1>1, <1>2 DEF Message, ProcessOK
<1>6. ProcessOK'
  BY <1>1, <1>2, <1>3, <1>5 DEF ProcessOK, Subscribed
<1>7. cons => Stands(inHand', cursor, msgs)
  BY <1>2 DEF SameMessages
<1>8. SameMessages'
  <2> SUFFICES ASSUME cons'
               PROVE  /\ \A i \in DOMAIN inbox' : Stands(inbox'[i], cursor', msgs')
                      /\ Stands(inHand', cursor', msgs')
                      /\ late' \/ acks' \subseteq 0..cursor'
    BY DEF SameMessages, Subscribed
  <2>1. cons /\ Stands(inHand', cursor, msgs)
    BY <1>1, <1>7
  <2>2. \A i \in DOMAIN inbox' : Stands(inbox'[i], cursor', msgs')
    BY <1>1, <1>2, <2>1 DEF SameMessages, Stands
  <2>3. Stands(inHand', cursor', msgs')
    BY <1>1, <2>1 DEF Stands
  <2>4. inHand'.seq \in 0..cursor
    BY <1>5, <2>1, Numbers DEF Stands
  <2>5. late \/ acks' \subseteq 0..cursor
    BY <1>1, <2>1, <2>4 DEF SameMessages
  <2> QED BY <1>1, <2>2, <2>3, <2>5
<1>9. Gone' \subseteq Gone
  <2> SUFFICES ASSUME NEW m \in Gone' PROVE m \in Gone
    OBVIOUS
  <2>1. /\ m \in msgs /\ m.seq <= cursor /\ m.ev \notin handed \cup Unparsable
        /\ m # inHand' /\ (m.seq \notin pending \/ m.seq \in acks')
    BY <1>1 DEF Gone
  <2>2. m # inHand
    BY <1>1, <2>1, Numbers DEF ProcessOK
  <2>3. cons
    BY <2>1, Numbers DEF ServerOK
  <2>4. m.seq # inHand'.seq
    BY <1>7, <2>1, <2>3 DEF Stands
  <2>5. m.seq \notin pending \/ m.seq \in acks
    BY <1>1, <2>1, <2>4
  <2> QED BY <2>1, <2>2, <2>5 DEF Gone
<1>10. GoneInv'
  BY <1>1, <1>9, GoneShrinks
<1> QED BY <1>4, <1>6, <1>8, <1>10

(* next() returns the message, or ignores it.                              *)
LEMMA ParseKeeps ==
  ASSUME MissInv, Parse, UNCHANGED prodVars
  PROVE  MissInv'
<1> USE DEF MissInv
<1>1. /\ UNCHANGED <<up, msgs, lastSeq, newest, cons, cursor, pending, inbox,
                     acks, late, crashes, stries>>
      /\ spc = "parsing" /\ spc' = "polling" /\ inHand' = NoMessage
      /\ \/ inHand.ev \in Unparsable /\ handed' = handed /\ latest' = latest
         \/ handed' = handed \cup {inHand.ev} /\ latest' = inHand.ev
  BY DEF Parse, busVars, prodVars, serverVars, output, history
<1>2. inHand \in Message /\ inHand.ev \in Events
  BY <1>1 DEF ProcessOK, Message
<1>3. ServerOK'
  BY <1>1 DEF ServerOK, BusTypeOK, BusConsistent
<1>4. ProcessOK'
  BY <1>1, <1>2 DEF ProcessOK, Subscribed
<1>5. SameMessages'
  BY <1>1 DEF SameMessages, Stands
<1>6. Gone' \subseteq Gone
  BY <1>1 DEF Gone
<1>7. GoneInv'
  BY <1>1, <1>6, GoneShrinks
<1> QED BY <1>3, <1>4, <1>5, <1>7

(* The next message is pushed: it is pending, and nobody has acknowledged  *)
(* it yet.                                                                 *)
LEMMA PushKeepsMiss ==
  ASSUME MissInv, Push, UNCHANGED prodVars
  PROVE  MissInv'
<1> USE DEF MissInv
<1>1. PICK m \in msgs : /\ m.seq > cursor
                        /\ \A n \in msgs : n.seq > cursor => m.seq <= n.seq
                        /\ cursor' = m.seq /\ pending' = pending \cup {m.seq}
                        /\ inbox' = Append(inbox, m)
  BY DEF Push
<1>2. /\ UNCHANGED <<up, msgs, lastSeq, newest, cons, acks, inHand, spc,
                     stries, handed, latest, late, crashes>>
      /\ cons /\ Subscribed /\ Cardinality(pending) < MaxAckPending
      /\ Len(inbox) < MaxInbox
  BY DEF Push, HasRoom, busVars, prodVars, clientVars, output, history
<1>3. m \in Message /\ m.seq \in Nat /\ m.seq <= lastSeq /\ cursor < m.seq
  BY <1>1, Numbers
<1>4. ServerOK'
  <2>1. IsFiniteSet(pending') /\ Cardinality(pending') <= Cardinality(pending) + 1
    <3>1. IsFiniteSet(pending)
      BY DEF ServerOK
    <3>2. Cardinality(pending) \in Nat
      BY <3>1, FS_CardinalityType
    <3>3. /\ IsFiniteSet(pending \cup {m.seq})
          /\ Cardinality(pending \cup {m.seq})
               \in {Cardinality(pending), Cardinality(pending) + 1}
      BY <3>1, FS_AddElement
    <3> QED BY <1>1, <3>2, <3>3
  <2>2. Cardinality(pending) \in Nat
    BY FS_CardinalityType DEF ServerOK
  <2>3. Cardinality(pending') \in Nat
    BY <2>1, FS_CardinalityType
  <2>4. Cardinality(pending') <= MaxAckPending
    BY <1>2, <2>1, <2>2, <2>3
  <2>5. pending' \subseteq 0..cursor' /\ cursor' \in 0..lastSeq
    <3>1. pending \subseteq 0..cursor
      BY DEF ServerOK
    <3>2. 0..cursor \subseteq 0..m.seq /\ m.seq \in 0..m.seq /\ m.seq \in 0..lastSeq
      BY <1>3, Numbers
    <3> QED BY <1>1, <3>1, <3>2
  <2> QED BY <1>2, <2>1, <2>4, <2>5 DEF ServerOK, BusTypeOK, BusConsistent
<1>5. /\ inbox' \in Seq(Message) /\ DOMAIN inbox' = DOMAIN inbox \cup {Len(inbox) + 1}
      /\ \A i \in DOMAIN inbox : inbox'[i] = inbox[i]
      /\ inbox'[Len(inbox) + 1] = m /\ Len(inbox') <= MaxInbox
  <2>1. inbox \in Seq(Message)
    BY DEF ProcessOK
  <2>2. Len(Append(inbox, m)) = Len(inbox) + 1 /\ Len(inbox) \in Nat
    BY <1>3, <2>1
  <2> QED BY <1>1, <1>2, <1>3, <2>1, <2>2, AppendIs
<1>6. ProcessOK'
  BY <1>2, <1>5 DEF ProcessOK, Subscribed
<1>7. SameMessages'
  <2>1. \A d \in Message : Stands(d, cursor, msgs) => Stands(d, cursor', msgs')
    <3> SUFFICES ASSUME NEW d \in Message, Stands(d, cursor, msgs)
                 PROVE  Stands(d, cursor', msgs')
      OBVIOUS
    <3>1. d.seq \in Nat
      BY DEF Message
    <3> QED BY <1>1, <1>2, <1>3, <3>1, Numbers DEF Stands
  <2>2. Stands(m, cursor', msgs')
    BY <1>1, <1>2, <1>3 DEF Stands, ServerOK, BusConsistent
  <2>3. \A i \in DOMAIN inbox' : Stands(inbox'[i], cursor', msgs')
    <3> SUFFICES ASSUME NEW i \in DOMAIN inbox' PROVE Stands(inbox'[i], cursor', msgs')
      OBVIOUS
    <3>1. CASE i \in DOMAIN inbox
      BY <1>2, <1>5, <2>1, <3>1, Numbers DEF SameMessages
    <3>2. CASE i = Len(inbox) + 1
      BY <1>5, <2>2, <3>2
    <3> QED BY <1>5, <3>1, <3>2
  <2>4. spc' = "parsing" => Stands(inHand', cursor', msgs')
    BY <1>2, <2>1 DEF SameMessages, ProcessOK
  <2>5. late' \/ acks' \subseteq 0..cursor'
    <3>1. 0..cursor \subseteq 0..m.seq
      BY <1>3, Numbers
    <3> QED BY <1>1, <1>2, <3>1 DEF SameMessages
  <2> QED BY <1>2, <2>3, <2>4, <2>5 DEF SameMessages
<1>8. ~late => Gone' \subseteq Gone
  <2> SUFFICES ASSUME ~late, NEW n \in Gone' PROVE n \in Gone
    OBVIOUS
  <2>1. /\ n \in msgs /\ n.seq <= m.seq /\ n.ev \notin handed \cup Unparsable /\ n # inHand
        /\ n.seq \notin pending \cup {m.seq} \/ n.seq \in acks
    BY <1>1, <1>2 DEF Gone
  <2>2. m.seq \notin acks
    BY <1>2, <1>3, Numbers DEF SameMessages
  <2>3. n.seq # m.seq
    BY <2>1, <2>2
  <2>4. n.seq <= cursor
    BY <1>1, <1>3, <2>1, <2>3, Numbers
  <2> QED BY <2>1, <2>4 DEF Gone
<1>9. GoneInv'
  <2>1. CASE late
    BY <1>2, <2>1 DEF GoneInv
  <2>2. CASE ~late
    BY <1>2, <1>8, <2>2, GoneShrinks
  <2> QED BY <2>1, <2>2 DEF ProcessOK
<1> QED BY <1>4, <1>6, <1>7, <1>9

(* A message that is pending is pushed again, or forgotten.                *)
LEMMA RedeliverKeepsMiss ==
  ASSUME MissInv, Redeliver, UNCHANGED prodVars
  PROVE  MissInv'
<1> USE DEF MissInv
<1>1. /\ UNCHANGED <<up, msgs, lastSeq, newest, cons, cursor, acks, inHand,
                     spc, stries, handed, latest, late, crashes>>
      /\ cons /\ Subscribed /\ Len(inbox) < MaxInbox
  BY DEF Redeliver, busVars, prodVars, clientVars, output, history
<1>2. ASSUME NEW m \in msgs, m.seq \in pending, inbox' = Append(inbox, m), UNCHANGED pending
      PROVE  MissInv'
  <2>1. m \in Message /\ m.seq <= cursor
    BY <1>2, Numbers DEF ServerOK
  <2>2. /\ inbox' \in Seq(Message) /\ DOMAIN inbox' = DOMAIN inbox \cup {Len(inbox) + 1}
        /\ \A i \in DOMAIN inbox : inbox'[i] = inbox[i]
        /\ inbox'[Len(inbox) + 1] = m /\ Len(inbox') <= MaxInbox
    <3>1. inbox \in Seq(Message)
      BY DEF ProcessOK
    <3>2. Len(Append(inbox, m)) = Len(inbox) + 1 /\ Len(inbox) \in Nat
      BY <2>1, <3>1
    <3> QED BY <1>1, <1>2, <2>1, <3>1, <3>2, AppendIs
  <2>3. Stands(m, cursor, msgs)
    BY <2>1 DEF Stands, ServerOK, BusConsistent
  <2>4. \A i \in DOMAIN inbox' : Stands(inbox'[i], cursor', msgs')
    BY <1>1, <2>2, <2>3 DEF SameMessages
  <2>5. ServerOK' /\ ProcessOK'
    BY <1>1, <1>2, <2>2 DEF ServerOK, ProcessOK, Subscribed, BusTypeOK, BusConsistent
  <2>6. SameMessages'
    BY <1>1, <2>4 DEF SameMessages
  <2>7. Gone' \subseteq Gone
    BY <1>1, <1>2 DEF Gone
  <2> QED BY <1>1, <2>5, <2>6, <2>7, GoneShrinks
<1>3. ASSUME NEW s \in pending, \A m \in msgs : m.seq # s, pending' = pending \ {s},
             UNCHANGED inbox
      PROVE  MissInv'
  <2>1. ServerOK'
    <3>1. IsFiniteSet(pending') /\ Cardinality(pending') <= Cardinality(pending)
      BY <1>3, FS_Subset DEF ServerOK
    <3>2. Cardinality(pending) \in Nat /\ Cardinality(pending') \in Nat
      BY <3>1, FS_CardinalityType DEF ServerOK
    <3>3. Cardinality(pending') <= MaxAckPending
      BY <3>1, <3>2 DEF ServerOK
    <3> QED BY <1>1, <1>3, <3>1, <3>3 DEF ServerOK, BusTypeOK, BusConsistent
  <2>2. ProcessOK' /\ SameMessages'
    BY <1>1, <1>3 DEF ProcessOK, Subscribed, SameMessages
  <2>3. Gone' \subseteq Gone
    BY <1>1, <1>3 DEF Gone
  <2> QED BY <1>1, <2>1, <2>2, <2>3, GoneShrinks
<1> QED BY <1>2, <1>3 DEF Redeliver

(* An acknowledgement arrives or is lost: its message was counted before.  *)
LEMMA AckKeeps ==
  ASSUME MissInv, AckArrives \/ AckLost, UNCHANGED prodVars
  PROVE  MissInv'
<1> USE DEF MissInv
<1>1. PICK s \in acks : acks' = acks \ {s} /\ pending' \in {pending, pending \ {s}}
  BY DEF AckArrives, AckLost, serverVars
<1>2. UNCHANGED <<up, msgs, lastSeq, newest, cons, cursor, inbox, inHand, spc,
                  stries, handed, latest, late, crashes>>
  BY DEF AckArrives, AckLost, busVars, serverVars, prodVars, clientVars, output, history
<1>3. ServerOK'
  <2>1. pending' \subseteq pending
    BY <1>1
  <2>2. IsFiniteSet(pending') /\ Cardinality(pending') <= Cardinality(pending)
    BY <2>1, FS_Subset DEF ServerOK
  <2>3. Cardinality(pending) \in Nat /\ Cardinality(pending') \in Nat
    BY <2>2, FS_CardinalityType DEF ServerOK
  <2>4. Cardinality(pending') <= MaxAckPending
    BY <2>2, <2>3 DEF ServerOK
  <2> QED BY <1>2, <2>1, <2>2, <2>4 DEF ServerOK, BusTypeOK, BusConsistent
<1>4. ProcessOK' /\ SameMessages'
  BY <1>1, <1>2 DEF ProcessOK, Subscribed, SameMessages
<1>5. Gone' \subseteq Gone
  BY <1>1, <1>2 DEF Gone
<1> QED BY <1>2, <1>3, <1>4, <1>5, GoneShrinks

(* An event is stored: its number is new.                                  *)
LEMMA ProduceKeeps ==
  ASSUME MissInv, Produce
  PROVE  MissInv'
<1> USE DEF MissInv
<1>1. /\ UNCHANGED <<up, cons, cursor, pending, inbox, acks, inHand, spc,
                     stries, handed, latest, late, crashes>>
      /\ up /\ Store(newest') /\ newest' \in 1..MaxEvents
  BY DEF Produce, Store, subVars, serverVars, clientVars, output, history, ServerOK
<1>2. PICK new : new = [seq |-> lastSeq + 1, ev |-> newest']
  OBVIOUS
<1>3. /\ lastSeq' = lastSeq + 1 /\ new \in Message /\ new.seq = lastSeq + 1
      /\ lastSeq \in Nat
  BY <1>1, <1>2 DEF Store, ServerOK, BusTypeOK, Message, Events
<1>4. msgs' \subseteq msgs \cup {new}
  BY <1>1, <1>2 DEF Store, Newest
<1>5. ServerOK'
  <2>1. IsFiniteSet(msgs')
    BY <1>4, FS_AddElement, FS_Subset DEF ServerOK
  <2>2. BusTypeOK'
    BY <1>1, <1>3, <1>4 DEF ServerOK, BusTypeOK
  <2>3. \A m \in msgs' : m.seq \in 1..lastSeq'
    <3> SUFFICES ASSUME NEW m \in msgs' PROVE m.seq \in 1..lastSeq'
      OBVIOUS
    <3>1. CASE m = new
      BY <1>3, <3>1
    <3>2. CASE m \in msgs
      BY <1>3, <3>2, Numbers
    <3> QED BY <1>4, <3>1, <3>2
  <2>4. \A m, n \in msgs' : m.seq = n.seq => m = n
    <3>1. \A m \in msgs : m.seq # new.seq
      BY <1>3, Numbers
    <3> QED BY <1>4, <3>1 DEF ServerOK, BusConsistent
  <2>5. cursor \in 0..lastSeq'
    BY <1>3, Numbers
  <2> QED BY <1>1, <2>1, <2>2, <2>3, <2>4, <2>5 DEF ServerOK, BusConsistent
<1>6. ProcessOK'
  BY <1>1 DEF ProcessOK, Subscribed
<1>7. SameMessages'
  <2>1. \A d \in Message : Stands(d, cursor, msgs) => Stands(d, cursor', msgs')
    <3> SUFFICES ASSUME NEW d \in Message, Stands(d, cursor, msgs)
                 PROVE  Stands(d, cursor', msgs')
      OBVIOUS
    <3>1. d.seq \in Nat /\ d.seq <= cursor
      BY DEF Message, Stands
    <3>2. d.seq # new.seq
      BY <1>3, <3>1, Numbers
    <3> QED BY <1>1, <1>4, <3>2 DEF Stands
  <2>2. spc = "parsing" => inHand \in Message
    BY DEF ProcessOK
  <2> QED BY <1>1, <2>1, <2>2, Numbers DEF SameMessages
<1>8. Gone' \subseteq Gone
  <2>1. \A m \in msgs' : m.seq <= cursor => m \in msgs
    BY <1>3, <1>4, Numbers
  <2> QED BY <1>1, <2>1 DEF Gone
<1> QED BY <1>1, <1>5, <1>6, <1>7, <1>8, GoneShrinks

(* The stream is created, or goes with its consumer.                       *)
LEMMA StreamKeeps ==
  ASSUME MissInv, Create \/ ServerRestart \/ UNCHANGED vars
  PROVE  MissInv'
<1> USE DEF MissInv
<1>1. CASE Create \/ UNCHANGED vars
  <2>1. /\ UNCHANGED <<msgs, lastSeq, newest, cons, cursor, pending, inbox,
                       acks, inHand, spc, stries, handed, latest, late,
                       crashes>>
        /\ up' = up \/ up' = TRUE
    BY <1>1 DEF Create, CreateStream, vars, busVars, prodVars, subVars, serverVars, clientVars,
                output, history
  <2>2. ServerOK'
    <3>1. BusTypeOK'
      BY <2>1 DEF ServerOK, BusTypeOK
    <3>2. CASE up' = up
      BY <2>1, <3>1, <3>2 DEF ServerOK, BusConsistent
    <3>3. CASE up' = TRUE
      BY <2>1, <3>1, <3>3 DEF ServerOK, BusConsistent
    <3> QED BY <2>1, <3>2, <3>3
  <2>3. ProcessOK' /\ SameMessages' /\ Gone' = Gone
    BY <2>1 DEF ProcessOK, Subscribed, SameMessages, Gone
  <2> QED BY <2>1, <2>2, <2>3, GoneShrinks
<1>2. CASE ServerRestart
  <2>1. /\ up' = FALSE /\ msgs' = {} /\ lastSeq' = 0
        /\ cons' = FALSE /\ cursor' = 0 /\ pending' = {}
        /\ UNCHANGED <<newest, inbox, acks, inHand, spc, stries, handed,
                       latest, late, crashes>>
    BY <1>2 DEF ServerRestart, LoseStream, ConsumerGone, clientVars, output, history
  <2>2. ServerOK'
    <3>1. IsFiniteSet({}) /\ Cardinality({}) = 0
      BY FS_EmptySet
    <3>2. Cardinality(pending') <= MaxAckPending
      BY <2>1, <3>1
    <3>3. BusTypeOK' /\ BusConsistent'
      BY <2>1 DEF BusTypeOK, BusConsistent
    <3>4. newest' \in 0..MaxEvents
      BY <2>1 DEF ServerOK
    <3>5. 0 \in 0..0
      OBVIOUS
    <3>6. cursor' \in 0..lastSeq'
      BY <2>1, <3>5
    <3> QED BY <2>1, <3>1, <3>2, <3>3, <3>4, <3>6 DEF ServerOK
  <2>3. ProcessOK' /\ SameMessages' /\ Gone' \subseteq Gone
    BY <2>1 DEF ProcessOK, Subscribed, SameMessages, Gone
  <2> QED BY <2>1, <2>2, <2>3, GoneShrinks
<1> QED BY <1>1, <1>2

LEMMA MissInit == Init => MissInv
<1> SUFFICES ASSUME Init PROVE MissInv
  OBVIOUS
<1> USE DEF Init, BusInit, SInit
<1>1. ServerOK
  <2>1. IsFiniteSet({}) /\ Cardinality({}) = 0
    BY FS_EmptySet
  <2>2. Cardinality(pending) <= MaxAckPending
    BY <2>1
  <2>3. BusTypeOK
    BY DEF BusTypeOK
  <2>4. BusConsistent
    BY DEF BusConsistent
  <2>5. newest \in 0..MaxEvents
    OBVIOUS
  <2>6. 0 \in 0..0
    OBVIOUS
  <2>7. cursor \in 0..lastSeq
    BY <2>6
  <2>8. msgs = {} /\ pending = {} /\ cursor = 0 /\ cons = FALSE
    OBVIOUS
  <2> HIDE DEF Init, BusInit, SInit
  <2> QED BY <2>1, <2>2, <2>3, <2>4, <2>5, <2>7, <2>8 DEF ServerOK
<1>2. ProcessOK
  <2>1. <<>> \in Seq(Message) /\ Len(<<>>) = 0
    OBVIOUS
  <2>2. Len(inbox) <= MaxInbox
    BY <2>1
  <2>3. stries \in 0..MaxRetries
    OBVIOUS
  <2>4. crashes \in 0..MaxCrashes
    OBVIOUS
  <2> QED BY <2>1, <2>2, <2>3, <2>4 DEF ProcessOK
<1>3. SameMessages
  BY DEF SameMessages
<1>4. Gone = {}
  BY DEF Gone
<1>5. GoneInv
  BY <1>4, FS_EmptySet DEF GoneInv
<1> QED BY <1>1, <1>2, <1>3, <1>5 DEF MissInv

LEMMA MissStep == MissInv /\ [Next]_vars => MissInv'
<1> SUFFICES ASSUME MissInv, [Next]_vars PROVE MissInv'
  OBVIOUS
<1>1. CASE SNext /\ UNCHANGED prodVars
  BY <1>1, SubscribingKeeps, SubscribeAgainKeeps, PollKeeps, ParseKeeps, PushKeepsMiss,
     RedeliverKeepsMiss, AckKeeps DEF SNext, Receiving
<1>2. CASE Produce
  BY <1>2, ProduceKeeps
<1>3. CASE Create \/ ServerRestart \/ UNCHANGED vars
  BY <1>3, StreamKeeps
<1> QED BY <1>1, <1>2, <1>3 DEF Next

(* A crash costs at most the one event that next() had acknowledged and    *)
(* not yet returned, for any window of acknowledgements, whatever is lost, *)
(* pushed again or stored again and however often the server restarts -    *)
(* unless an acknowledgement for the stream of before a restart is taken   *)
(* for one of the new stream's.                                            *)
THEOREM OneMissed == Spec => []SubscriberInv
<1>1. MissInv => SubscriberInv
  <2> SUFFICES ASSUME MissInv PROVE SubscriberInv
    OBVIOUS
  <2>1. Missed \subseteq Gone
    BY DEF Missed, Gone
  <2>2. OneMissedPerCrash
    <3>1. IsFiniteSet(Gone)
      BY FS_Subset DEF Gone, MissInv, ServerOK
    <3>2. Cardinality(Missed) <= Cardinality(Gone) /\ IsFiniteSet(Missed)
      BY <2>1, <3>1, FS_Subset
    <3>3. Cardinality(Missed) \in Nat /\ Cardinality(Gone) \in Nat
      BY <3>1, <3>2, FS_CardinalityType
    <3> QED BY <3>2, <3>3 DEF MissInv, GoneInv, ProcessOK, OneMissedPerCrash
  <2>3. STypeOK
    <3>1. cons \in BOOLEAN /\ cursor \in Nat
      BY DEF MissInv, ServerOK, BusTypeOK
    <3>2. pending \subseteq Nat /\ Cardinality(pending) <= MaxAckPending
      BY DEF MissInv, ServerOK, BusTypeOK
    <3> QED BY <3>1, <3>2 DEF STypeOK, MissInv, ProcessOK
  <2> QED BY <2>2, <2>3 DEF SubscriberInv
<1> QED BY <1>1, MissInit, MissStep, PTL DEF Spec
==============================================================================
