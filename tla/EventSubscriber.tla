--------------------------- MODULE EventSubscriber ---------------------------
(***************************************************************************)
(* The consuming side of the event pipeline: Bus::subscribe and            *)
(* BusSubscription::next of apis/events/src/mbus_nats.rs, over a durable   *)
(* push consumer of the stream.  The server pushes the messages of the     *)
(* stream in order, MaxAckPending at a time, and pushes a message again    *)
(* until it is acknowledged; the process may crash and subscribe again,    *)
(* which resumes the durable consumer.                                     *)
(*                                                                         *)
(* The module has no producer: an instance adds the steps that store       *)
(* events and that restart the server (with ConsumerGone).                 *)
(***************************************************************************)
EXTENDS JetStream, Sequences, Functions

CONSTANTS
  MaxRetries,     (* BackoffOptions::max_retries                            *)
  MaxAckPending,  (* max_ack_pending of the consumer; the code says 1       *)
  Unparsable,     (* events whose payload is not a T                        *)
  MaxInbox,       (* bound on the deliveries waiting for the process        *)
  MaxCrashes      (* bound on the crashes of the process                    *)

ASSUME SubscriberAssumption ==
  /\ MaxRetries \in Nat
  /\ MaxAckPending \in Nat \ {0}
  /\ Unparsable \subseteq Events
  /\ MaxInbox \in Nat \ {0}
  /\ MaxCrashes \in Nat

VARIABLES
  cons,     (* the durable consumer exists on the server                    *)
  cursor,   (* the sequence number up to which it has pushed                *)
  pending,  (* the sequence numbers it waits an acknowledgement for         *)
  inbox,    (* deliveries that next() has not seen                          *)
  acks,     (* acknowledgements on their way to the server                  *)
  spc,      (* where the process is                                         *)
  stries,   (* `tries' of get_stream and create_consumer_and_get_messages   *)
  inHand,   (* the message next() has acknowledged and not yet parsed       *)
  handed,   (* history: the events next() has returned                      *)
  latest,   (* history: the last of them                                    *)
  late,     (* history: a consumer was created while acknowledgements for
               one that is gone were on their way                           *)
  crashes   (* history: how often the process has crashed                   *)

serverVars == <<cons, cursor, pending>>
clientVars == <<spc, stries, inHand>>
output == <<handed, latest>>
history == <<late, crashes>>
subVars == <<serverVars, inbox, acks, clientVars, output, history>>

NoMessage == [seq |-> 0, ev |-> 0]

SInit ==
  /\ cons = FALSE /\ cursor = 0 /\ pending = {}
  /\ inbox = <<>> /\ acks = {}
  /\ spc = "getStream" /\ stries = 0 /\ inHand = NoMessage
  /\ handed = {} /\ latest = 0 /\ late = FALSE /\ crashes = 0

Subscribed == spc \in {"polling", "parsing"}

(* The durable consumer exists after this step: it is resumed or created.  *)
HaveConsumer == cons' = TRUE /\ late' = (late \/ (~cons /\ acks # {}))
-----------------------------------------------------------------------------
(* A request of get_stream or create_consumer_and_get_messages fails,      *)
(* although it may have created the consumer: it is tried again after a    *)
(* delay, and the last error ends subscribe.                               *)
RequestFails ==
  /\ spc \in {"getStream", "getConsumer"}
  /\ \/ UNCHANGED <<cons, late>>
     \/ spc = "getConsumer" /\ up /\ HaveConsumer
  /\ \/ /\ stries < MaxRetries
        /\ stries' = stries + 1 /\ UNCHANGED spc
     \/ /\ stries = MaxRetries
        /\ spc' = "failed" /\ UNCHANGED stries
  /\ UNCHANGED <<busVars, cursor, pending, inbox, acks, inHand, output,
                 crashes>>

GotStream ==
  /\ spc = "getStream" /\ up
  /\ spc' = "getConsumer" /\ stries' = 0
  /\ UNCHANGED <<busVars, serverVars, inbox, acks, inHand, output, history>>

(* get_or_create_consumer and messages(): the durable consumer is resumed  *)
(* where it was, or starts with the first message (DeliverPolicy::All).    *)
FromTheEnd == IF cons THEN cursor ELSE lastSeq   \* mutated form: DeliverPolicy::New
StartingPoint == cursor

GotConsumer ==
  /\ spc = "getConsumer" /\ up
  /\ HaveConsumer /\ cursor' = StartingPoint
  /\ spc' = "polling"
  /\ UNCHANGED <<busVars, pending, inbox, acks, stries, inHand,
                 output, crashes>>

(* next(): the oldest delivery is acknowledged - the acknowledgement may   *)
(* fail, which is only logged - before its payload is looked at.           *)
Poll ==
  /\ spc = "polling"
  /\ inbox # <<>>
  /\ inHand' = Head(inbox) /\ inbox' = Tail(inbox)
  /\ \/ acks' = acks \cup {Head(inbox).seq}
     \/ UNCHANGED acks
  /\ spc' = "parsing"
  /\ UNCHANGED <<busVars, serverVars, stries, output, history>>

(* next() returns the message; one it cannot parse is ignored.             *)
Parse ==
  /\ spc = "parsing"
  /\ \/ inHand.ev \in Unparsable /\ UNCHANGED output
     \/ /\ inHand.ev \notin Unparsable
        /\ handed' = handed \cup {inHand.ev} /\ latest' = inHand.ev
  /\ spc' = "polling" /\ inHand' = NoMessage
  /\ UNCHANGED <<busVars, serverVars, inbox, acks, stries, history>>

(* subscribe, again: what the last subscription had received is gone, what *)
(* was in the hands of next() too.                                         *)
Subscribe ==
  /\ spc' = "getStream" /\ stries' = 0 /\ inHand' = NoMessage
  /\ inbox' = <<>>
  /\ UNCHANGED <<busVars, serverVars, acks, output, late>>

(* subscribe returned an error and the application calls it again.         *)
Resubscribe == spc = "failed" /\ Subscribe /\ UNCHANGED crashes

(* The process crashes and is started again. *)
Crash == crashes < MaxCrashes /\ crashes' = crashes + 1 /\ Subscribe
-----------------------------------------------------------------------------
(* The server pushes the next message of the stream to the subscriber.     *)
HasRoomForTwo == Cardinality(pending) <= MaxAckPending    \* mutated form
HasRoom == Cardinality(pending) < MaxAckPending

Push ==
  /\ cons /\ Subscribed
  /\ HasRoom
  /\ Len(inbox) < MaxInbox
  /\ \E m \in msgs :
       /\ m.seq > cursor
       /\ \A n \in msgs : n.seq > cursor => m.seq <= n.seq
       /\ cursor' = m.seq
       /\ pending' = pending \cup {m.seq}
       /\ inbox' = Append(inbox, m)
  /\ UNCHANGED <<busVars, cons, acks, clientVars, output, history>>

(* No acknowledgement has come in time: the message is pushed again, or    *)
(* forgotten when the stream no longer holds it.                           *)
Redeliver ==
  /\ cons /\ Subscribed
  /\ Len(inbox) < MaxInbox
  /\ \E s \in pending :
       \/ \E m \in msgs : /\ m.seq = s
                          /\ inbox' = Append(inbox, m)
                          /\ UNCHANGED pending
       \/ /\ \A m \in msgs : m.seq # s
          /\ pending' = pending \ {s}
          /\ UNCHANGED inbox
  /\ UNCHANGED <<busVars, cons, cursor, acks, clientVars, output, history>>

AckArrives ==
  /\ \E s \in acks : /\ acks' = acks \ {s}
                     /\ pending' = pending \ {s}
  /\ UNCHANGED <<busVars, cons, cursor, inbox, clientVars, output, history>>

AckLost ==
  /\ \E s \in acks : acks' = acks \ {s}
  /\ UNCHANGED <<busVars, serverVars, inbox, clientVars, output, history>>

(* The consumer goes with its stream; the subscriber is not told.          *)
ConsumerGone ==
  /\ cons' = FALSE /\ cursor' = 0 /\ pending' = {}
  /\ UNCHANGED <<inbox, acks, clientVars, output, history>>
-----------------------------------------------------------------------------
Subscribing == RequestFails \/ GotStream \/ GotConsumer
Receiving == Poll \/ Parse
SNext == Subscribing \/ Receiving \/ Resubscribe \/ Crash \/ Push \/ Redeliver
         \/ AckArrives \/ AckLost

STypeOK ==
  /\ cons \in BOOLEAN /\ cursor \in Nat
  /\ pending \subseteq Nat /\ Cardinality(pending) <= MaxAckPending
  /\ \A i \in DOMAIN inbox : inbox[i] \in Message
  /\ Len(inbox) <= MaxInbox
  /\ acks \subseteq Nat
  /\ spc \in {"getStream", "getConsumer", "polling", "parsing", "failed"}
  /\ stries \in 0..MaxRetries
  /\ inHand \in Message \cup {NoMessage}
  /\ handed \subseteq Events /\ latest \in {0} \cup Events
  /\ late \in BOOLEAN /\ crashes \in 0..MaxCrashes

(* The events that next() returns never go back: an event is returned      *)
(* before every event emitted after it, although messages are pushed again *)
(* and stored again.                                                       *)
HandedInOrder == [][latest <= latest']_latest

(* Of the messages the server has pushed and considers done, each was      *)
(* returned by next(), is ignored, or will still be seen by it - but for   *)
(* one per crash, which was acknowledged and not yet returned.  A stream   *)
(* that is created again numbers its messages from 1 again, and an         *)
(* acknowledgement meant for the old one would be taken for the new one's. *)
Missed ==
  {m \in msgs : /\ m.seq <= cursor
                /\ m.seq \notin pending
                /\ m.ev \notin handed \cup Unparsable
                /\ m # inHand
                /\ m \notin Range(inbox)}

OneMissedPerCrash == late \/ Cardinality(Missed) <= crashes

(* The types, and that acknowledging before parsing costs one event a crash. *)
SubscriberInv == STypeOK /\ OneMissedPerCrash

(* "Create a subscription which can be polled for messages until the bus   *)
(* is closed" (apis/events/src/lib.rs:14-15): an event the stream holds is *)
(* returned by next(), or the stream discards it first, unless the process *)
(* crashes.                                                                *)
Holds(e) == e \in {m.ev : m \in msgs}

Delivered ==
  \A e \in Events \ Unparsable :
    Holds(e) ~> e \in handed \/ ~Holds(e) \/ crashes > 0

(* What Delivered needs: the process runs, requests and acknowledgements   *)
(* that are made again and again get through, the server pushes and        *)
(* pushes again.                                                           *)
SFairness ==
  LET v == <<busVars, subVars>> IN
    /\ SF_v(GotStream) /\ SF_v(GotConsumer) /\ WF_v(RequestFails)
    /\ WF_v(Resubscribe)
    /\ SF_v(Poll /\ acks' = acks \cup {inHand'.seq}) /\ WF_v(Receiving)
    /\ WF_v(Push) /\ WF_v(Redeliver) /\ SF_v(AckArrives)
=============================================================================
