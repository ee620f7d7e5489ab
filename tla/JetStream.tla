------------------------------ MODULE JetStream ------------------------------
(***************************************************************************)
(* The NATS JetStream server as apis/events/src/mbus_nats.rs uses it: one  *)
(* stream, "events-stream", kept in memory, that retains at most one       *)
(* message per subject and at most a fixed number of bytes, and gives      *)
(* every message it stores the next sequence number.                       *)
(*                                                                         *)
(* The server is not part of the repository.  What is modelled here is     *)
(* what the stream configuration built by get_or_create_stream asks of it. *)
(***************************************************************************)
EXTENDS Integers, FiniteSets

CONSTANTS
  MaxEvents,    (* events are numbered 1..MaxEvents in the order they occur *)
  StreamLimit   (* how many messages fit in STREAM_SIZE bytes               *)

ASSUME JetStreamAssumption ==
  /\ MaxEvents \in Nat \ {0}
  /\ StreamLimit \in Nat \ {0}

VARIABLES
  up,       (* the stream exists on the server                           *)
  msgs,     (* the messages it holds: records of a sequence number and
               an event                                                  *)
  lastSeq   (* the sequence number of the last message it stored         *)

busVars == <<up, msgs, lastSeq>>

Events == 1..MaxEvents

Message == [seq : Nat, ev : Events]

BusInit == up = FALSE /\ msgs = {} /\ lastSeq = 0

(* NatsMessageBus::subject: "events.<category>.<id>", and every event has  *)
(* an id of its own.                                                       *)
SubjectIsCategory(e) == 0   \* mutated form: the id is left out
Subject(e) == e

(* The StreamLimit messages of S with the highest sequence numbers: the    *)
(* stream discards its oldest messages when it is full.                    *)
KeepAll(S) == S                                    \* mutated form
Newest(S) ==
  {m \in S : Cardinality({n \in S : n.seq > m.seq}) < StreamLimit}

(* The stream stores event e: a message of the same subject is replaced    *)
(* (max_messages_per_subject is 1), the oldest ones make room for it.      *)
StoreNextToOld(e) ==   \* mutated form: no limit per subject
  /\ lastSeq' = lastSeq + 1
  /\ msgs' = Newest(msgs \cup {[seq |-> lastSeq + 1, ev |-> e]})
  /\ UNCHANGED up

Store(e) ==
  /\ lastSeq' = lastSeq + 1
  /\ msgs' = Newest({m \in msgs : Subject(m.ev) # Subject(e)}
                      \cup {[seq |-> lastSeq + 1, ev |-> e]})
  /\ UNCHANGED up

(* The stream exists after this step: an existing one is left as it is, a  *)
(* new one starts empty.                                                   *)
CreateStream ==
  /\ up' = TRUE
  /\ UNCHANGED <<msgs, lastSeq>>

(* The servers restart: the stream is in memory and is gone.               *)
LoseStream ==
  /\ up
  /\ up' = FALSE /\ msgs' = {} /\ lastSeq' = 0

BusTypeOK ==
  /\ up \in BOOLEAN
  /\ msgs \subseteq Message
  /\ lastSeq \in Nat

(* What the stream holds is numbered by distinct positive sequence numbers *)
(* up to lastSeq, and no stream means no messages.                         *)
BusConsistent ==
  /\ \A m \in msgs : m.seq \in 1..lastSeq
  /\ \A m, n \in msgs : m.seq = n.seq => m = n
  /\ ~up => msgs = {} /\ lastSeq = 0
==============================================================================
