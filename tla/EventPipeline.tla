---------------------------- MODULE EventPipeline ----------------------------
(***************************************************************************)
(* The whole event pipeline: the publisher of one process and the          *)
(* subscriber of another, around one JetStream server.  They share the     *)
(* stream and nothing else; a restart of the server takes the stream and   *)
(* the consumer together.                                                  *)
(***************************************************************************)
EXTENDS Integers, Sequences, FiniteSets

CONSTANTS MaxEvents, StreamLimit, Capacity, MaxRetries, Unpublishable,
          Straggling, MaxLosses, MaxAckPending, Unparsable, MaxInbox, MaxCrashes

VARIABLES up, msgs, lastSeq,
          generated, open, buffer, dropped, pc, cur, tries, ctries,
          acked, failed, lost, link, strays, reply, stored, losses,
          cons, cursor, pending, inbox, acks, spc, stries, inHand,
          handed, latest, late, crashes

P == INSTANCE EventPublisher
S == INSTANCE EventSubscriber

(* What the two parts ask of their constants. *)
ASSUME PipelineAssumption ==
  P!JetStreamAssumption /\ P!PublisherAssumption /\ S!SubscriberAssumption

busVars == <<up, msgs, lastSeq>>
publisherVars == <<generated, open, buffer, dropped, pc, cur, tries, ctries,
                   acked, failed, lost, link, strays, reply, stored, losses>>
subscriberVars == <<cons, cursor, pending, inbox, acks, spc, stries, inHand,
                    handed, latest, late, crashes>>
vars == <<busVars, publisherVars, subscriberVars>>

Init == P!Init /\ S!SInit

PublisherSteps == P!Connect \/ P!Publishing \/ P!OnEvent \/ P!DropLayer
                  \/ P!Cancel \/ P!Deliver \/ P!DeliverStray \/ P!Disconnect

(* A restart of the server leaves neither the stream nor its consumer. *)
Restart == P!ServerRestart /\ S!ConsumerGone

Next == \/ PublisherSteps /\ UNCHANGED subscriberVars
        \/ S!SNext /\ UNCHANGED publisherVars
        \/ Restart

Spec == Init /\ [][Next]_vars
-----------------------------------------------------------------------------
(* What the subscriber gets was emitted and is not one that on_event       *)
(* dropped, that is still in the channel or that has no identity.          *)
HandedWasTaken ==
  handed \subseteq (1..generated) \ (dropped \cup Unpublishable
                                     \cup {buffer[i] : i \in DOMAIN buffer})

(* Across both processes: next() returns events in the order in which      *)
(* on_event saw them, and only those that were taken.                      *)
EndToEnd == [][latest <= latest' /\ HandedWasTaken']_vars
=============================================================================
