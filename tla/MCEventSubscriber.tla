-------------------------- MODULE MCEventSubscriber --------------------------
(***************************************************************************)
(* EventSubscriber with a producer: events are stored in the order in      *)
(* which they are emitted, some of them again after a retry (StreamInOrder *)
(* of EventPublisher), and the server may restart.                         *)
(***************************************************************************)
EXTENDS EventSubscriber

CONSTANTS MaxCopies, MaxLosses

VARIABLES newest, copies, losses
prodVars == <<newest, copies, losses>>
vars == <<busVars, subVars, prodVars>>

Init == BusInit /\ SInit /\ newest = 0 /\ copies = 0 /\ losses = 0

Produce ==
  /\ \/ newest < MaxEvents /\ newest' = newest + 1 /\ UNCHANGED copies
     \/ newest > 0 /\ copies < MaxCopies /\ copies' = copies + 1 /\ UNCHANGED newest
  /\ up
  /\ Store(newest')
  /\ UNCHANGED <<subVars, losses>>

Create == ~up /\ CreateStream /\ UNCHANGED <<subVars, prodVars>>

ServerRestart ==
  /\ losses < MaxLosses /\ losses' = losses + 1
  /\ LoseStream /\ ConsumerGone
  /\ UNCHANGED <<newest, copies>>

Next == (SNext /\ UNCHANGED prodVars) \/ Produce \/ Create \/ ServerRestart

Spec == Init /\ [][Next]_vars

FairSpec == Spec /\ SFairness
-----------------------------------------------------------------------------
(* Delivered while the server has not restarted: a subscription does not   *)
(* outlive its consumer.                                                   *)
DeliveredUnlessLost ==
  \A e \in Events \ Unparsable :
    Holds(e) ~> e \in handed \/ ~Holds(e) \/ crashes > 0 \/ losses > 0
=============================================================================
