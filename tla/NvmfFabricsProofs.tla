------------------------- MODULE NvmfFabricsProofs -------------------------
(***************************************************************************)
(* Proofs about discovering, connecting and disconnecting, for any number  *)
(* of processes, targets and instance numbers: what a discover reads and   *)
(* deletes, what connect_all has connected when it returns, and what the   *)
(* numbers that the processes hold stand for.                              *)
(***************************************************************************)
EXTENDS NvmfFabrics, TLAPS

USE FabricsAssumption

(* The steps of each operation.                                              *)
Discovering == {"discoverWrite", "discoverCount", "discoverPages",
                "discoverRemove"}
StepsOf ==
  [none |-> {"idle"}, discover |-> Discovering,
   connectAll |-> {"connectNext", "connectWrite", "connectRead"},
   connect |-> {"connectWrite", "connectRead"},
   targetConnect |-> {"connectWrite", "connectRead", "poll"},
   disconnect |-> {"disconnectRead", "disconnectDelete"}]

Labels ==
  Discovering \cup {"idle", "connectNext", "connectWrite", "connectRead",
                   "poll", "disconnectRead", "disconnectDelete"}

ControlInv ==
  /\ pc \in [Procs -> Labels]
  /\ op \in [Procs -> DOMAIN StepsOf]
  /\ result \in [Procs -> {"none", "Ok", "Err"}]
  /\ losses \in 0..MaxLosses /\ grown \in Nat
  /\ \A p \in Procs :
       /\ pc[p] \in StepsOf[op[p]]
       /\ op[p] = "disconnect" => p \in Disconnectors

(* What was announced is there when it is read, and if nothing is added to   *)
(* the log in between it is all there is.                                    *)
AnnouncedInv == \A p \in Procs :
  pc[p] = "discoverPages" =>
    count[p] \in 0..Len(log) /\ (p \notin grew => count[p] = Len(log))

(* connect_all has connected the first n records, may be at the next one,    *)
(* and has the rest to do.                                                   *)
AtRecord(p, n) ==
  /\ made[p] = ToSet(SubSeq(entries[p], 1, n))
  /\ IF pc[p] = "connectWrite"
       THEN /\ n < Len(entries[p]) /\ target[p] = entries[p][n + 1]
            /\ todo[p] = SubSeq(entries[p], n + 2, Len(entries[p]))
       ELSE todo[p] = SubSeq(entries[p], n + 1, Len(entries[p]))
ConnectsOf(p) ==
  /\ op[p] = "none" => made[p] = {}
  /\ op[p] = "connectAll" => \E n \in 0..Len(entries[p]) : AtRecord(p, n)
ConnectAllInv ==
  made \in [Procs -> SUBSET Nqns] /\ \A p \in Procs : ConnectsOf(p)

NInv == NTypeOK /\ ControlInv /\ AnnouncedInv /\ ConnectAllInv

(* What a process holds the number of: a discover its own controller,        *)
(* disconnect one with the NQN it was given, connect the one it has made.    *)
OwnSteps == {"discoverCount", "discoverPages", "discoverRemove"}
Named(p) == Io(ctlId[p]) /\ ctl[ctlId[p]].nqn = target[p]
Right(p) ==
  /\ pc[p] \in OwnSteps => Owned(p)
  /\ pc[p] = "disconnectDelete" => Named(p)
  /\ pc[p] = "connectRead" => Named(p) /\ ctl[ctlId[p]].by = p
OwnInv == \A p \in Procs : p \in stale \/ Right(p)

-----------------------------------------------------------------------------
(* The steps of one process are its own.                                     *)

LEMMA OthersStay ==
  ASSUME NTypeOK, ControlInv, ConnectAllInv, NEW p \in Procs, Call(p) \/ Step(p),
         NEW q \in Procs, q # p
  PROVE  /\ pc'[q] = pc[q] /\ op'[q] = op[q] /\ entries'[q] = entries[q]
         /\ ctlId'[q] = ctlId[q] /\ count'[q] = count[q] /\ todo'[q] = todo[q]
         /\ names'[q] = names[q] /\ target'[q] = target[q]
         /\ result'[q] = result[q] /\ made'[q] = made[q]
  <1> USE DEF NTypeOK, ControlInv, ConnectAllInv, Goto, Return, Begin
  <1>1. CASE Call(p)
    BY <1>1
    DEF Call, Discover, ConnectAll, ConnectAllEmpty, Connect, ConnectRefused,
        TargetConnect, Disconnect
  <1>2. CASE DiscoverWrite(p) \/ DiscoverWriteFails(p) \/ DiscoverCount(p)
    BY <1>2 DEF DiscoverWrite, DiscoverWriteFails, DiscoverCount
  <1>3. CASE DiscoverPages(p) \/ DiscoverFails(p) \/ DiscoverRemove(p)
               \/ DiscoverRemoveFails(p)
    BY <1>3 DEF DiscoverPages, DiscoverFails, DiscoverRemove, DiscoverRemoveFails
  <1>4. CASE ConnectNext(p) \/ ConnectNextFails(p) \/ ConnectAllDone(p)
    BY <1>4 DEF ConnectNext, ConnectNextFails, ConnectAllDone
  <1>5. CASE ConnectWrite(p) \/ ConnectWriteFails(p) \/ ConnectReturns(p)
               \/ ConnectAllGoesOn(p) \/ TargetConnectPolls(p)
               \/ ConnectReadFails(p)
    BY <1>5
    DEF ConnectWrite, ConnectWriteFails, ConnectReturns, ConnectAllGoesOn,
        TargetConnectPolls, ConnectReadFails
  <1>6. CASE PollAgain(p) \/ PollEnds(p)
    BY <1>6 DEF PollAgain, PollEnds
  <1>7. CASE DisconnectRead(p) \/ DisconnectDelete(p)
               \/ DisconnectDeleteFails(p) \/ DisconnectDone(p)
    BY <1>7
    DEF DisconnectRead, DisconnectDelete, DisconnectDeleteFails, DisconnectDone
  <1> QED BY <1>1, <1>2, <1>3, <1>4, <1>5, <1>6, <1>7 DEF Step

(* A process goes from one step of its operation to the next one, or back.   *)
LEMMA Steps ==
  /\ DOMAIN StepsOf = {"none", "discover", "connectAll", "connect",
                       "targetConnect", "disconnect"}
  /\ StepsOf["none"] = {"idle"} /\ StepsOf["discover"] = Discovering
  /\ StepsOf["connectAll"] = {"connectNext", "connectWrite", "connectRead"}
  /\ StepsOf["connect"] = {"connectWrite", "connectRead"}
  /\ StepsOf["targetConnect"] = {"connectWrite", "connectRead", "poll"}
  /\ StepsOf["disconnect"] = {"disconnectRead", "disconnectDelete"}
  BY DEF StepsOf

LEMMA StepIsOfOp ==
  ASSUME ControlInv, NEW p \in Procs
  PROVE  /\ op[p] \in DOMAIN StepsOf
         /\ pc[p] = "idle" <=> op[p] = "none"
         /\ pc[p] \in Discovering <=> op[p] = "discover"
         /\ pc[p] = "connectNext" => op[p] = "connectAll"
         /\ pc[p] \in {"connectWrite", "connectRead"} =>
              op[p] \in {"connect", "connectAll", "targetConnect"}
         /\ pc[p] = "poll" => op[p] = "targetConnect"
         /\ pc[p] \in {"disconnectRead", "disconnectDelete"} <=> op[p] = "disconnect"
  BY Steps DEF ControlInv, Discovering

LEMMA ControlKept ==
  ASSUME NTypeOK, ControlInv, ConnectAllInv, Next
  PROVE  ControlInv'
  <1>1. CASE Environment
    BY <1>1
    DEF Environment, KernelScans, KernelLoses, TargetExports, procVars, ControlInv
  <1>2. ASSUME NEW p \in Procs, Call(p) \/ Step(p)
        PROVE  ControlInv'
    <2>1. losses' = losses /\ grown' = grown
      BY <1>2
      DEF Call, Step, kernelVars, Discover, ConnectAll, ConnectAllEmpty, Connect,
          ConnectRefused, TargetConnect, Disconnect, DiscoverWrite,
          DiscoverWriteFails, DiscoverCount, DiscoverPages, DiscoverFails,
          DiscoverRemove, DiscoverRemoveFails, ConnectNext, ConnectNextFails,
          ConnectAllDone, ConnectWrite, ConnectWriteFails, ConnectReturns,
          ConnectAllGoesOn, TargetConnectPolls, ConnectReadFails, PollAgain,
          PollEnds, DisconnectRead, DisconnectDelete, DisconnectDeleteFails,
          DisconnectDone
    <2>2. /\ pc' \in [Procs -> Labels]
          /\ op' \in [Procs -> DOMAIN StepsOf]
          /\ result' \in [Procs -> {"none", "Ok", "Err"}]
          /\ pc'[p] \in StepsOf[op'[p]]
          /\ op'[p] = "disconnect" => p \in Disconnectors
      <3> USE DEF ControlInv, Goto, Return, Begin, Labels, Discovering
      <3>1. CASE Discover(p) \/ ConnectAllEmpty(p) \/ ConnectAll(p)
        BY <3>1, Steps DEF Discover, ConnectAllEmpty, ConnectAll
      <3>2. ASSUME NEW t \in Targets,
                   \/ Connect(p, t) \/ ConnectRefused(p, t)
                   \/ TargetConnect(p, t) \/ Disconnect(p, t)
            PROVE  /\ pc' \in [Procs -> Labels]
                   /\ op' \in [Procs -> DOMAIN StepsOf]
                   /\ result' \in [Procs -> {"none", "Ok", "Err"}]
                   /\ pc'[p] \in StepsOf[op'[p]]
                   /\ op'[p] = "disconnect" => p \in Disconnectors
        BY <3>2, Steps
        DEF Connect, ConnectRefused, TargetConnect, Disconnect
      <3>3. CASE DiscoverWrite(p) \/ DiscoverCount(p) \/ DiscoverPages(p)
        BY <3>3, Steps, StepIsOfOp
        DEF DiscoverWrite, DiscoverCount, DiscoverPages
      <3>4. CASE \/ DiscoverWriteFails(p) \/ DiscoverFails(p) \/ DiscoverRemove(p)
                 \/ DiscoverRemoveFails(p) \/ ConnectNextFails(p)
                 \/ ConnectAllDone(p) \/ ConnectWriteFails(p)
                 \/ ConnectReturns(p) \/ ConnectReadFails(p) \/ PollEnds(p)
                 \/ DisconnectDeleteFails(p) \/ DisconnectDone(p)
        BY <3>4, Steps
        DEF DiscoverWriteFails, DiscoverFails, DiscoverRemove,
            DiscoverRemoveFails, ConnectNextFails, ConnectAllDone,
            ConnectWriteFails, ConnectReturns, ConnectReadFails, PollEnds,
            DisconnectDeleteFails, DisconnectDone
      <3>5. CASE \/ ConnectNext(p) \/ ConnectWrite(p) \/ ConnectAllGoesOn(p)
                 \/ TargetConnectPolls(p)
        BY <3>5, Steps, StepIsOfOp
        DEF ConnectNext, ConnectWrite, ConnectAllGoesOn, TargetConnectPolls
      <3>6. CASE PollAgain(p) \/ DisconnectRead(p) \/ DisconnectDelete(p)
        BY <3>6, Steps, StepIsOfOp
        DEF PollAgain, DisconnectRead, DisconnectDelete
      <3> QED BY <1>2, <3>1, <3>2, <3>3, <3>4, <3>5, <3>6 DEF Call, Step
    <2> QED BY <2>1, <2>2, <1>2, OthersStay DEF ControlInv
  <1> QED BY <1>1, <1>2 DEF Next

-----------------------------------------------------------------------------
(* What the kernel does to its controllers.                                  *)

Kernel == [Instances -> Controller \cup {Free}]

LEMMA Created ==
  ASSUME NTypeOK, NEW i \in Instances, NEW k \in {"discovery", "io"},
         NEW t \in Nqns, NEW p \in Procs, Create(i, k, t, p)
  PROVE  /\ ctl' \in Kernel /\ ~Exists(i) /\ ctl'[i] # Free
         /\ ctl'[i].kind = k /\ ctl'[i].nqn = t /\ ctl'[i].by = p
         /\ \A j \in Instances \ {i} : ctl'[j] = ctl[j]
  <1> DEFINE c == [kind |-> k, nqn |-> t, by |-> p]
  <1>1. c \in Controller /\ c # Free /\ c.kind = k /\ c.nqn = t /\ c.by = p
    BY DEF Controller
  <1>2. ctl' = [ctl EXCEPT ![i] = c] /\ ~Exists(i)
    BY DEF Create, NextFree
  <1> HIDE DEF c
  <1> QED BY <1>1, <1>2 DEF NTypeOK, Kernel

LEMMA Deleted ==
  ASSUME NTypeOK, NEW i \in Instances, Delete(i)
  PROVE  /\ ctl' \in Kernel /\ ctl'[i] = Free /\ ready' = ready \ {i}
         /\ \A j \in Instances \ {i} : ctl'[j] = ctl[j]
  BY DEF NTypeOK, Kernel, Delete

(* The pages that a discover may read.                                       *)
LEMMA PagesType ==
  ASSUME log \in Seq(Targets), NEW n \in 0..Len(log), NEW page \in Pages(n)
  PROVE  /\ page \in Seq(Targets \cup {Garbage})
         /\ n = Len(log) => page = log
  <1>1. PICK past \in SeqOf({Garbage}, Len(log) - n) : page = SubSeq(log, 1, n) \o past
    BY DEF Pages
  <1>2. PICK m \in 0..(Len(log) - n) : past \in [1..m -> {Garbage}]
    BY DEF SeqOf
  <1>3. past \in Seq({Garbage}) /\ Len(past) = m
    BY <1>2
  <1>4. SubSeq(log, 1, n) \in Seq(Targets) /\ Len(SubSeq(log, 1, n)) = n
    OBVIOUS
  <1>5. ASSUME n = Len(log)
        PROVE  page = log
    <2>1. m = 0 /\ past = <<>>
      BY <1>2, <1>3, <1>5
    <2>2. SubSeq(log, 1, n) = log
      BY <1>5
    <2> QED BY <1>1, <2>1, <2>2
  <1> QED BY <1>1, <1>3, <1>4, <1>5

KernelOK ==
  ctl \in Kernel /\ ready \subseteq {i \in Instances : Io(i)} /\ log \in Seq(Targets)
ProcsOK ==
  /\ entries \in [Procs -> Seq(Targets \cup {Garbage})]
  /\ todo \in [Procs -> Seq(Targets \cup {Garbage})]
  /\ names \in [Procs -> SUBSET Instances]
  /\ ctlId \in [Procs -> Instances] /\ count \in [Procs -> Nat]
  /\ target \in [Procs -> Nqns]

LEMMA TypeIs == NTypeOK <=> KernelOK /\ ProcsOK
  BY DEF NTypeOK, KernelOK, ProcsOK, Kernel

LEMMA KernelTypesKept ==
  ASSUME NTypeOK, Next
  PROVE  KernelOK'
  <1>1. CASE UNCHANGED <<ctl, ready, log>>
    BY <1>1, TypeIs DEF KernelOK, Io, Exists
  <1>2. ASSUME NEW i \in Instances, NEW k \in {"discovery", "io"},
               NEW t \in Nqns, NEW p \in Procs, Create(i, k, t, p),
               UNCHANGED <<ready, log>>
        PROVE  KernelOK'
    <2>1. /\ ctl' \in Kernel /\ ~Exists(i)
          /\ \A j \in Instances \ {i} : ctl'[j] = ctl[j]
      BY <1>2, Created
    <2> QED BY <1>2, <2>1, TypeIs DEF KernelOK, Io, Exists
  <1>3. ASSUME NEW i \in Instances, Delete(i), UNCHANGED log
        PROVE  KernelOK'
    BY <1>3, Deleted, TypeIs DEF KernelOK, Io, Exists
  <1>4. CASE Environment
    <2>1. ASSUME NEW i \in Instances, KernelScans(i)
          PROVE  KernelOK'
      BY <2>1, TypeIs DEF KernelScans, KernelOK, Io, Exists
    <2>2. ASSUME NEW i \in Instances, KernelLoses(i)
          PROVE  KernelOK'
      BY <2>2, <1>3 DEF KernelLoses
    <2>3. ASSUME NEW t \in Targets, TargetExports(t)
          PROVE  KernelOK'
      BY <2>3, TypeIs DEF TargetExports, KernelOK, Io, Exists
    <2> QED BY <1>4, <2>1, <2>2, <2>3 DEF Environment
  <1>5. ASSUME NEW p \in Procs, Call(p)
        PROVE  KernelOK'
    BY <1>1, <1>5
    DEF Call, Discover, ConnectAll, ConnectAllEmpty, Connect, ConnectRefused,
        TargetConnect, Disconnect, kernelVars
  <1>6. ASSUME NEW p \in Procs, Step(p)
        PROVE  KernelOK'
    <2>1. CASE DiscoverWrite(p) \/ ConnectWrite(p)
      BY <1>2, <2>1, TypeIs DEF DiscoverWrite, ConnectWrite, ProcsOK, Nqns
    <2>2. CASE DiscoverRemove(p) \/ DisconnectDelete(p)
      BY <1>3, <2>2, TypeIs DEF DiscoverRemove, DisconnectDelete, ProcsOK
    <2> QED
      BY <1>1, <1>6, <2>1, <2>2
      DEF Step, kernelVars, DiscoverWriteFails, DiscoverCount, DiscoverPages,
          DiscoverFails, DiscoverRemoveFails, ConnectNext, ConnectNextFails,
          ConnectAllDone, ConnectWriteFails, ConnectReturns, ConnectAllGoesOn,
          TargetConnectPolls, ConnectReadFails, PollAgain, PollEnds,
          DisconnectRead, DisconnectDeleteFails, DisconnectDone
  <1> QED BY <1>4, <1>5, <1>6 DEF Next

LEMMA TypesKept ==
  ASSUME NInv, Next
  PROVE  NTypeOK'
  <1> SUFFICES ProcsOK'
    BY KernelTypesKept, TypeIs DEF NInv, NTypeOK, KernelOK, ProcsOK, Kernel
  <1>0. ProcsOK /\ log \in Seq(Targets)
    BY TypeIs DEF NInv, KernelOK
  <1> USE DEF ProcsOK
  <1>1. CASE Environment
    BY <1>0, <1>1
    DEF Environment, KernelScans, KernelLoses, TargetExports, procVars
  <1>2. ASSUME NEW p \in Procs, Call(p)
        PROVE  ProcsOK'
    <2>1. CASE Discover(p) \/ ConnectAllEmpty(p)
      BY <1>0, <2>1 DEF Discover, ConnectAllEmpty
    <2>2. CASE ConnectAll(p)
      BY <1>0, <2>2 DEF ConnectAll
    <2>3. ASSUME NEW t \in Targets, Connect(p, t) \/ TargetConnect(p, t)
          PROVE  ProcsOK'
      <3>1. /\ target' = [target EXCEPT ![p] = t] /\ t \in Nqns
            /\ UNCHANGED <<entries, todo, names, ctlId, count>>
        BY <2>3 DEF Connect, TargetConnect, Nqns
      <3> QED BY <1>0, <3>1
    <2>4. ASSUME NEW t \in Targets, ConnectRefused(p, t)
          PROVE  ProcsOK'
      BY <1>0, <2>4 DEF ConnectRefused
    <2>5. ASSUME NEW t \in Targets, Disconnect(p, t)
          PROVE  ProcsOK'
      BY <1>0, <2>5 DEF Disconnect, Names, Nqns
    <2> QED BY <1>2, <2>1, <2>2, <2>3, <2>4, <2>5 DEF Call
  <1>3. ASSUME NEW p \in Procs, Step(p)
        PROVE  ProcsOK'
    <2>1. CASE DiscoverWrite(p) \/ DiscoverCount(p)
      <3>1. CASE DiscoverWrite(p)
        BY <1>0, <3>1 DEF DiscoverWrite
      <3>2. CASE DiscoverCount(p)
        BY <1>0, <3>2 DEF DiscoverCount
      <3> QED BY <2>1, <3>1, <3>2
    <2>2. CASE DiscoverPages(p)
      <3>1. count[p] \in 0..Len(log)
        BY <2>2 DEF DiscoverPages, NInv, AnnouncedInv
      <3>2. PICK page \in Pages(count[p]) : entries' = [entries EXCEPT ![p] = @ \o page]
        BY <2>2 DEF DiscoverPages
      <3>3. page \in Seq(Targets \cup {Garbage})
        BY <1>0, <3>1, <3>2, PagesType
      <3>4. entries[p] \o page \in Seq(Targets \cup {Garbage})
        BY <1>0, <3>3
      <3>5. entries' \in [Procs -> Seq(Targets \cup {Garbage})]
        BY <1>0, <3>2, <3>4
      <3> QED BY <1>0, <2>2, <3>5 DEF DiscoverPages
    <2>3. CASE \/ DiscoverWriteFails(p) \/ DiscoverFails(p) \/ DiscoverRemove(p)
               \/ DiscoverRemoveFails(p) \/ ConnectNextFails(p)
               \/ ConnectAllDone(p) \/ ConnectWriteFails(p)
               \/ ConnectReturns(p) \/ ConnectReadFails(p) \/ PollEnds(p)
               \/ DisconnectDeleteFails(p) \/ DisconnectDone(p)
      <3>1. (\E r \in {"Ok", "Err"} : Return(p, r)) /\ entries' = entries
        BY <2>3
        DEF DiscoverWriteFails, DiscoverFails, DiscoverRemove,
            DiscoverRemoveFails, ConnectNextFails, ConnectAllDone,
            ConnectWriteFails, ConnectReturns, ConnectReadFails, PollEnds,
            DisconnectDeleteFails, DisconnectDone
      <3>2. /\ ctlId' = [ctlId EXCEPT ![p] = 0] /\ count' = [count EXCEPT ![p] = 0]
            /\ todo' = [todo EXCEPT ![p] = <<>>] /\ names' = [names EXCEPT ![p] = {}]
            /\ target' = [target EXCEPT ![p] = DiscoveryNqn]
        BY <3>1 DEF Return
      <3>3. /\ 0 \in Instances /\ DiscoveryNqn \in Nqns
            /\ <<>> \in Seq(Targets \cup {Garbage})
        BY DEF Instances, Nqns
      <3> QED BY <1>0, <3>1, <3>2, <3>3
    <2>4. CASE ConnectNext(p) \/ ConnectAllGoesOn(p) \/ TargetConnectPolls(p)
      <3>1. CASE ConnectNext(p)
        <4>1. /\ todo[p] \in Seq(Targets \cup {Garbage}) /\ todo[p] # <<>>
              /\ Head(todo[p]) \in Nqns
          BY <1>0, <3>1 DEF ConnectNext, Nqns
        <4>2. Tail(todo[p]) \in Seq(Targets \cup {Garbage})
          BY <4>1
        <4>3. /\ UNCHANGED <<entries, ctlId, count, names>>
              /\ target' = [target EXCEPT ![p] = Head(todo[p])]
              /\ todo' = [todo EXCEPT ![p] = Tail(todo[p])]
          BY <3>1 DEF ConnectNext
        <4> QED BY <1>0, <4>1, <4>2, <4>3
      <3>2. CASE ConnectAllGoesOn(p)
        BY <1>0, <3>2 DEF ConnectAllGoesOn
      <3>3. CASE TargetConnectPolls(p)
        BY <1>0, <3>3 DEF TargetConnectPolls
      <3> QED BY <2>4, <3>1, <3>2, <3>3
    <2>5. CASE ConnectWrite(p) \/ PollAgain(p)
      <3>1. CASE ConnectWrite(p)
        BY <1>0, <3>1 DEF ConnectWrite
      <3>2. CASE PollAgain(p)
        BY <1>0, <3>2 DEF PollAgain
      <3> QED BY <2>5, <3>1, <3>2
    <2>6. CASE DisconnectRead(p) \/ DisconnectDelete(p)
      <3>1. CASE DisconnectRead(p)
        <4>1. PICK i \in names[p] :
                /\ names' = [names EXCEPT ![p] = @ \ {i}]
                /\ ctlId' = [ctlId EXCEPT ![p] = i] \/ ctlId' = ctlId
          BY <3>1 DEF DisconnectRead
        <4>2. UNCHANGED <<entries, count, todo, target>> /\ i \in Instances
          BY <1>0, <3>1, <4>1 DEF DisconnectRead
        <4> QED BY <1>0, <4>1, <4>2
      <3>2. CASE DisconnectDelete(p)
        BY <1>0, <3>2 DEF DisconnectDelete
      <3> QED BY <2>6, <3>1, <3>2
    <2> QED BY <1>3, <2>1, <2>2, <2>3, <2>4, <2>5, <2>6 DEF Step
  <1> QED BY <1>1, <1>2, <1>3 DEF Next

-----------------------------------------------------------------------------
(* The log and what a discover reads of it.                                  *)

(* Where the log and the entries of a process change.                        *)
LEMMA LogOrEntries ==
  ASSUME NInv, Next
  PROVE  \/ UNCHANGED <<log, grown, entries>>
         \/ (\E t \in Targets : TargetExports(t)) /\ UNCHANGED entries
         \/ (\E p \in Procs : DiscoverPages(p)) /\ UNCHANGED <<log, grown>>
  <1>1. CASE Environment
    BY <1>1
    DEF Environment, KernelScans, KernelLoses, TargetExports, procVars
  <1>2. ASSUME NEW p \in Procs, Call(p)
        PROVE  UNCHANGED <<log, grown, entries>>
    BY <1>2
    DEF Call, kernelVars, Discover, ConnectAll, ConnectAllEmpty, Connect,
        ConnectRefused, TargetConnect, Disconnect
  <1>3. ASSUME NEW p \in Procs, Step(p)
        PROVE  /\ UNCHANGED <<log, grown>>
               /\ UNCHANGED entries \/ DiscoverPages(p)
    BY <1>3
    DEF Step, kernelVars, DiscoverWrite, DiscoverWriteFails, DiscoverCount,
        DiscoverPages, DiscoverFails, DiscoverRemove, DiscoverRemoveFails,
        ConnectNext, ConnectNextFails, ConnectAllDone, ConnectWrite,
        ConnectWriteFails, ConnectReturns, ConnectAllGoesOn, TargetConnectPolls,
        ConnectReadFails, PollAgain, PollEnds, DisconnectRead, DisconnectDelete,
        DisconnectDeleteFails, DisconnectDone
  <1> QED BY <1>1, <1>2, <1>3 DEF Next

LEMMA AnnouncedKept ==
  ASSUME NInv, Next
  PROVE  AnnouncedInv'
  <1> USE DEF NInv, NTypeOK, ControlInv, AnnouncedInv
  <1>1. CASE Environment
    <2>1. UNCHANGED <<pc, count>>
      BY <1>1 DEF Environment, KernelScans, KernelLoses, TargetExports, procVars
    <2>2. UNCHANGED <<log, grown>> \/ \E t \in Targets : TargetExports(t)
      BY <1>1 DEF Environment, KernelScans, KernelLoses
    <2>3. CASE \E t \in Targets : TargetExports(t)
      <3>1. PICK t \in Targets : TargetExports(t)
        BY <2>3
      <3>2. Len(log') = Len(log) + 1 /\ Len(log) \in Nat
        BY <3>1 DEF TargetExports
      <3>3. log' # log
        BY <3>2
      <3>4. \A q \in Procs : pc'[q] = "discoverPages" => q \in grew'
        BY <2>1, <3>3 DEF Next, Remember
      <3> QED BY <2>1, <3>2, <3>4
    <2>4. CASE UNCHANGED <<log, grown>>
      <3>1. \A q \in Procs :
              pc'[q] = "discoverPages" => (q \in grew <=> q \in grew')
        BY <2>1, <2>4 DEF Next, Remember
      <3> QED BY <2>1, <2>4, <3>1
    <2> QED BY <2>2, <2>3, <2>4
  <1>2. ASSUME NEW p \in Procs, Call(p) \/ Step(p)
        PROVE  AnnouncedInv'
    <2>1. UNCHANGED <<log, grown>>
      BY <1>2, LogOrEntries
      DEF Call, Step, kernelVars, Discover, ConnectAll, ConnectAllEmpty, Connect,
          ConnectRefused, TargetConnect, Disconnect, DiscoverWrite,
          DiscoverWriteFails, DiscoverCount, DiscoverPages, DiscoverFails,
          DiscoverRemove, DiscoverRemoveFails, ConnectNext, ConnectNextFails,
          ConnectAllDone, ConnectWrite, ConnectWriteFails, ConnectReturns,
          ConnectAllGoesOn, TargetConnectPolls, ConnectReadFails, PollAgain,
          PollEnds, DisconnectRead, DisconnectDelete, DisconnectDeleteFails,
          DisconnectDone
    <2>2. ASSUME pc'[p] = "discoverPages"
          PROVE  count'[p] = Len(log)
      <3>1. DiscoverCount(p)
        BY <1>2, <2>2
        DEF Call, Step, Goto, Return, Begin, Discover, ConnectAll,
            ConnectAllEmpty, Connect, ConnectRefused, TargetConnect, Disconnect,
            DiscoverWrite, DiscoverWriteFails, DiscoverPages, DiscoverFails,
            DiscoverRemove, DiscoverRemoveFails, ConnectNext, ConnectNextFails,
            ConnectAllDone, ConnectWrite, ConnectWriteFails, ConnectReturns,
            ConnectAllGoesOn, TargetConnectPolls, ConnectReadFails, PollAgain,
            PollEnds, DisconnectRead, DisconnectDelete, DisconnectDeleteFails,
            DisconnectDone
      <3> QED BY <3>1 DEF DiscoverCount, Goto
    <2>3. \A q \in Procs \ {p} : pc'[q] = pc[q] /\ count'[q] = count[q]
      BY <1>2, OthersStay
    <2>4. Len(log) \in Nat /\ log' = log /\ grown' = grown
      BY <2>1
    <2>5. ASSUME NEW q \in Procs, pc'[q] = "discoverPages"
          PROVE  /\ count'[q] \in 0..Len(log)
                 /\ q \notin grew' => count'[q] = Len(log)
      <3>1. CASE q = p
        BY <2>2, <2>4, <2>5, <3>1
      <3>2. CASE q # p
        <4>1. q \notin grew' => q \notin grew
          BY <2>3, <2>5, <3>2 DEF Next, Remember
        <4> QED BY <2>3, <2>5, <3>2, <4>1
      <3> QED BY <3>1, <3>2
    <2> QED BY <2>4, <2>5
  <1> QED BY <1>1, <1>2 DEF Next

(***************************************************************************)
(* What connect_all has connected and has still to connect.                *)
(***************************************************************************)
LEMMA PrefixFacts ==
  ASSUME NEW S, NEW e \in Seq(S), NEW n \in 0..Len(e)
  PROVE  /\ SubSeq(e, n + 1, Len(e)) = <<>> => n = Len(e)
         /\ SubSeq(e, 1, Len(e)) = e
         /\ ToSet(SubSeq(e, 1, 0)) = {}
         /\ n < Len(e) =>
              /\ Head(SubSeq(e, n + 1, Len(e))) = e[n + 1]
              /\ Tail(SubSeq(e, n + 1, Len(e))) = SubSeq(e, n + 2, Len(e))
              /\ ToSet(SubSeq(e, 1, n + 1)) = ToSet(SubSeq(e, 1, n)) \cup {e[n + 1]}
  <1>1. ASSUME SubSeq(e, n + 1, Len(e)) = <<>>
        PROVE  n = Len(e)
    <2>1. Len(e) \in Nat /\ n \in Int
      OBVIOUS
    <2>2. Len(SubSeq(e, n + 1, Len(e))) = Len(e) - n
      OBVIOUS
    <2>3. Len(<<>>) = 0
      OBVIOUS
    <2>4. Len(e) - n = 0
      BY <1>1, <2>2, <2>3
    <2> QED BY <2>1, <2>4
  <1>2. SubSeq(e, 1, Len(e)) = e
    OBVIOUS
  <1>3. ToSet(SubSeq(e, 1, 0)) = {}
    BY DEF ToSet
  <1>4. ASSUME n < Len(e)
        PROVE  /\ Head(SubSeq(e, n + 1, Len(e))) = e[n + 1]
               /\ Tail(SubSeq(e, n + 1, Len(e))) = SubSeq(e, n + 2, Len(e))
    BY <1>4
  <1>5. ASSUME n < Len(e)
        PROVE  ToSet(SubSeq(e, 1, n + 1)) = ToSet(SubSeq(e, 1, n)) \cup {e[n + 1]}
    <2>1. /\ DOMAIN SubSeq(e, 1, n + 1) = 1..(n + 1)
          /\ DOMAIN SubSeq(e, 1, n) = 1..n
          /\ \A i \in 1..(n + 1) : SubSeq(e, 1, n + 1)[i] = e[i]
          /\ \A i \in 1..n : SubSeq(e, 1, n)[i] = e[i]
      BY <1>5
    <2>2. 1..(n + 1) = 1..n \cup {n + 1}
      OBVIOUS
    <2>3. ToSet(SubSeq(e, 1, n + 1)) = {e[i] : i \in 1..(n + 1)}
      BY <2>1 DEF ToSet
    <2>4. ToSet(SubSeq(e, 1, n)) = {e[i] : i \in 1..n}
      BY <2>1 DEF ToSet
    <2> HIDE <2>1
    <2> QED BY <2>2, <2>3, <2>4, Zenon
  <1> QED BY <1>1, <1>2, <1>3, <1>4, <1>5

LEMMA ConnectsOfCallKept ==
  ASSUME NInv, NEW p \in Procs, Call(p)
  PROVE  ConnectsOf(p)' /\ made' = made
  <1> USE DEF NInv, NTypeOK, ControlInv, ConnectAllInv, ConnectsOf, Begin, Goto
  <1>1. CASE Discover(p) \/ ConnectAllEmpty(p)
    BY <1>1, StepIsOfOp DEF Discover, ConnectAllEmpty
  <1>2. CASE ConnectAll(p)
    <2>1. /\ made' = made /\ made[p] = {} /\ entries' = entries
          /\ op'[p] = "connectAll" /\ pc'[p] = "connectNext"
          /\ todo'[p] = entries[p]
      BY <1>2, StepIsOfOp DEF ConnectAll
    <2>2. entries[p] \in Seq(Targets \cup {Garbage}) /\ 0 \in 0..Len(entries[p])
      OBVIOUS
    <2>3. AtRecord(p, 0)'
      BY ONLY <2>1, <2>2, PrefixFacts DEF AtRecord
    <2> QED BY <2>1, <2>2, <2>3
  <1>3. ASSUME NEW t \in Targets,
               \/ Connect(p, t) \/ ConnectRefused(p, t)
               \/ TargetConnect(p, t) \/ Disconnect(p, t)
        PROVE  ConnectsOf(p)' /\ made' = made
    BY <1>3, StepIsOfOp DEF Connect, ConnectRefused, TargetConnect, Disconnect
  <1> QED BY <1>1, <1>2, <1>3 DEF Call

LEMMA ConnectsOfStepKept ==
  ASSUME NInv, NEW p \in Procs, Step(p)
  PROVE  ConnectsOf(p)' /\ made' \in [Procs -> SUBSET Nqns]
  <1> USE DEF NInv, NTypeOK, ControlInv, ConnectAllInv, ConnectsOf, Goto
  <1>0. entries[p] \in Seq(Targets \cup {Garbage})
    OBVIOUS
  <1>1. CASE \/ DiscoverWrite(p) \/ DiscoverCount(p) \/ DiscoverPages(p)
    BY <1>1, StepIsOfOp
    DEF Discovering, DiscoverWrite, DiscoverCount, DiscoverPages
  <1>2. ASSUME Return(p, "Ok") \/ Return(p, "Err")
        PROVE  ConnectsOf(p)' /\ made' \in [Procs -> SUBSET Nqns]
    <2>1. op'[p] = "none" /\ made' = [made EXCEPT ![p] = {}]
      BY <1>2 DEF Return
    <2> QED BY <2>1
  <1>3. CASE \/ DiscoverWriteFails(p) \/ DiscoverFails(p) \/ DiscoverRemove(p)
             \/ DiscoverRemoveFails(p) \/ ConnectNextFails(p)
             \/ ConnectAllDone(p) \/ ConnectWriteFails(p)
             \/ ConnectReturns(p) \/ ConnectReadFails(p) \/ PollEnds(p)
             \/ DisconnectDeleteFails(p) \/ DisconnectDone(p)
    BY <1>2, <1>3
    DEF DiscoverWriteFails, DiscoverFails, DiscoverRemove, DiscoverRemoveFails,
        ConnectNextFails, ConnectAllDone, ConnectWriteFails, ConnectReturns,
        ConnectReadFails, PollEnds, DisconnectDeleteFails, DisconnectDone
  <1>4. CASE ConnectNext(p)
    <2>1. /\ op[p] = "connectAll" /\ pc[p] = "connectNext" /\ todo[p] # <<>>
          /\ target'[p] = Head(todo[p]) /\ todo'[p] = Tail(todo[p])
          /\ pc'[p] = "connectWrite" /\ UNCHANGED <<op, entries, made>>
      BY <1>4, StepIsOfOp DEF ConnectNext
    <2>2. PICK n \in 0..Len(entries[p]) : AtRecord(p, n)
      BY <2>1
    <2>3. /\ made[p] = ToSet(SubSeq(entries[p], 1, n))
          /\ todo[p] = SubSeq(entries[p], n + 1, Len(entries[p]))
      BY <2>1, <2>2 DEF AtRecord
    <2>4. n < Len(entries[p])
      <3>1. n # Len(entries[p])
        BY <1>0, <2>1, <2>3
      <3> QED BY <1>0, <3>1
    <2>5. AtRecord(p, n)'
      BY ONLY <1>0, <2>1, <2>3, <2>4, PrefixFacts DEF AtRecord
    <2> QED BY <2>1, <2>5
  <1>5. CASE ConnectWrite(p)
    <2>1. /\ op[p] # "none" /\ pc[p] = "connectWrite" /\ pc'[p] = "connectRead"
          /\ made' = [made EXCEPT ![p] = @ \cup {target[p]}]
          /\ UNCHANGED <<op, entries, todo, target>>
      BY <1>5, StepIsOfOp DEF ConnectWrite
    <2>2. made' \in [Procs -> SUBSET Nqns] /\ made'[p] = made[p] \cup {target[p]}
      BY <2>1
    <2>3. ASSUME op[p] = "connectAll"
          PROVE  \E n \in 0..Len(entries[p]) : AtRecord(p, n)'
      <3>1. PICK n \in 0..Len(entries[p]) : AtRecord(p, n)
        BY <2>3
      <3>2. /\ made[p] = ToSet(SubSeq(entries[p], 1, n)) /\ n < Len(entries[p])
            /\ target[p] = entries[p][n + 1]
            /\ todo[p] = SubSeq(entries[p], n + 2, Len(entries[p]))
        BY <2>1, <3>1 DEF AtRecord
      <3>3. n + 1 \in 0..Len(entries[p]) /\ (n + 1) + 1 = n + 2
        BY <1>0, <3>2
      <3>4. made'[p] = ToSet(SubSeq(entries[p], 1, n + 1))
        BY <1>0, <2>2, <3>2, PrefixFacts
      <3>5. AtRecord(p, n + 1)'
        BY ONLY <2>1, <3>2, <3>3, <3>4 DEF AtRecord
      <3> QED BY <3>3, <3>5
    <2> QED BY <2>1, <2>2, <2>3
  <1>6. CASE ConnectAllGoesOn(p)
    <2>1. /\ op[p] = "connectAll" /\ pc[p] = "connectRead"
          /\ pc'[p] = "connectNext" /\ UNCHANGED <<op, entries, made, todo>>
      BY <1>6 DEF ConnectAllGoesOn
    <2>2. PICK n \in 0..Len(entries[p]) : AtRecord(p, n)
      BY <2>1
    <2>3. AtRecord(p, n)'
      BY ONLY <2>1, <2>2 DEF AtRecord
    <2> QED BY <2>1, <2>3
  <1>7. CASE \/ TargetConnectPolls(p) \/ PollAgain(p)
             \/ DisconnectRead(p) \/ DisconnectDelete(p)
    BY <1>7, StepIsOfOp
    DEF TargetConnectPolls, PollAgain, DisconnectRead, DisconnectDelete
  <1> QED BY <1>1, <1>3, <1>4, <1>5, <1>6, <1>7 DEF Step

LEMMA ConnectAllKept ==
  ASSUME NInv, Next
  PROVE  ConnectAllInv'
  <1> USE DEF NInv
  <1>1. CASE Environment
    BY <1>1
    DEF Environment, KernelScans, KernelLoses, TargetExports, procVars,
        ConnectAllInv, ConnectsOf, AtRecord
  <1>2. ASSUME NEW p \in Procs, Call(p) \/ Step(p)
        PROVE  ConnectAllInv'
    <2>1. ConnectsOf(p)' /\ made' \in [Procs -> SUBSET Nqns]
      BY <1>2, ConnectsOfCallKept, ConnectsOfStepKept DEF ConnectAllInv
    <2>2. ASSUME NEW q \in Procs, q # p
          PROVE  ConnectsOf(q)'
      BY <1>2, <2>2, OthersStay, SMTT(20) DEF ConnectAllInv, ConnectsOf, AtRecord
    <2> QED BY <2>1, <2>2 DEF ConnectAllInv
  <1> QED BY <1>1, <1>2 DEF Next

-----------------------------------------------------------------------------
(* The invariant, and what follows from it.                                  *)

LEMMA NInvInit == Init => NInv
  <1> SUFFICES ASSUME Init PROVE NInv
    OBVIOUS
  <1> USE DEF Init
  <1>1. log \in Seq(Targets)
    <2>1. PICK n \in 0..MaxExports : log \in [1..n -> Targets]
      BY DEF SeqOf
    <2> QED BY <2>1
  <1>2. NTypeOK
    BY <1>1 DEF NTypeOK, Io, Exists, Instances, Nqns
  <1>3. ControlInv
    BY Steps DEF ControlInv, Labels
  <1>4. AnnouncedInv /\ ConnectAllInv
    BY DEF AnnouncedInv, ConnectAllInv, ConnectsOf
  <1> QED BY <1>2, <1>3, <1>4 DEF NInv

LEMMA NInvStep == NInv /\ [Next]_vars => NInv'
  <1> SUFFICES ASSUME NInv, [Next]_vars PROVE NInv'
    OBVIOUS
  <1>1. CASE Next
    BY <1>1, TypesKept, ControlKept, AnnouncedKept, ConnectAllKept
    DEF NInv
  <1>2. CASE UNCHANGED vars
    <2>1. NTypeOK'
      BY <1>2 DEF NInv, NTypeOK, vars, Io, Exists
    <2>2. ControlInv' /\ ConnectAllInv'
      BY <1>2 DEF NInv, vars, ControlInv, ConnectAllInv, ConnectsOf, AtRecord
    <2>3. AnnouncedInv'
      BY <1>2 DEF NInv, vars, AnnouncedInv
    <2> QED BY <2>1, <2>2, <2>3 DEF NInv
  <1> QED BY <1>1, <1>2

LEMMA NInvAlways == Spec => []NInv
  BY NInvInit, NInvStep, PTL DEF Spec

(* A discover appends the log page to its entries, all of it and nothing     *)
(* else, unless the target has added to its log between the two admin        *)
(* commands (get_discovery_response_page_entries and                         *)
(* get_discovery_response_pages).                                            *)
THEOREM ReadsTheLog == Spec => DiscoverReadsTheLog
  <1> DEFINE A == \A p \in Procs :
        entries'[p] # entries[p] => p \in grew \/ entries'[p] = entries[p] \o log
  <1>1. ASSUME NInv, Next, NEW p \in Procs, entries'[p] # entries[p], p \notin grew
        PROVE  entries'[p] = entries[p] \o log
    <2> USE DEF NInv, NTypeOK
    <2>1. PICK q \in Procs : DiscoverPages(q)
      BY <1>1, LogOrEntries
    <2>2. PICK page \in Pages(count[q]) : entries' = [entries EXCEPT ![q] = @ \o page]
      BY <2>1 DEF DiscoverPages
    <2>3. q = p
      BY <1>1, <2>2
    <2>4. count[q] = Len(log) /\ count[q] \in 0..Len(log)
      BY <1>1, <2>1, <2>3 DEF DiscoverPages, AnnouncedInv
    <2>5. page = log
      BY <1>1, <2>2, <2>4, PagesType
    <2> QED BY <1>1, <2>2, <2>3, <2>5
  <1>2. NInv /\ [Next]_vars => [A]_vars
    BY <1>1 DEF vars
  <1>3. [][A]_vars => DiscoverReadsTheLog
    BY PTL DEF DiscoverReadsTheLog
  <1> QED BY <1>2, <1>3, NInvAlways, PTL DEF Spec

(* What connect_all has connected when it returns are the first records that *)
(* were found, and all of them if it returns Ok (Discovery::connect_all).    *)
THEOREM ConnectsThePrefix == Spec => ConnectsUpToAnError
  <1> DEFINE A == \A p \in Procs :
        op[p] = "connectAll" /\ pc'[p] = "idle" =>
          /\ \E n \in 0..Len(entries[p]) : made[p] = ToSet(SubSeq(entries[p], 1, n))
          /\ result'[p] = "Ok" => made[p] = ToSet(entries[p])
  <1>0. ASSUME NInv, NEW p \in Procs, op[p] = "connectAll"
        PROVE  \E n \in 0..Len(entries[p]) : made[p] = ToSet(SubSeq(entries[p], 1, n))
    BY <1>0 DEF NInv, ConnectAllInv, ConnectsOf, AtRecord
  <1>1. ASSUME NInv, Next, NEW p \in Procs, op[p] = "connectAll",
               pc'[p] = "idle", result'[p] = "Ok"
        PROVE  made[p] = ToSet(entries[p])
    <2> USE DEF NInv
    <2>1. pc[p] \in {"connectNext", "connectWrite", "connectRead"}
      BY <1>1, Steps DEF ControlInv
    <2>2. ~Environment
      BY <1>1, <2>1
      DEF Environment, KernelScans, KernelLoses, TargetExports, procVars
    <2>3. Call(p) \/ Step(p)
      <3>1. PICK q \in Procs : Call(q) \/ Step(q)
        BY <1>1, <2>2 DEF Next
      <3>2. CASE q # p
        <4>1. pc'[p] = pc[p]
          BY <1>1, <3>1, <3>2, OthersStay
        <4> QED BY <1>1, <2>1, <4>1
      <3> QED BY <3>1, <3>2
    <2>4. ~Call(p)
      BY <2>1
      DEF Call, Begin, Discover, ConnectAll, ConnectAllEmpty, Connect,
          ConnectRefused, TargetConnect, Disconnect
    <2>5. ConnectAllDone(p)
      BY <1>1, <2>1, <2>3, <2>4
      DEF Step, Goto, Return, NTypeOK, ControlInv, DiscoverWrite,
          DiscoverWriteFails, DiscoverCount, DiscoverPages, DiscoverFails,
          DiscoverRemove, DiscoverRemoveFails, ConnectNext, ConnectNextFails,
          ConnectWrite, ConnectWriteFails, ConnectReturns, ConnectAllGoesOn,
          TargetConnectPolls, ConnectReadFails, PollAgain, PollEnds,
          DisconnectRead, DisconnectDelete, DisconnectDeleteFails,
          DisconnectDone
    <2>6. pc[p] = "connectNext" /\ todo[p] = <<>>
      BY <2>5 DEF ConnectAllDone
    <2>7. PICK n \in 0..Len(entries[p]) : AtRecord(p, n)
      BY <1>1 DEF ConnectAllInv, ConnectsOf
    <2>8. /\ made[p] = ToSet(SubSeq(entries[p], 1, n))
          /\ SubSeq(entries[p], n + 1, Len(entries[p])) = <<>>
      BY <2>6, <2>7 DEF AtRecord
    <2>9. entries[p] \in Seq(Targets \cup {Garbage})
      BY <1>1 DEF NTypeOK
    <2>10. n = Len(entries[p]) /\ SubSeq(entries[p], 1, Len(entries[p])) = entries[p]
      BY <2>8, <2>9, PrefixFacts
    <2> QED BY <2>8, <2>10
  <1>2. NInv /\ [Next]_vars => [A]_vars
    BY <1>0, <1>1 DEF vars
  <1>3. [][A]_vars => ConnectsUpToAnError
    BY PTL DEF ConnectsUpToAnError
  <1> QED BY <1>2, <1>3, NInvAlways, PTL DEF Spec

-----------------------------------------------------------------------------
(* What the numbers stand for.  Controllers are made where there was none;   *)
(* a discover takes its own away, disconnect the one it has read, and the    *)
(* kernel any that is no discovery controller.                               *)

Makes(i) ==
  /\ ~Exists(i) /\ ctl'[i] # Free
  /\ \A j \in Instances \ {i} : ctl'[j] = ctl[j]
Takes(i) ==
  ctl'[i] = Free /\ \A j \in Instances \ {i} : ctl'[j] = ctl[j]

LEMMA EnvironmentTakes ==
  ASSUME NInv, Environment
  PROVE  \/ UNCHANGED ctl
         \/ MaxLosses # 0 /\ losses' # losses /\ \E i \in Instances : Io(i) /\ Takes(i)
  <1>1. ASSUME NEW i \in Instances, KernelLoses(i)
        PROVE  MaxLosses # 0 /\ losses' # losses /\ Io(i) /\ Takes(i)
    BY <1>1, Deleted DEF KernelLoses, NInv, ControlInv, Takes
  <1> QED BY <1>1 DEF Environment, KernelScans, TargetExports

LEMMA ProcessChanges ==
  ASSUME NInv, NEW p \in Procs, Call(p) \/ Step(p)
  PROVE  \/ UNCHANGED ctl
         \/ \E i \in Instances : Makes(i)
         \/ DiscoverRemove(p) /\ Takes(ctlId[p])
         \/ DisconnectDelete(p) /\ Takes(ctlId[p])
  <1> USE DEF NInv
  <1>1. CASE Call(p)
    BY <1>1
    DEF Call, Discover, ConnectAll, ConnectAllEmpty, Connect, ConnectRefused,
        TargetConnect, Disconnect, kernelVars
  <1>2. CASE DiscoverWrite(p) \/ ConnectWrite(p)
    BY <1>2, Created DEF DiscoverWrite, ConnectWrite, NTypeOK, Nqns, Makes
  <1>3. CASE DiscoverRemove(p) \/ DisconnectDelete(p)
    BY <1>3, Deleted DEF DiscoverRemove, DisconnectDelete, NTypeOK, Takes
  <1> QED
    BY <1>1, <1>2, <1>3
    DEF Step, kernelVars, DiscoverWriteFails, DiscoverCount, DiscoverPages,
        DiscoverFails, DiscoverRemoveFails, ConnectNext, ConnectNextFails,
        ConnectAllDone, ConnectWriteFails, ConnectReturns, ConnectAllGoesOn,
        TargetConnectPolls, ConnectReadFails, PollAgain, PollEnds,
        DisconnectRead, DisconnectDeleteFails, DisconnectDone

(* What a process takes away is what it means, unless its number was taken.  *)
LEMMA TakesItsOwn ==
  ASSUME NInv, OwnInv, NEW p \in Procs
  PROVE  /\ DiscoverRemove(p) =>
              op[p] = "discover" /\ pc'[p] # pc[p] /\ (p \in stale \/ Owned(p))
         /\ DisconnectDelete(p) =>
              op[p] = "disconnect" /\ pc'[p] # pc[p] /\ (p \in stale \/ Named(p))
  <1> USE DEF NInv, OwnInv, ControlInv, Right
  <1>1. ASSUME DiscoverRemove(p)
        PROVE  op[p] = "discover" /\ pc'[p] # pc[p] /\ (p \in stale \/ Owned(p))
    BY <1>1, StepIsOfOp DEF DiscoverRemove, Discovering, OwnSteps, Return, Goto
  <1>2. ASSUME DisconnectDelete(p)
        PROVE  op[p] = "disconnect" /\ pc'[p] # pc[p] /\ (p \in stale \/ Named(p))
    BY <1>2, StepIsOfOp DEF DisconnectDelete, Goto
  <1> QED BY <1>1, <1>2

(* A controller is made where there was none and stays as it is until it is  *)
(* taken away.                                                               *)
LEMMA ChangedIsTaken ==
  ASSUME NInv, Next, NEW i \in Instances, Exists(i), ctl'[i] # Free
  PROVE  ctl'[i] = ctl[i]
  <1> USE DEF NInv, NTypeOK
  <1>1. CASE Environment
    BY <1>1, EnvironmentTakes DEF Takes
  <1>2. ASSUME NEW p \in Procs, Call(p) \/ Step(p)
        PROVE  ctl'[i] = ctl[i]
    BY <1>2, ProcessChanges DEF Makes, Takes
  <1> QED BY <1>1, <1>2 DEF Next

(* A discovery controller is taken away by the discover that made it, or by  *)
(* a process which has lost its own.                                         *)
LEMMA DiscoveryIsTaken ==
  ASSUME NInv, OwnInv, Next, NEW p \in Procs, Owned(p), ctl'[ctlId[p]] = Free,
         pc'[p] = pc[p]
  PROVE  \E q \in stale : pc'[q] # pc[q]
  <1> USE DEF NInv, NTypeOK
  <1>0. ctlId[p] \in Instances /\ ctl[ctlId[p]] # Free
    BY DEF Owned, Exists
  <1>1. ~Environment
    BY <1>0, EnvironmentTakes DEF Owned, Io, Takes
  <1>2. PICK q \in Procs : Call(q) \/ Step(q)
    BY <1>1 DEF Next
  <1>3. \/ DiscoverRemove(q) /\ Takes(ctlId[q])
        \/ DisconnectDelete(q) /\ Takes(ctlId[q])
    BY <1>0, <1>2, ProcessChanges DEF Makes, Exists
  <1>4. ctlId[q] = ctlId[p] /\ pc'[q] # pc[q] /\ q # p
    BY <1>0, <1>3, TakesItsOwn DEF Takes
  <1>5. q \in stale
    <2>1. CASE DiscoverRemove(q)
      BY <1>4, <2>1, TakesItsOwn DEF Owned
    <2>2. CASE DisconnectDelete(q)
      BY <1>4, <2>2, TakesItsOwn DEF Owned, Named, Io
    <2> QED BY <1>3, <2>1, <2>2
  <1> QED BY <1>4, <1>5

(* So what a process holds stays right under what others do, or it is known  *)
(* to be stale.                                                              *)
LEMMA RightLeftAlone ==
  ASSUME NInv, OwnInv, Next, NEW p \in Procs, p \notin stale',
         pc'[p] = pc[p], ctlId'[p] = ctlId[p], target'[p] = target[p]
  PROVE  Right(p)'
  <1> USE DEF NInv, NTypeOK
  <1>1. SUFFICES ASSUME pc[p] \in Holding
                 PROVE  Right(p)'
    BY DEF Right, Holding, OwnSteps
  <1>2. p \notin stale /\ ~Taken(p)
    BY <1>1 DEF Next, Remember
  <1>3. Right(p) /\ ctlId[p] \in Instances /\ Exists(ctlId[p])
    BY <1>1, <1>2 DEF OwnInv, Right, Owned, Named, Io, Holding, OwnSteps
  <1>4. ctl'[ctlId[p]] # Free
    <2>1. CASE op[p] = "discover"
      <3>1. pc[p] \in OwnSteps
        BY <1>1, <2>1, StepIsOfOp DEF Holding, OwnSteps, Discovering
      <3>2. Owned(p)
        BY <1>3, <3>1 DEF Right
      <3> QED BY <1>1, <1>2, <1>3, <3>2, DiscoveryIsTaken DEF Taken
    <2>2. CASE op[p] # "discover"
      BY <1>1, <1>2, <1>3, <2>2 DEF Taken
    <2> QED BY <2>1, <2>2
  <1>5. ctl'[ctlId[p]] = ctl[ctlId[p]]
    BY <1>3, <1>4, ChangedIsTaken
  <1> QED BY <1>3, <1>5 DEF Right, Owned, Named, Io, Exists

(* What a process itself gets the number of.                                 *)
LEMMA OwnSetsNumber ==
  ASSUME NInv, OwnInv, Next, NEW p \in Procs, Call(p) \/ Step(p), p \notin stale'
  PROVE  Right(p)'
  <1> USE DEF NInv, NTypeOK, ControlInv, Goto, Right
  <1>1. CASE Call(p)
    <2>1. pc'[p] \in {"idle", "discoverWrite", "connectNext", "connectWrite",
                      "disconnectRead"}
      BY <1>1
      DEF Call, Begin, Discover, ConnectAll, ConnectAllEmpty, Connect,
          ConnectRefused, TargetConnect, Disconnect
    <2> QED BY <2>1 DEF OwnSteps
  <1>2. CASE DiscoverWrite(p)
    <2>1. PICK i \in Instances :
            /\ Create(i, "discovery", DiscoveryNqn, p)
            /\ ctlId' = [ctlId EXCEPT ![p] = i]
      BY <1>2 DEF DiscoverWrite
    <2>2. ctl'[i] # Free /\ ctl'[i].kind = "discovery" /\ ctl'[i].by = p
      <3>1. DiscoveryNqn \in Nqns /\ NTypeOK
        BY DEF Nqns
      <3> QED BY ONLY <2>1, <3>1, Created
    <2> QED BY <1>2, <2>1, <2>2 DEF DiscoverWrite, OwnSteps, Owned, Exists
  <1>3. CASE ConnectWrite(p)
    <2>1. PICK i \in Instances :
            /\ Create(i, "io", target[p], p)
            /\ ctlId' = [ctlId EXCEPT ![p] = i]
      BY <1>3 DEF ConnectWrite
    <2>2. ctl'[i] # Free /\ ctl'[i].kind = "io" /\ ctl'[i].nqn = target[p]
          /\ ctl'[i].by = p
      BY <2>1, Created
    <2> QED BY <1>3, <2>1, <2>2 DEF ConnectWrite, OwnSteps, Named, Io, Exists
  <1>4. CASE DiscoverCount(p) \/ DiscoverPages(p)
    <2>1. UNCHANGED <<ctl, ctlId>> /\ {pc[p], pc'[p]} \subseteq OwnSteps
      BY <1>4 DEF DiscoverCount, DiscoverPages, kernelVars, OwnSteps
    <2>2. p \notin stale
      BY <2>1 DEF Next, Remember, Holding, OwnSteps
    <2>3. Owned(p)
      BY <2>1, <2>2 DEF OwnInv
    <2> QED BY <2>1, <2>3 DEF Owned, Exists, OwnSteps
  <1>5. CASE DisconnectRead(p)
    <2>1. PICK i \in names[p] :
            IF Io(i) /\ ctl[i].nqn = target[p]
              THEN Goto(p, "disconnectDelete") /\ ctlId' = [ctlId EXCEPT ![p] = i]
              ELSE UNCHANGED <<pc, ctlId>>
      BY <1>5 DEF DisconnectRead
    <2>2. /\ UNCHANGED <<ctl, target>> /\ pc[p] = "disconnectRead"
          /\ i \in Instances
      BY <1>5, <2>1 DEF DisconnectRead, kernelVars
    <2> QED BY <2>1, <2>2 DEF Named, Io, Exists, OwnSteps
  <1>6. ASSUME \/ DiscoverWriteFails(p) \/ DiscoverFails(p)
               \/ DiscoverRemove(p) \/ DiscoverRemoveFails(p)
               \/ ConnectNextFails(p) \/ ConnectAllDone(p)
               \/ ConnectWriteFails(p) \/ ConnectReturns(p)
               \/ ConnectReadFails(p) \/ PollEnds(p)
               \/ DisconnectDeleteFails(p) \/ DisconnectDone(p)
        PROVE  pc'[p] = "idle"
    BY <1>6
    DEF Return, DiscoverWriteFails, DiscoverFails, DiscoverRemove,
        DiscoverRemoveFails, ConnectNextFails, ConnectAllDone,
        ConnectWriteFails, ConnectReturns, ConnectReadFails, PollEnds,
        DisconnectDeleteFails, DisconnectDone
  <1>7. ASSUME \/ ConnectNext(p) \/ ConnectAllGoesOn(p) \/ TargetConnectPolls(p)
               \/ PollAgain(p) \/ DisconnectDelete(p)
        PROVE  pc'[p] \in {"connectWrite", "connectNext", "poll", "disconnectRead"}
    BY <1>7
    DEF ConnectNext, ConnectAllGoesOn, TargetConnectPolls, PollAgain,
        DisconnectDelete
  <1> QED BY <1>1, <1>2, <1>3, <1>4, <1>5, <1>6, <1>7 DEF Step, OwnSteps

-----------------------------------------------------------------------------
(* The invariant about the numbers, and what follows from it.                *)

LEMMA OwnKept ==
  ASSUME NInv, OwnInv, Next
  PROVE  OwnInv'
  <1> SUFFICES ASSUME NEW p \in Procs, p \notin stale'
               PROVE  Right(p)'
    BY DEF OwnInv
  <1>1. CASE Environment
    <2>1. UNCHANGED <<pc, ctlId, target>>
      BY <1>1 DEF Environment, KernelScans, KernelLoses, TargetExports, procVars
    <2> QED BY <2>1, RightLeftAlone
  <1>2. ASSUME NEW q \in Procs, Call(q) \/ Step(q)
        PROVE  Right(p)'
    <2>1. CASE q = p
      BY <1>2, <2>1, OwnSetsNumber
    <2>2. CASE q # p
      <3>1. pc'[p] = pc[p] /\ ctlId'[p] = ctlId[p] /\ target'[p] = target[p]
        BY <1>2, <2>2, OthersStay DEF NInv
      <3> QED BY <3>1, RightLeftAlone
    <2> QED BY <2>1, <2>2
  <1> QED BY <1>1, <1>2 DEF Next

LEMMA OwnStutters ==
  ASSUME UNCHANGED vars, OwnInv
  PROVE  OwnInv'
  BY DEF vars, OwnInv, Right, Owned, Named, Io, Exists

LEMMA OwnAlways == Spec => [](NInv /\ OwnInv)
  <1>1. Init => OwnInv
    BY DEF Init, OwnInv, Right, OwnSteps
  <1>2. NInv /\ OwnInv /\ [Next]_vars => OwnInv'
    BY OwnKept, OwnStutters
  <1> QED BY <1>1, <1>2, NInvAlways, PTL DEF Spec

(* What a discover does goes to the discovery controller it has made, with   *)
(* any number of processes that discover, connect and disconnect, unless     *)
(* that was taken away by a process which deleted by a number it had lost    *)
(* (Discovery::discover, remove_controller).                                 *)
THEOREM WorksOnItsOwn == Spec => []NvmfInv
  <1>1. NInv /\ OwnInv => NvmfInv
    BY DEF NInv, OwnInv, NvmfInv, OwnDiscoveryController, Right, OwnSteps
  <1> QED BY <1>1, OwnAlways, PTL

(* What is deleted is a discover's own controller or one that has the NQN    *)
(* given to disconnect, unless the process's number was taken away between   *)
(* its read and its delete (disconnect, Subsystem::disconnect).              *)
THEOREM DeletesNamed == Spec => DeletesWhatItNamed
  <1> DEFINE A == \A i \in Instances :
        Exists(i) /\ ctl'[i] = Free /\ losses' = losses =>
          \E p \in Procs : ctlId[p] = i /\ pc'[p] # pc[p] /\ (p \in stale \/ Means(p))
  <1>1. ASSUME NInv, OwnInv, Next, NEW i \in Instances, Exists(i),
               ctl'[i] = Free, losses' = losses
        PROVE  \E p \in Procs :
                 ctlId[p] = i /\ pc'[p] # pc[p] /\ (p \in stale \/ Means(p))
    <2>1. ~Environment
      BY <1>1, EnvironmentTakes DEF Exists
    <2>2. PICK p \in Procs : Call(p) \/ Step(p)
      BY <1>1, <2>1 DEF Next
    <2>3. ASSUME NEW j \in Instances
          PROVE  ~Makes(j)
      BY <1>1 DEF Makes, Exists
    <2>4. \/ DiscoverRemove(p) /\ Takes(ctlId[p])
          \/ DisconnectDelete(p) /\ Takes(ctlId[p])
      BY <1>1, <2>2, <2>3, ProcessChanges DEF Exists
    <2>5. i = ctlId[p]
      BY <1>1, <2>4 DEF Takes, Exists
    <2>6. pc'[p] # pc[p] /\ (p \in stale \/ Means(p))
      BY <1>1, <2>4, TakesItsOwn DEF Means, Named
    <2> QED BY <2>5, <2>6
  <1>2. NInv /\ OwnInv /\ [Next]_vars => [A]_vars
    BY <1>1 DEF vars
  <1>3. [][A]_vars => DeletesWhatItNamed
    BY PTL DEF DeletesWhatItNamed
  <1> QED BY <1>2, <1>3, OwnAlways, PTL DEF Spec

(* The Subsystem that connect makes of the number it was given is the one it *)
(* has connected, unless that was taken away before it was read              *)
(* (ConnectArgs::connect, Subsystem::new).                                   *)
THEOREM ReadsTheConnected == Spec => SubsystemIsTheConnected
  <1> DEFINE A == \A p \in Procs :
        pc[p] = "connectRead" /\ pc'[p] # pc[p] /\ result'[p] # "Err" =>
          p \in stale \/ (ctl[ctlId[p]].nqn = target[p] /\ ctl[ctlId[p]].by = p)
  <1>1. ASSUME OwnInv, NEW p \in Procs, pc[p] = "connectRead", p \notin stale
        PROVE  ctl[ctlId[p]].nqn = target[p] /\ ctl[ctlId[p]].by = p
    BY <1>1 DEF OwnInv, Right, Named
  <1>2. OwnInv /\ [Next]_vars => [A]_vars
    BY <1>1
  <1>3. [][A]_vars => SubsystemIsTheConnected
    BY PTL DEF SubsystemIsTheConnected
  <1> QED BY <1>2, <1>3, OwnAlways, PTL DEF Spec
=============================================================================
