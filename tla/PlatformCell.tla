---------------------------- MODULE PlatformCell ----------------------------
(***************************************************************************)
(* The cached platform information (platform/src/lib.rs): a tokio OnceCell *)
(* that tasks fill by init_cluster_info, and that platform_info fills when *)
(* it is empty, from a thread and a runtime of its own which its caller    *)
(* waits for.  A caller that is itself a task of the program's runtime     *)
(* keeps a worker of it busy while it waits.                               *)
(***************************************************************************)
EXTENDS Integers, FiniteSets, Sequences

CONSTANTS
  Tasks,      \* tasks that await init_cluster_info
  Callers,    \* tasks that call platform_info
  Threads,    \* threads outside the runtime that call platform_info
  MaxCalls    \* bound: calls of each

Users == Tasks \cup Callers \cup Threads
Free == "free"

ASSUME CellAssumption ==
  /\ {Free, "unset"} \cap Users = {} /\ MaxCalls \in Nat
  /\ Tasks \cap Callers = {} /\ Tasks \cap Threads = {} /\ Callers \cap Threads = {}

VARIABLES
  workers,   \* how many workers the program's runtime has
  remote,    \* current_platform_type is K8s: its information is fetched
  cell,      \* PLATFORM: "unset", or who filled it
  permit,    \* OnceCell's semaphore: who may initialise
  queue,     \* who waits for it, in order
  at,        \* where each user is
  calledBy,      \* the calls each user has made
  results    \* history: what the calls have returned
cellVars == <<workers, remote, cell, permit, queue, at, calledBy, results>>

Inside == {"poll", "wait", "connect", "fetch"}
Waiting == {u \in Callers : at[u] \in Inside}

(* A task needs a free worker to go on; the thread that platform_info      *)
(* spawns has its own runtime.                                             *)
CanRun(u) == u \in Threads \cup Waiting \/ Cardinality(Waiting) < workers

Settled(u) == at[u] \in {"idle", "ok", "failed", "cancelled"}
-----------------------------------------------------------------------------
CellInit ==
  /\ workers \in 1..2 /\ remote \in BOOLEAN
  /\ cell = "unset" /\ permit = Free /\ queue = <<>>
  /\ at = [u \in Users |-> "idle"] /\ calledBy = [u \in Users |-> 0] /\ results = {}

Goto(u, s) == at' = [at EXCEPT ![u] = s]

(* init_cluster_info, or platform_info when the cell is empty: it spawns a *)
(* thread that runs init_cluster_info_or_panic, and joins it.              *)
Call(u) ==
  /\ Settled(u) /\ calledBy[u] < MaxCalls /\ CanRun(u)
  /\ calledBy' = [calledBy EXCEPT ![u] = @ + 1]
  /\ IF u \notin Tasks /\ cell # "unset"
     THEN Goto(u, "ok") /\ results' = results \cup {cell}
     ELSE Goto(u, "poll") /\ UNCHANGED results
  /\ UNCHANGED <<workers, remote, cell, permit, queue>>

KeepPermit == UNCHANGED <<permit, queue>>   \* mutated form
(* The semaphore gives the permit to who has waited longest.               *)
Release ==
  IF queue = <<>> THEN permit' = Free /\ UNCHANGED queue
  ELSE permit' = Head(queue) /\ queue' = Tail(queue)

PollAndSet(u) ==   \* mutated form: looks, and initialises without the permit
  /\ at[u] = "poll" /\ CanRun(u)
  /\ \/ cell # "unset" /\ Goto(u, "ok") /\ results' = results \cup {cell}
     \/ cell = "unset" /\ Goto(u, "connect") /\ UNCHANGED results
  /\ UNCHANGED <<workers, remote, cell, permit, queue, calledBy>>

(* get_or_try_init: the value if there is one, the permit if it is free.   *)
Poll(u) ==
  /\ at[u] = "poll" /\ CanRun(u)
  /\ \/ /\ cell # "unset"
        /\ Goto(u, "ok") /\ results' = results \cup {cell} /\ UNCHANGED <<permit, queue>>
     \/ /\ cell = "unset" /\ permit = Free
        /\ permit' = u /\ Goto(u, "connect") /\ UNCHANGED <<queue, results>>
     \/ /\ cell = "unset" /\ permit # Free
        /\ queue' = Append(queue, u) /\ Goto(u, "wait") /\ UNCHANGED <<permit, results>>
  /\ UNCHANGED <<workers, remote, cell, calledBy>>

(* A waiter is woken by the permit, or by the semaphore that is closed     *)
(* with the cell filled.                                                   *)
Wake(u) ==
  /\ at[u] = "wait" /\ CanRun(u)
  /\ \/ cell # "unset" /\ Goto(u, "ok") /\ results' = results \cup {cell}
     \/ cell = "unset" /\ permit = u /\ Goto(u, "connect") /\ UNCHANGED results
  /\ UNCHANGED <<workers, remote, cell, permit, queue, calledBy>>

(* K8s::new: a client, then the kube-system namespace.                     *)
Connected(u) ==
  /\ at[u] = "connect" /\ CanRun(u) /\ remote
  /\ Goto(u, "fetch")
  /\ UNCHANGED <<workers, remote, cell, permit, queue, calledBy, results>>

(* The information is there: Deployer's and None's at once.                *)
Filled(u) ==
  /\ at[u] = (IF remote THEN "fetch" ELSE "connect") /\ CanRun(u)
  /\ cell' = u /\ results' = results \cup {u}
  /\ permit' = Free /\ queue' = <<>>
  /\ Goto(u, "ok")
  /\ UNCHANGED <<workers, remote, calledBy>>

(* Either request fails: the permit goes on, the caller gets the error, or *)
(* the panic that init_cluster_info_or_panic makes of it.                  *)
Fails(u) ==
  /\ at[u] \in {"connect", "fetch"} /\ CanRun(u) /\ remote
  /\ Goto(u, "failed") /\ Release
  /\ UNCHANGED <<workers, remote, cell, calledBy, results>>

(* A task is dropped at an await.                                          *)
Cancelled(u) ==
  /\ u \in Tasks /\ at[u] \in Inside /\ CanRun(u)
  /\ Goto(u, "cancelled")
  /\ IF permit = u THEN Release
     ELSE queue' = SelectSeq(queue, LAMBDA v : v # u) /\ UNCHANGED permit
  /\ UNCHANGED <<workers, remote, cell, calledBy, results>>

Progress(u) == Poll(u) \/ Wake(u) \/ Connected(u) \/ Filled(u)

CellNext == \E u \in Users : Call(u) \/ Progress(u) \/ Fails(u) \/ Cancelled(u)

(* Tasks that can run are run and requests are answered; nothing makes     *)
(* them succeed.                                                           *)
CellFairness == \A u \in Users : WF_cellVars(Progress(u))
-----------------------------------------------------------------------------
Stuck == Cardinality(Waiting) >= workers

(* However many initialise at once, fail or are dropped, all calls that    *)
(* return anything return the same, and from then on none fails.           *)
OneResult == Cardinality(results) <= 1
NoneFailsOnceFilled ==
  [][\A u \in Users : cell # "unset" /\ at[u] # "failed" => at'[u] # "failed"]_cellVars

(* Only one at a time asks the platform.                                   *)
OneAsks == Cardinality({u \in Users : at[u] \in {"connect", "fetch"}}) <= 1

(* Every call comes to an end, unless for ever all workers of the runtime  *)
(* wait in platform_info: then the task that holds the permit never runs.  *)
CallsReturn == \A u \in Users : at[u] = "poll" ~> (Settled(u) \/ []Stuck)
=============================================================================
