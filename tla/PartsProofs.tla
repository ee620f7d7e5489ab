----------------------------- MODULE PartsProofs -----------------------------
(***************************************************************************)
(* Proofs about the small parts that have nothing to do with one another,  *)
(* one section for each, for every value of their constants: the retries,  *)
(* the platform cell, the sources of the events, the normal forms of       *)
(* durations and timestamps, and the handles of subsystems.                *)
(***************************************************************************)
EXTENDS RetryLoop, PlatformCell, EventSource, ProtoTime, SubsystemHandles, FiniteSetTheorems,
        TLAPS

-----------------------------------------------------------------------------
(* The delays, the requests and the waiting time of RetryLoop for options    *)
(* of any size.                                                              *)

LEMMA OptionsType ==
  ASSUME NEW o \in BackoffOptions
  PROVE  /\ o.init_delay \in Nat /\ o.step \in Nat /\ o.max_delay \in Nat
         /\ o.cutoff \in Nat /\ o.max_retries \in Nat
         /\ o.init_delay <= o.max_delay
BY RetryAssumption DEF BackoffOptions, RetryAssumption

LEMMA ProductGrows ==
  ASSUME NEW a \in Nat, NEW b \in Nat, a <= b, NEW s \in Nat
  PROVE  a * s \in Nat /\ b * s \in Nat /\ a * s <= b * s
<1>1. PICK c \in Nat : b = a + c
  <2>1. b - a \in Nat /\ b = a + (b - a)
    OBVIOUS
  <2> QED BY <2>1
<1>2. b * s = a * s + c * s /\ c * s \in Nat /\ a * s \in Nat
  BY <1>1
<1> QED BY <1>2

(* backoff_with_options never sleeps for less than the initial delay nor   *)
(* for more than the maximum, and never for less than it did the time      *)
(* before.                                                                 *)
THEOREM DelayGrows ==
  ASSUME NEW o \in BackoffOptions, NEW t \in Nat
  PROVE  /\ Delay(o, t) \in o.init_delay .. o.max_delay
         /\ Delay(o, t) <= Delay(o, t + 1)
<1> DEFINE k(n) == n - o.cutoff - 1
<1>1. /\ o.init_delay \in Nat /\ o.step \in Nat /\ o.max_delay \in Nat
      /\ o.cutoff \in Nat /\ o.init_delay <= o.max_delay
  BY OptionsType
<1>2. CASE t > o.cutoff
  <2>1. k(t) \in Nat /\ k(t + 1) \in Nat /\ k(t) <= k(t + 1)
    BY <1>1, <1>2
  <2>2. /\ k(t) * o.step \in Nat /\ k(t + 1) * o.step \in Nat
        /\ k(t) * o.step <= k(t + 1) * o.step
    BY <1>1, <2>1, ProductGrows
  <2>3. /\ Delay(o, t) = AtMost(o.init_delay + k(t) * o.step, o.max_delay)
        /\ Delay(o, t + 1) = AtMost(o.init_delay + k(t + 1) * o.step, o.max_delay)
    BY <1>1, <1>2 DEF Delay
  <2> HIDE DEF k
  <2> QED BY <1>1, <2>2, <2>3 DEF AtMost
<1>3. CASE t = o.cutoff
  <2>1. k(t + 1) = 0 /\ 0 * o.step = 0
    BY <1>1, <1>3
  <2>2. Delay(o, t) = o.init_delay
    BY <1>1, <1>3 DEF Delay
  <2>3. Delay(o, t + 1) = AtMost(o.init_delay + k(t + 1) * o.step, o.max_delay)
    BY <1>1, <1>3 DEF Delay
  <2> HIDE DEF k
  <2> QED BY <1>1, <2>1, <2>2, <2>3 DEF AtMost
<1>4. CASE t < o.cutoff
  BY <1>1, <1>4 DEF Delay
<1> QED BY <1>1, <1>2, <1>3, <1>4

LEMMA NextTimes ==
  ASSUME NEW t \in Nat, NEW d \in Nat
  PROVE  (t + 1) * d = t * d + d /\ t * d \in Nat
OBVIOUS

(* While the loop runs it has made one request for each delay, and the last*)
(* delay is the one that the number of tries calls for.                    *)
RetryInv ==
  /\ options \in BackoffOptions
  /\ tries \in 0..options.max_retries
  /\ outcome \in {"trying", "ok", "error"}
  /\ requests = IF outcome = "trying" THEN tries ELSE tries + 1
  /\ outcome = "error" => tries = options.max_retries
  /\ waited \in tries * options.init_delay .. tries * options.max_delay
  /\ delay = IF tries = 0 THEN 0 ELSE Delay(options, tries)

LEMMA RetryInvHolds == RetrySpec => []RetryInv
<1>1. RetryInit => RetryInv
  <2> SUFFICES ASSUME RetryInit PROVE RetryInv
    OBVIOUS
  <2>1. options.init_delay \in Nat /\ options.max_delay \in Nat /\ options.max_retries \in Nat
    BY OptionsType DEF RetryInit
  <2>2. 0 * options.init_delay = 0 /\ 0 * options.max_delay = 0
    BY <2>1
  <2> QED BY <2>1, <2>2 DEF RetryInit, RetryInv
<1>2. RetryInv /\ [RetryNext]_retryVars => RetryInv'
  <2> SUFFICES ASSUME RetryInv, [RetryNext]_retryVars PROVE RetryInv'
    OBVIOUS
  <2>1. /\ options.init_delay \in Nat /\ options.max_delay \in Nat
        /\ options.max_retries \in Nat /\ tries \in Nat
        /\ options \in BackoffOptions
    BY OptionsType DEF RetryInv
  <2>2. CASE Succeed
    BY <2>1, <2>2 DEF Succeed, RetryInv
  <2>3. CASE GiveUp
    BY <2>1, <2>3 DEF GiveUp, LastTry, RetryInv
  <2>4. CASE BackOff
    <3>1. /\ options' = options /\ outcome' = outcome /\ outcome = "trying"
          /\ tries' = tries + 1 /\ requests' = requests + 1
          /\ delay' = Delay(options, tries + 1) /\ waited' = waited + delay'
          /\ tries # options.max_retries
      BY <2>4 DEF BackOff, LastTry
    <3>2. delay' \in options.init_delay .. options.max_delay
      BY <2>1, <3>1, DelayGrows
    <3>3. /\ (tries + 1) * options.init_delay = tries * options.init_delay + options.init_delay
          /\ (tries + 1) * options.max_delay = tries * options.max_delay + options.max_delay
          /\ tries * options.init_delay \in Nat /\ tries * options.max_delay \in Nat
      BY <2>1, NextTimes
    <3>4. waited' \in tries' * options'.init_delay .. tries' * options'.max_delay
      <4>1. waited \in tries * options.init_delay .. tries * options.max_delay
        BY DEF RetryInv
      <4> QED BY <2>1, <3>1, <3>2, <3>3, <4>1
    <3>5. tries' \in 0..options'.max_retries /\ tries' # 0
      BY <2>1, <3>1 DEF RetryInv
    <3> QED BY <3>1, <3>4, <3>5 DEF RetryInv
  <2>5. CASE UNCHANGED retryVars
    BY <2>5 DEF retryVars, RetryInv
  <2> QED BY <2>2, <2>3, <2>4, <2>5 DEF RetryNext
<1> QED BY <1>1, <1>2, PTL DEF RetrySpec

(* However large its options, the loop gives up after max_retries + 1      *)
(* requests and has waited as long as they say.                            *)
THEOREM RetriesBounded == RetrySpec => []Bounded
<1>1. RetryInv => Bounded
  <2> SUFFICES ASSUME RetryInv PROVE Bounded
    OBVIOUS
  <2>1. options.max_retries \in Nat /\ tries \in Nat
    BY OptionsType DEF RetryInv
  <2> QED BY <2>1 DEF RetryInv, Bounded
<1> QED BY <1>1, RetryInvHolds, PTL

(* However large its options, a delay is never shorter than the one before.*)
THEOREM DelaysGrow == RetrySpec => GraduallyLarger
<1>1. RetryInv /\ [RetryNext]_retryVars => [delay <= delay']_retryVars
  <2> SUFFICES ASSUME RetryInv, RetryNext PROVE delay <= delay'
    OBVIOUS
  <2>1. tries \in Nat /\ options \in BackoffOptions
        /\ options.init_delay \in Nat /\ options.max_delay \in Nat
    BY OptionsType DEF RetryInv
  <2>2. Delay(options, tries) \in options.init_delay .. options.max_delay
        /\ Delay(options, tries + 1) \in options.init_delay .. options.max_delay
        /\ Delay(options, tries) <= Delay(options, tries + 1)
    BY <2>1, DelayGrows
  <2>3. delay \in Int /\ delay <= delay
    BY <2>1, <2>2 DEF RetryInv
  <2>4. CASE BackOff
    BY <2>1, <2>2, <2>4 DEF BackOff, RetryInv
  <2>5. CASE delay' = delay
    BY <2>3, <2>5
  <2> QED BY <2>4, <2>5 DEF RetryNext, Succeed, GiveUp
<1> QED BY <1>1, RetryInvHolds, PTL DEF RetrySpec, GraduallyLarger

-----------------------------------------------------------------------------
(* The platform cell gives one result to everyone and no failure once it is  *)
(* filled, for any number of tasks, threads, calls and workers.              *)

Asking(u) == at[u] \in {"connect", "fetch"}

(* What makes OneResult inductive: whoever asks the platform has the       *)
(* permit and an empty cell before him, so that nobody else fills it.      *)
CellInv ==
  /\ DOMAIN at = Users
  /\ \A u \in Users : Asking(u) => permit = u /\ cell = "unset"
  /\ results \subseteq {cell}
  /\ cell = "unset" => results = {}

LEMMA CellInit_Inv == CellInit => CellInv
  BY DEF CellInit, CellInv, Asking

(* A step of one user that leaves the cell and does not begin to ask.      *)
LEMMA OthersStay ==
  ASSUME CellInv, NEW u \in Users, NEW s, Goto(u, s),
         s \notin {"connect", "fetch"}, cell' = cell,
         permit' = permit \/ Asking(u),
         results' = results \/ (cell # "unset" /\ results' = results \cup {cell})
  PROVE  CellInv'
<1>1. DOMAIN at' = Users /\ at'[u] = s /\ \A v \in Users \ {u} : at'[v] = at[v]
  BY DEF CellInv, Goto
<1>2. ASSUME NEW v \in Users, Asking(v)' PROVE permit' = v /\ cell' = "unset"
  <2>1. v # u /\ Asking(v)
    BY <1>1, <1>2 DEF Asking
  <2> QED BY <2>1 DEF CellInv
<1> QED BY <1>1, <1>2 DEF CellInv

LEMMA CellNext_Inv == CellInv /\ [CellNext]_cellVars => CellInv'
<1> SUFFICES ASSUME CellInv, [CellNext]_cellVars PROVE CellInv'
  OBVIOUS
<1>1. ASSUME NEW u \in Users, Call(u) PROVE CellInv'
  <2>1. CASE u \notin Tasks /\ cell # "unset"
    BY <1>1, <2>1, OthersStay DEF Call
  <2>2. CASE ~(u \notin Tasks /\ cell # "unset")
    BY <1>1, <2>2, OthersStay DEF Call
  <2> QED BY <2>1, <2>2
<1>2. ASSUME NEW u \in Users, Poll(u) PROVE CellInv'
  <2>1. CASE cell # "unset" /\ Goto(u, "ok") /\ results' = results \cup {cell}
             /\ UNCHANGED <<permit, queue>>
    BY <1>2, <2>1, OthersStay DEF Poll
  <2>2. CASE cell = "unset" /\ permit = Free /\ permit' = u /\ Goto(u, "connect")
             /\ UNCHANGED <<queue, results>>
    <3>1. \A v \in Users : ~Asking(v)
      BY <2>2, CellAssumption DEF CellInv, CellAssumption
    <3>2. \A v \in Users \ {u} : at'[v] = at[v]
      BY <2>2 DEF Goto, CellInv
    <3>3. cell' = "unset"
      BY <1>2, <2>2 DEF Poll
    <3>4. \A v \in Users : Asking(v)' => v = u
      BY <3>1, <3>2 DEF Asking
    <3> QED BY <2>2, <3>3, <3>4 DEF CellInv, Goto
  <2>3. CASE cell = "unset" /\ permit # Free /\ queue' = Append(queue, u) /\ Goto(u, "wait")
             /\ UNCHANGED <<permit, results>>
    BY <1>2, <2>3, OthersStay DEF Poll
  <2> QED BY <1>2, <2>1, <2>2, <2>3 DEF Poll
<1>3. ASSUME NEW u \in Users, Wake(u) PROVE CellInv'
  <2>1. CASE cell # "unset" /\ Goto(u, "ok") /\ results' = results \cup {cell}
    BY <1>3, <2>1, OthersStay DEF Wake
  <2>2. CASE cell = "unset" /\ permit = u /\ Goto(u, "connect") /\ UNCHANGED results
    <3>1. \A v \in Users \ {u} : ~Asking(v) /\ at'[v] = at[v]
      BY <2>2 DEF CellInv, Goto
    <3>2. \A v \in Users : Asking(v)' => v = u
      BY <3>1 DEF Asking
    <3>3. cell' = "unset" /\ permit' = u
      BY <1>3, <2>2 DEF Wake
    <3> QED BY <2>2, <3>2, <3>3 DEF CellInv, Goto
  <2> QED BY <1>3, <2>1, <2>2 DEF Wake
<1>4. ASSUME NEW u \in Users, Connected(u) PROVE CellInv'
  <2>1. Asking(u)
    BY <1>4 DEF Connected, Asking
  <2>2. \A v \in Users \ {u} : ~Asking(v) /\ at'[v] = at[v]
    BY <1>4, <2>1 DEF CellInv, Goto, Connected
  <2>3. \A v \in Users : Asking(v)' => v = u
    BY <2>2 DEF Asking
  <2> QED BY <1>4, <2>1, <2>3 DEF CellInv, Goto, Connected
<1>5. ASSUME NEW u \in Users, Filled(u) PROVE CellInv'
  <2>1. Asking(u)
    BY <1>5 DEF Filled, Asking
  <2>2. \A v \in Users \ {u} : ~Asking(v) /\ at'[v] = at[v]
    BY <1>5, <2>1 DEF CellInv, Goto, Filled
  <2>3. at'[u] = "ok" /\ DOMAIN at' = Users
    BY <1>5 DEF CellInv, Goto, Filled
  <2>4. \A v \in Users : ~Asking(v)'
    BY <2>2, <2>3 DEF Asking
  <2>5. results' = {u} /\ cell' = u /\ u # "unset"
    BY <1>5, <2>1, CellAssumption DEF CellInv, Filled, CellAssumption
  <2> QED BY <2>3, <2>4, <2>5 DEF CellInv
<1>6. ASSUME NEW u \in Users, Fails(u) PROVE CellInv'
  BY <1>6, OthersStay DEF Fails, Asking
<1>7. ASSUME NEW u \in Users, Cancelled(u) PROVE CellInv'
  <2>1. CASE permit # u
    BY <1>7, <2>1, OthersStay DEF Cancelled
  <2>2. CASE permit = u
    <3>1. \A v \in Users \ {u} : ~Asking(v) /\ at'[v] = at[v]
      BY <1>7, <2>2 DEF CellInv, Goto, Cancelled
    <3>2. at'[u] = "cancelled" /\ DOMAIN at' = Users
      BY <1>7 DEF CellInv, Goto, Cancelled
    <3>3. \A v \in Users : ~Asking(v)'
      BY <3>1, <3>2 DEF Asking
    <3> QED BY <1>7, <3>2, <3>3 DEF CellInv, Cancelled
  <2> QED BY <2>1, <2>2
<1>8. CASE UNCHANGED cellVars
  BY <1>8 DEF cellVars, CellInv, Asking
<1> QED
  BY <1>1, <1>2, <1>3, <1>4, <1>5, <1>6, <1>7, <1>8 DEF CellNext, Progress

CellSpec == CellInit /\ [][CellNext]_cellVars

(* PLATFORM holds one value for good (lib.rs:53): however many initialise  *)
(* at once, are dropped or fail, all calls return the same.                *)
THEOREM CellOneResult == CellSpec => []OneResult
<1>1. CellInv => OneResult
  <2> SUFFICES ASSUME CellInv PROVE OneResult
    OBVIOUS
  <2>1. results = {} \/ results = {cell}
    BY DEF CellInv
  <2>2. Cardinality({}) = 0 /\ Cardinality({cell}) = 1
    BY FS_EmptySet, FS_Singleton
  <2> QED BY <2>1, <2>2 DEF OneResult
<1> QED BY <1>1, CellInit_Inv, CellNext_Inv, PTL DEF CellSpec

(* init_cluster_info, init_cluster_info_or_panic and platform_info fail    *)
(* only while the cell is empty: from then on every call has its value.    *)
THEOREM CellNoneFails == CellSpec => NoneFailsOnceFilled
<1>1. ASSUME CellInv, [CellNext]_cellVars, NEW u \in Users, cell # "unset", at[u] # "failed"
      PROVE  at'[u] # "failed"
  <2>1. ASSUME NEW v \in Users, Fails(v) PROVE FALSE
    BY <1>1, <2>1 DEF Fails, CellInv, Asking
  <2>2. ASSUME NEW v \in Users, NEW s, Goto(v, s), s # "failed" PROVE at'[u] # "failed"
    BY <1>1, <2>2 DEF CellInv, Goto
  <2>3. ASSUME NEW v \in Users, Call(v) \/ Progress(v) \/ Cancelled(v) PROVE at'[u] # "failed"
    BY <2>2, <2>3 DEF Call, Progress, Cancelled, Poll, Wake, Connected, Filled
  <2>4. CASE UNCHANGED cellVars
    BY <1>1, <2>4 DEF cellVars
  <2> QED BY <1>1, <2>1, <2>3, <2>4 DEF CellNext
<1>2. CellInv /\ [CellNext]_cellVars =>
        [\A u \in Users : cell # "unset" /\ at[u] # "failed" => at'[u] # "failed"]_cellVars
  BY <1>1
<1> QED BY <1>2, CellInit_Inv, CellNext_Inv, PTL DEF CellSpec, NoneFailsOnceFilled

(* Only the holder of the permit asks the platform, one at a time.         *)
THEOREM CellOneAsks == CellSpec => []OneAsks
<1>1. CellInv => OneAsks
  <2> SUFFICES ASSUME CellInv PROVE OneAsks
    OBVIOUS
  <2> DEFINE A == {u \in Users : at[u] \in {"connect", "fetch"}}
  <2>1. A = {} \/ A = {permit}
    BY DEF CellInv, Asking
  <2>2. Cardinality({}) = 0 /\ Cardinality({permit}) = 1
    BY FS_EmptySet, FS_Singleton
  <2>3. Cardinality(A) <= 1
    BY <2>1, <2>2
  <2> QED BY <2>3 DEF OneAsks
<1> QED BY <1>1, CellInit_Inv, CellNext_Inv, PTL DEF CellSpec

-----------------------------------------------------------------------------
(* What the with_... calls leave on a source, and whose component it has,    *)
(* for any number of calls in any order.                                     *)

SourceSpec == SourceInit /\ [][SourceNext]_sourceVars

Calls == Details \cup Fields
IsSource(s) == s = [component |-> s.component, has |-> s.has, fields |-> s.fields]
Shape ==
  /\ IsSource(source) /\ source.has \subseteq Details /\ source.fields \subseteq Fields
  /\ calls \in Seq(Calls)

(* The calls after the last one that replaced the details.                 *)
Since == {j \in DOMAIN calls : SinceThen(j)}

LEMMA Kinds ==
  /\ Replacing \cap Adding = {} /\ Replacing \cap Fields = {} /\ Adding \cap Fields = {}
  /\ "host_initiator" \in Replacing
  BY DEF Replacing, Adding, Fields

LEMMA Appended ==
  ASSUME calls \in Seq(Calls), NEW k \in Calls, calls' = Append(calls, k)
  PROVE  /\ Len(calls) \in Nat
         /\ DOMAIN calls = 1..Len(calls) /\ DOMAIN calls' = 1..(Len(calls) + 1)
         /\ \A i \in 1..Len(calls) : calls'[i] = calls[i]
         /\ calls'[Len(calls) + 1] = k
         /\ calls' \in Seq(Calls)
  OBVIOUS

(* A call that replaces is the last one that does, with none after it.     *)
LEMMA AfterReplacing ==
  ASSUME calls \in Seq(Calls), NEW k \in Replacing, calls' = Append(calls, k)
  PROVE  LastReplacing' = {Len(calls) + 1} /\ Since' = {}
<1>1. k \in Calls
  BY DEF Calls, Details
<1> DEFINE n == Len(calls)
<1>2. /\ n \in Nat /\ DOMAIN calls' = 1..(n + 1) /\ calls'[n + 1] = k
  BY <1>1, Appended
<1> HIDE DEF n
<1>3. \A i \in DOMAIN calls' : i \in LastReplacing' => i = n + 1
  BY <1>2 DEF LastReplacing
<1>4. n + 1 \in LastReplacing'
  BY <1>2 DEF LastReplacing
<1>5. LastReplacing' = {n + 1}
  BY <1>3, <1>4 DEF LastReplacing
<1>6. Since' = {}
  BY <1>2, <1>5 DEF Since, SinceThen
<1> QED BY <1>5, <1>6 DEF n

(* Any other call leaves that one the last, and comes after it.            *)
LEMMA AfterOther ==
  ASSUME calls \in Seq(Calls), NEW k \in Calls \ Replacing, calls' = Append(calls, k)
  PROVE  /\ {calls'[i] : i \in LastReplacing'} = {calls[i] : i \in LastReplacing}
         /\ {calls'[i] : i \in Since'} = {calls[i] : i \in Since} \cup {k}
<1> DEFINE n == Len(calls)
<1>1. /\ n \in Nat /\ DOMAIN calls = 1..n /\ DOMAIN calls' = 1..(n + 1)
      /\ \A i \in 1..n : calls'[i] = calls[i]
      /\ calls'[n + 1] = k
  BY Appended
<1> HIDE DEF n
<1>2. LastReplacing' = LastReplacing
  <2>1. \A i \in LastReplacing' : i \in 1..n
    BY <1>1 DEF LastReplacing
  <2>2. \A i \in 1..n : i \in LastReplacing' <=> i \in LastReplacing
    BY <1>1 DEF LastReplacing
  <2> QED BY <1>1, <2>1, <2>2 DEF LastReplacing
<1>3. Since' = Since \cup {n + 1}
  <2>1. \A l \in LastReplacing : l \in 1..n
    BY <1>1 DEF LastReplacing
  <2>2. \A i \in 1..(n + 1) : i \in Since' <=> i \in Since \/ i = n + 1
    BY <1>1, <1>2, <2>1 DEF Since, SinceThen
  <2> QED BY <1>1, <2>2 DEF Since
<1>4. LastReplacing \subseteq 1..n /\ Since \subseteq 1..n
  BY <1>1 DEF LastReplacing, Since
<1> QED BY <1>1, <1>2, <1>3, <1>4

(* The component alone is not inductive: a source built before it was set  *)
(* has none, whatever it is set to afterwards.                             *)
ComponentInv ==
  source # NoSource =>
    source.component = Unknown \/ (COMPONENT # "unset" /\ source.component = COMPONENT)

SourceInv == Shape /\ ComponentInv /\ LastCallsCount

LEMMA SourceInit_Inv == SourceInit => SourceInv
<1> SUFFICES ASSUME SourceInit PROVE SourceInv
  OBVIOUS
<1>1. Shape /\ ComponentInv
  BY DEF SourceInit, Shape, IsSource, NoSource, ComponentInv
<1>2. LastReplacing = {} /\ DOMAIN calls = {}
  BY DEF SourceInit, LastReplacing
<1>3. LastCallsCount
  BY <1>2 DEF LastCallsCount, OneKindOfDetails, FieldsNeedSubsystem, SourceInit, NoSource
<1> QED BY <1>1, <1>3 DEF SourceInv

(* LastCallsCount by the calls since the last replacing one.               *)
Count ==
  /\ source.has \cap Replacing = {calls[i] : i \in LastReplacing}
  /\ source.has \cap Adding = {calls[i] : i \in Since} \cap Adding
  /\ source.fields = IF "host_initiator" \in source.has
                     THEN {calls[i] : i \in Since} \cap Fields ELSE {}

LEMMA CountIs == (Count <=> LastCallsCount) /\ (Count' <=> LastCallsCount')
  BY DEF Count, LastCallsCount, OneKindOfDetails, FieldsNeedSubsystem, Since

LEMMA SourceNext_Inv == SourceInv /\ [SourceNext]_sourceVars => SourceInv'
<1> SUFFICES ASSUME SourceInv, [SourceNext]_sourceVars PROVE SourceInv'
  OBVIOUS
<1>1. ASSUME NEW s \in Services, InitializeSourceComponent(s) PROVE SourceInv'
  BY <1>1 DEF SourceInv, InitializeSourceComponent, Initialised, Shape, ComponentInv, IsSource,
     LastCallsCount, OneKindOfDetails, FieldsNeedSubsystem, LastReplacing, SinceThen
<1>2. CASE New
  <2>1. source'.has = source.has /\ source'.fields = source.fields /\ calls' = calls
        /\ IsSource(source') /\ COMPONENT' = COMPONENT
        /\ source'.component = IF COMPONENT = "unset" THEN Unknown ELSE COMPONENT
    BY <1>2 DEF New, NoSource, IsSource
  <2> QED BY <2>1 DEF SourceInv, Shape, ComponentInv, IsSource,
     LastCallsCount, OneKindOfDetails, FieldsNeedSubsystem, LastReplacing, SinceThen
<1>3. ASSUME NEW k \in Replacing, WithData(k) PROVE SourceInv'
  <2>1. /\ source'.has = {k} /\ source'.fields = {} /\ source'.component = source.component
        /\ IsSource(source') /\ COMPONENT' = COMPONENT /\ calls' = Append(calls, k)
        /\ source # NoSource
    BY <1>3 DEF WithData, Replace, SourceInv, Shape, IsSource, Called, Building
  <2>2. LastReplacing' = {Len(calls) + 1} /\ Since' = {} /\ k \in Calls
    BY <2>1, AfterReplacing DEF SourceInv, Shape, Calls, Details
  <2>3. Shape'
    BY <2>1, <2>2, Appended DEF SourceInv, Shape, IsSource, Calls, Details
  <2>4. ComponentInv'
    BY <2>1 DEF SourceInv, ComponentInv
  <2>5. calls'[Len(calls) + 1] = k
    BY <2>1, <2>2, Appended DEF SourceInv, Shape
  <2>6. LastCallsCount'
    BY <2>1, <2>2, <2>5, Kinds, CountIs DEF Count
  <2> QED BY <2>3, <2>4, <2>6 DEF SourceInv
<1>4. ASSUME NEW k \in Adding, WithMore(k) PROVE SourceInv'
  <2>1. /\ source'.has = source.has \cup {k} /\ source'.fields = source.fields
        /\ source'.component = source.component
        /\ IsSource(source') /\ COMPONENT' = COMPONENT /\ calls' = Append(calls, k)
        /\ source # NoSource
    BY <1>4 DEF WithMore, Add, SourceInv, Shape, IsSource, Called, Building
  <2>2. k \in Calls \ Replacing
    BY Kinds DEF Calls, Details
  <2>3. Shape'
    BY <2>1, <2>2, Appended DEF SourceInv, Shape, IsSource, Calls, Details
  <2>4. ComponentInv'
    BY <2>1 DEF SourceInv, ComponentInv
  <2>5. /\ {calls'[i] : i \in LastReplacing'} = {calls[i] : i \in LastReplacing}
        /\ {calls'[i] : i \in Since'} = {calls[i] : i \in Since} \cup {k}
    BY <2>1, <2>2, AfterOther DEF SourceInv, Shape
  <2>6. LastCallsCount'
    <3>1. Count
      BY CountIs DEF SourceInv
    <3>2. (source.has \cap Replacing = {calls[i] : i \in LastReplacing})'
      BY <2>1, <2>5, <3>1, Kinds DEF Count
    <3>3. (source.has \cap Adding = {calls[i] : i \in Since} \cap Adding)'
      BY <2>1, <2>5, <3>1, Kinds DEF Count
    <3>4. "host_initiator" \in source'.has <=> "host_initiator" \in source.has
      BY <2>1, Kinds
    <3> DEFINE F == {calls[i] : i \in Since} \cap Fields
    <3>5. F' = F
      BY <2>5, Kinds
    <3>6. source.fields = IF "host_initiator" \in source.has THEN F ELSE {}
      BY <3>1 DEF Count
    <3> HIDE DEF F
    <3>7. source'.fields = IF "host_initiator" \in source'.has THEN F' ELSE {}
      BY <2>1, <3>4, <3>5, <3>6
    <3>8. Count'
      BY <3>2, <3>3, <3>7 DEF Count, F
    <3> QED BY <3>8, CountIs
  <2> QED BY <2>3, <2>4, <2>6 DEF SourceInv
<1>5. ASSUME NEW f \in Fields, WithField(f) PROVE SourceInv'
  <2>1. /\ source'.has = source.has /\ source'.component = source.component
        /\ source'.fields = IF "host_initiator" \in source.has
                            THEN source.fields \cup {f} ELSE source.fields
        /\ IsSource(source') /\ COMPONENT' = COMPONENT /\ calls' = Append(calls, f)
        /\ source # NoSource
    BY <1>5 DEF WithField, Set, SourceInv, Shape, IsSource, Called, Building
  <2>2. f \in Calls \ Replacing
    BY Kinds DEF Calls, Details
  <2>3. Shape'
    BY <2>1, <2>2, Appended DEF SourceInv, Shape, IsSource, Calls, Details
  <2>4. ComponentInv'
    BY <2>1 DEF SourceInv, ComponentInv
  <2>5. /\ {calls'[i] : i \in LastReplacing'} = {calls[i] : i \in LastReplacing}
        /\ {calls'[i] : i \in Since'} = {calls[i] : i \in Since} \cup {f}
    BY <2>1, <2>2, AfterOther DEF SourceInv, Shape
  <2>6. LastCallsCount'
    <3>1. Count
      BY CountIs DEF SourceInv
    <3>2. (source.has \cap Replacing = {calls[i] : i \in LastReplacing})'
      BY <2>1, <2>5, <3>1, Kinds DEF Count
    <3>3. (source.has \cap Adding = {calls[i] : i \in Since} \cap Adding)'
      BY <2>1, <2>5, <3>1, Kinds DEF Count
    <3>4. "host_initiator" \in source'.has <=> "host_initiator" \in source.has
      BY <2>1, Kinds
    <3> DEFINE F == {calls[i] : i \in Since} \cap Fields
    <3>5. F' = F \cup {f}
      BY <2>5, Kinds
    <3>6. source.fields = IF "host_initiator" \in source.has THEN F ELSE {}
      BY <3>1 DEF Count
    <3> HIDE DEF F
    <3>7. source'.fields = IF "host_initiator" \in source'.has THEN F' ELSE {}
      BY <2>1, <3>4, <3>5, <3>6
    <3>8. Count'
      BY <3>2, <3>3, <3>7 DEF Count, F
    <3> QED BY <3>8, CountIs
  <2> QED BY <2>3, <2>4, <2>6 DEF SourceInv
<1>6. CASE FromSource
  <2>1. source' = NoSource /\ calls' = <<>>
    BY <1>6 DEF FromSource
  <2>2. LastReplacing' = {} /\ Since' = {}
    BY <2>1 DEF LastReplacing, Since
  <2>3. LastCallsCount'
    BY <2>1, <2>2, CountIs DEF NoSource, Count
  <2> QED BY <2>1, <2>3 DEF SourceInv, Shape, IsSource, NoSource, ComponentInv
<1>7. CASE UNCHANGED sourceVars
  BY <1>7 DEF sourceVars, SourceInv, Shape, IsSource, ComponentInv,
     LastCallsCount, OneKindOfDetails, FieldsNeedSubsystem, LastReplacing, SinceThen
<1> QED
  BY <1>1, <1>2, <1>3, <1>4, <1>5, <1>6, <1>7 DEF SourceNext

(* What a consumer finds on an event is what the last replacing call and   *)
(* the calls after it have put there.                                      *)
THEOREM SourceDetails == SourceSpec => []LastCallsCount
<1>1. SourceInv => LastCallsCount
  BY DEF SourceInv
<1> QED BY <1>1, SourceInit_Inv, SourceNext_Inv, PTL DEF SourceSpec

(* A source names the component of its process or none: COMPONENT is set   *)
(* once, whatever it is asked to be later.                                 *)
THEOREM SourceComponent == SourceSpec => []OneComponent
<1>1. SourceInv => OneComponent
  BY DEF SourceInv, ComponentInv, OneComponent
<1> QED BY <1>1, SourceInit_Inv, SourceNext_Inv, PTL DEF SourceSpec

-----------------------------------------------------------------------------
(* The normal forms of Duration and Timestamp for integers of any width,     *)
(* so for the i64 and the i32 of the code, where an i32 of nanoseconds       *)
(* holds two whole seconds and a part of a third.                            *)

TimeSpec == TimeInit /\ [][Normalise]_x

InSecond(n) == n \in -NANOS_MAX..NANOS_MAX

USE DEF Min64, Min32, I64, I32, NANOS_MAX

LEMMA Sizes ==
  /\ NS \in Nat /\ NS > 1 /\ Max64 \in Nat /\ Max64 >= 3
  /\ Max32 \in Nat /\ 2 * NS <= Max32 /\ Max32 <= 3 * NS - 2
  BY TimeAssumption DEF TimeAssumption

LEMMA QuotientOne ==
  ASSUME NEW a \in Int, NEW b \in Int, b > 1, b <= a, a < 2 * b
  PROVE  a \div b = 1
  OBVIOUS

LEMMA QuotientTwo ==
  ASSUME NEW a \in Int, NEW b \in Int, b > 1, 2 * b <= a, a < 3 * b
  PROVE  a \div b = 2
  OBVIOUS

LEMMA Products ==
  ASSUME NEW a \in Int, NEW b \in Int
  PROVE  /\ a * NS \in Int
         /\ (a + b) * NS = a * NS + b * NS
         /\ a <= b => a * NS <= b * NS
<1>1. NS \in Nat
  BY Sizes
<1>2. a * NS \in Int /\ (a + b) * NS = a * NS + b * NS
  BY <1>1
<1>3. ASSUME a <= b PROVE a * NS <= b * NS
  BY <1>1, <1>3
<1> QED BY <1>2, <1>3

(* The whole seconds in the nanoseconds that are not less than a second.   *)
LEMMA WholeSeconds ==
  ASSUME NEW n \in I32, ~InSecond(n)
  PROVE  /\ Quot(n, NS) \in Int /\ Rem(n, NS) \in Int
         /\ n = Quot(n, NS) * NS + Rem(n, NS)
         /\ n < 0 => Quot(n, NS) < 0 /\ Rem(n, NS) \in -NANOS_MAX..0
         /\ n >= 0 => Quot(n, NS) > 0 /\ Rem(n, NS) \in 0..NANOS_MAX
<1> USE Sizes
<1>1. n \in Int /\ (n >= NS \/ -n >= NS) /\ n < 3 * NS /\ -n < 3 * NS
  BY DEF InSecond
<1>2. CASE n >= 2 * NS
  BY <1>1, <1>2, QuotientTwo DEF Quot, Rem
<1>3. CASE n >= NS /\ n < 2 * NS
  BY <1>1, <1>3, QuotientOne DEF Quot, Rem
<1>4. CASE -n >= 2 * NS
  <2>1. (-n) \div NS = 2
    BY <1>1, <1>4, QuotientTwo
  <2> QED BY <1>1, <1>4, <2>1 DEF Quot, Rem
<1>5. CASE -n >= NS /\ -n < 2 * NS
  <2>1. (-n) \div NS = 1
    BY <1>1, <1>5, QuotientOne
  <2> QED BY <1>1, <1>5, <2>1 DEF Quot, Rem
<1> QED BY <1>1, <1>2, <1>3, <1>4, <1>5

LEMMA At_Type ==
  ASSUME NEW s \in I64, NEW n \in I32
  PROVE  /\ At(s, n) \in Time /\ At(s, n).seconds = s /\ At(s, n).nanos = n
         /\ Value(At(s, n)) = s * NS + n
  BY DEF At, Time, Value

(* The first half of both: the value is kept, or is too small or too great *)
(* for any number of seconds.                                              *)
LEMMA CarryKeeps ==
  ASSUME NEW t \in Time, NEW least, NEW greatest
  PROVE  LET c == Carry(t, least, greatest)
         IN \/ c \in Time /\ InSecond(c.nanos) /\ Value(c) = Value(t)
            \/ c = least /\ Value(t) <= (Min64 - 1) * NS
            \/ c = greatest /\ Value(t) >= (Max64 + 1) * NS
<1> DEFINE s == t.seconds  n == t.nanos  c == Carry(t, least, greatest)
           q == Quot(n, NS)  r == Rem(n, NS)
<1>1. s \in I64 /\ n \in I32 /\ Value(t) = s * NS + n
  BY DEF Time, Value
<1>2. CASE InSecond(n)
  BY <1>2 DEF Carry, CarryOverflow, InSecond
<1>3. CASE ~InSecond(n)
  <2>1. /\ q \in Int /\ r \in Int /\ n = q * NS + r
        /\ n < 0 => q < 0 /\ r \in -NANOS_MAX..0
        /\ n >= 0 => q > 0 /\ r \in 0..NANOS_MAX
    BY <1>1, <1>3, WholeSeconds
  <2>2. c = IF n < 0 /\ s + q < Min64 THEN least
            ELSE IF s + q > Max64 THEN greatest ELSE At(s + q, r)
    BY <1>3 DEF Carry, CarryOverflow, InSecond
  <2> HIDE DEF q, r, c
  <2>3. /\ s * NS \in Int /\ q * NS \in Int /\ (s + q) * NS \in Int
        /\ (s + q) * NS = s * NS + q * NS
    BY <1>1, <2>1, Products, Sizes
  <2>4. Value(t) = (s + q) * NS + r
    BY <1>1, <2>1, <2>3
  <2>5. CASE n < 0 /\ s + q < Min64
    <3>1. s + q \in Int /\ Min64 - 1 \in Int /\ s + q <= Min64 - 1
      BY <1>1, <2>1, <2>5, Sizes
    <3>2. (s + q) * NS <= (Min64 - 1) * NS /\ (Min64 - 1) * NS \in Int
      BY ONLY <3>1, Products
    <3>3. r <= 0 /\ c = least
      BY <2>1, <2>2, <2>5, Sizes
    <3>4. Value(t) <= (Min64 - 1) * NS
      BY <2>1, <2>3, <2>4, <3>2, <3>3
    <3> QED BY <3>3, <3>4 DEF c
  <2>6. CASE s + q > Max64
    <3>1. s + q \in Int /\ Max64 + 1 \in Int /\ Max64 + 1 <= s + q
      BY <1>1, <2>1, <2>6, Sizes
    <3>2. (Max64 + 1) * NS <= (s + q) * NS /\ (Max64 + 1) * NS \in Int
      BY ONLY <3>1, Products
    <3>3. n >= 0 /\ r >= 0 /\ c = greatest
      BY <1>1, <2>1, <2>2, <2>6, Sizes
    <3>4. Value(t) >= (Max64 + 1) * NS
      BY <2>1, <2>3, <2>4, <3>2, <3>3
    <3> QED BY <3>3, <3>4 DEF c
  <2>7. CASE s + q \in I64
    <3>1. c = At(s + q, r)
      BY <1>1, <2>2, <2>7, Sizes
    <3>2. r \in I32 /\ InSecond(r)
      BY <1>1, <2>1, Sizes DEF InSecond
    <3>3. c \in Time /\ c.nanos = r /\ Value(c) = (s + q) * NS + r
      BY <2>7, <3>1, <3>2, At_Type
    <3> QED BY <2>4, <3>2, <3>3 DEF c
  <2>8. s + q \in I64 \/ s + q > Max64 \/ (n < 0 /\ s + q < Min64)
    BY <1>1, <2>1, Sizes
  <2> QED BY <2>5, <2>6, <2>7, <2>8
<1> QED BY <1>2, <1>3

LEMMA NextProduct ==
  ASSUME NEW a \in Int
  PROVE  (a - 1) * NS = a * NS - NS /\ (a + 1) * NS = a * NS + NS
BY Sizes

LEMMA NegativeProduct ==
  ASSUME NEW a \in Int, NEW b \in Int
  PROVE  /\ a >= 0 /\ b >= 0 => a * b >= 0
         /\ a <= 0 /\ b <= 0 => a * b >= 0
         /\ a * b \in Int
<1>1. ASSUME a <= 0, b <= 0 PROVE a * b >= 0
  BY <1>1
<1>2. ASSUME a >= 0, b >= 0 PROVE a * b >= 0
  BY <1>2
<1> QED BY <1>1, <1>2

(* What has its nanoseconds in range lies between the ends.                *)
LEMMA Between ==
  ASSUME NEW t \in Time
  PROVE  /\ Value(t) \in Int
         /\ Min64 * NS \in Int /\ Max64 * NS \in Int
         /\ (Min64 - 1) * NS = Min64 * NS - NS /\ (Max64 + 1) * NS = Max64 * NS + NS
         /\ InSecond(t.nanos) =>
              Value(t) \in (Min64 * NS - NANOS_MAX)..(Max64 * NS + NANOS_MAX)
<1>1. t.seconds \in I64 /\ t.nanos \in I32 /\ Value(t) = t.seconds * NS + t.nanos
  BY DEF Time, Value
<1>2. /\ Min64 \in Int /\ Max64 \in Int
      /\ Min64 <= t.seconds /\ t.seconds <= Max64 /\ t.seconds \in Int
  BY <1>1, Sizes
<1>3. /\ Min64 * NS \in Int /\ Max64 * NS \in Int /\ t.seconds * NS \in Int
      /\ Min64 * NS <= t.seconds * NS /\ t.seconds * NS <= Max64 * NS
  BY ONLY <1>2, Products
<1>4. (Min64 - 1) * NS = Min64 * NS - NS /\ (Max64 + 1) * NS = Max64 * NS + NS
  BY ONLY <1>2, NextProduct
<1>5. ASSUME InSecond(t.nanos)
      PROVE  Value(t) \in (Min64 * NS - NANOS_MAX)..(Max64 * NS + NANOS_MAX)
  BY <1>1, <1>3, <1>5, Sizes DEF InSecond
<1>6. Value(t) \in Int
  BY <1>1, <1>3, Sizes
<1> QED BY <1>3, <1>4, <1>5, <1>6

(* Duration's second half.                                                 *)
LEMMA SameSignKeeps ==
  ASSUME NEW d \in Time, InSecond(d.nanos)
  PROVE  LET n == SameSign(d)
         IN /\ n \in Time /\ InSecond(n.nanos)
            /\ n.seconds * n.nanos >= 0 /\ Value(n) = Value(d)
<1> DEFINE s == d.seconds  k == d.nanos
<1>1. s \in I64 /\ k \in I32 /\ Value(d) = s * NS + k /\ s * NS \in Int
  BY Products, Sizes DEF Time, Value
<1> USE Sizes
<1>2. CASE s < 0 /\ k > 0
  <2>1. s + 1 \in I64 /\ k - NS \in I32 /\ InSecond(k - NS) /\ k - NS <= 0 /\ s + 1 <= 0
    BY <1>1, <1>2 DEF InSecond
  <2>2. (s + 1) * NS = s * NS + NS
    BY <1>1, NextProduct
  <2>3. (s + 1) * (k - NS) >= 0
    BY <2>1, NegativeProduct
  <2>4. SameSign(d) = At(s + 1, k - NS)
    BY <1>1, <1>2 DEF SameSign
  <2>5. Value(At(s + 1, k - NS)) = (s + 1) * NS + (k - NS)
    BY <2>1, At_Type
  <2>6. Value(At(s + 1, k - NS)) = Value(d)
    BY <1>1, <2>2, <2>5
  <2> QED BY <2>1, <2>3, <2>4, <2>6, At_Type
<1>3. CASE s > 0 /\ k < 0
  <2>1. s - 1 \in I64 /\ k + NS \in I32 /\ InSecond(k + NS) /\ k + NS >= 0 /\ s - 1 >= 0
    BY <1>1, <1>3 DEF InSecond
  <2>2. (s - 1) * NS = s * NS - NS
    BY <1>1, NextProduct
  <2>3. (s - 1) * (k + NS) >= 0
    BY <2>1, NegativeProduct
  <2>4. SameSign(d) = At(s - 1, k + NS)
    BY <1>1, <1>3 DEF SameSign
  <2>5. Value(At(s - 1, k + NS)) = (s - 1) * NS + (k + NS)
    BY <2>1, At_Type
  <2>6. Value(At(s - 1, k + NS)) = Value(d)
    BY <1>1, <2>2, <2>5
  <2> QED BY <2>1, <2>3, <2>4, <2>6, At_Type
<1>4. CASE ~(s < 0 /\ k > 0) /\ ~(s > 0 /\ k < 0)
  <2>1. SameSign(d) = d
    BY <1>1, <1>4 DEF SameSign
  <2>2. s * k >= 0
    BY <1>1, <1>4, NegativeProduct
  <2> QED BY <2>1, <2>2
<1> QED BY <1>2, <1>3, <1>4

(* Timestamp's second half; the part of a second before the earliest one   *)
(* is lost.                                                                *)
LEMMA BorrowKeeps ==
  ASSUME NEW t \in Time, InSecond(t.nanos)
  PROVE  LET n == Borrow(t)
         IN /\ n \in Time /\ n.nanos \in 0..NANOS_MAX
            /\ Value(n) = IF Value(t) < Min64 * NS THEN Min64 * NS ELSE Value(t)
<1> DEFINE s == t.seconds  k == t.nanos
<1>1. s \in I64 /\ k \in I32 /\ Value(t) = s * NS + k /\ s * NS \in Int
  BY Products, Sizes DEF Time, Value
<1> USE Sizes
<1>2. Min64 \in Int /\ Min64 <= s /\ Min64 * NS \in Int /\ Min64 * NS <= s * NS
  BY <1>1, Products
<1>3. CASE k >= 0
  <2>1. Borrow(t) = t
    BY <1>1, <1>3 DEF Borrow
  <2>2. ~(Value(t) < Min64 * NS)
    BY <1>1, <1>2, <1>3
  <2> QED BY <1>1, <1>3, <2>1, <2>2 DEF InSecond
<1>4. CASE k < 0 /\ s > Min64
  <2>1. s - 1 \in I64 /\ k + NS \in I32 /\ k + NS \in 0..NANOS_MAX
    BY <1>1, <1>4 DEF InSecond
  <2>2. (s - 1) * NS = s * NS - NS
    BY <1>1, NextProduct
  <2>3. Min64 * NS <= (s - 1) * NS
    BY <1>2, <2>1, Products
  <2>4. Borrow(t) = At(s - 1, k + NS)
    BY <1>1, <1>4 DEF Borrow
  <2>5. Value(At(s - 1, k + NS)) = (s - 1) * NS + (k + NS)
    BY <2>1, At_Type
  <2>6. Value(At(s - 1, k + NS)) = Value(t) /\ ~(Value(t) < Min64 * NS)
    BY <1>1, <1>2, <2>1, <2>2, <2>3, <2>5
  <2> QED BY <2>1, <2>4, <2>6, At_Type
<1>5. CASE k < 0 /\ s = Min64
  <2>1. Borrow(t) = At(Min64, 0) /\ Min64 \in I64 /\ 0 \in I32 /\ 0 \in 0..NANOS_MAX
    BY <1>1, <1>5 DEF Borrow
  <2>2. Value(At(Min64, 0)) = Min64 * NS + 0
    BY <2>1, At_Type
  <2>3. Value(t) < Min64 * NS
    BY <1>1, <1>5
  <2> QED BY <1>2, <2>1, <2>2, <2>3, At_Type
<1> QED BY <1>1, <1>2, <1>3, <1>4, <1>5

(* Duration::normalize, for every seconds and nanos.                       *)
LEMMA DurationNormal ==
  ASSUME NEW t \in Time
  PROVE  LET n == NormalDuration(t)
         IN /\ n \in Time
            /\ n.nanos \in -NANOS_MAX..NANOS_MAX
            /\ n.seconds * n.nanos >= 0
            /\ Value(n) = Clamp(Value(t), Min64 * NS - NANOS_MAX, Max64 * NS + NANOS_MAX)
<1> DEFINE least == At(Min64, -NANOS_MAX)  greatest == At(Max64, NANOS_MAX)
           c == Carry(t, least, greatest)
<1> USE Sizes
<1>1. /\ Min64 \in I64 /\ Max64 \in I64 /\ -NANOS_MAX \in I32 /\ NANOS_MAX \in I32
      /\ Min64 <= 0 /\ -NANOS_MAX <= 0 /\ Max64 >= 0 /\ NANOS_MAX >= 0
  OBVIOUS
<1>2. /\ least \in Time /\ least.seconds = Min64 /\ least.nanos = -NANOS_MAX
      /\ Value(least) = Min64 * NS + (-NANOS_MAX)
      /\ greatest \in Time /\ greatest.seconds = Max64 /\ greatest.nanos = NANOS_MAX
      /\ Value(greatest) = Max64 * NS + NANOS_MAX
  BY ONLY <1>1, At_Type
<1>3. InSecond(least.nanos) /\ InSecond(greatest.nanos)
  BY <1>2 DEF InSecond
<1> HIDE DEF least, greatest
<1>4. /\ Value(t) \in Int /\ Min64 * NS \in Int /\ Max64 * NS \in Int
      /\ (Min64 - 1) * NS = Min64 * NS - NS /\ (Max64 + 1) * NS = Max64 * NS + NS
  BY Between
<1>5. Min64 * NS <= Max64 * NS
  BY Products
<1>6. /\ c \in Time /\ InSecond(c.nanos)
      /\ Value(c) = Clamp(Value(t), Min64 * NS - NANOS_MAX, Max64 * NS + NANOS_MAX)
  <2>1. CASE c \in Time /\ InSecond(c.nanos) /\ Value(c) = Value(t)
    <3>1. Value(t) \in (Min64 * NS - NANOS_MAX)..(Max64 * NS + NANOS_MAX)
      BY <2>1, Between
    <3> HIDE DEF c
    <3> QED BY <1>4, <2>1, <3>1 DEF Clamp
  <2>2. CASE c = least /\ Value(t) <= (Min64 - 1) * NS
    <3> HIDE DEF c
    <3>1. Value(t) < Min64 * NS - NANOS_MAX
         /\ Min64 * NS + (-NANOS_MAX) = Min64 * NS - NANOS_MAX
      BY <1>4, <2>2
    <3>2. Value(c) = Min64 * NS - NANOS_MAX
      BY <1>2, <2>2, <3>1
    <3> QED BY <1>2, <1>3, <2>2, <3>1, <3>2 DEF Clamp
  <2>3. CASE c = greatest /\ Value(t) >= (Max64 + 1) * NS
    <3> HIDE DEF c
    <3>1. Value(t) > Max64 * NS + NANOS_MAX
         /\ ~(Value(t) < Min64 * NS - NANOS_MAX)
      BY <1>4, <1>5, <2>3
    <3> QED BY <1>2, <1>3, <2>3, <3>1 DEF Clamp
  <2> QED BY <2>1, <2>2, <2>3, CarryKeeps
<1>7. NormalDuration(t) = SameSign(c)
  BY DEF NormalDuration, least, greatest
<1> HIDE DEF c
<1> QED BY <1>6, <1>7, SameSignKeeps DEF InSecond

(* Timestamp::normalize, for every seconds and nanos.                      *)
LEMMA TimestampNormal ==
  ASSUME NEW t \in Time
  PROVE  LET n == NormalTimestamp(t)
         IN /\ n \in Time
            /\ n.nanos \in 0..NANOS_MAX
            /\ Value(n) = Clamp(Value(t), Min64 * NS, Max64 * NS + NANOS_MAX)
<1> DEFINE least == At(Min64, 0)  greatest == At(Max64, NANOS_MAX)
           c == Carry(t, least, greatest)
<1> USE Sizes
<1>1. Min64 \in I64 /\ Max64 \in I64 /\ 0 \in I32 /\ NANOS_MAX \in I32
  OBVIOUS
<1>2. /\ least \in Time /\ least.nanos = 0 /\ Value(least) = Min64 * NS + 0
      /\ greatest \in Time /\ greatest.nanos = NANOS_MAX
      /\ Value(greatest) = Max64 * NS + NANOS_MAX
  BY ONLY <1>1, At_Type
<1>3. InSecond(least.nanos) /\ InSecond(greatest.nanos)
  BY <1>2 DEF InSecond
<1> HIDE DEF least, greatest
<1>4. /\ Value(t) \in Int /\ Min64 * NS \in Int /\ Max64 * NS \in Int
      /\ (Min64 - 1) * NS = Min64 * NS - NS /\ (Max64 + 1) * NS = Max64 * NS + NS
  BY Between
<1>5. Min64 * NS <= Max64 * NS
  BY Products
<1>6. /\ c \in Time /\ InSecond(c.nanos)
      /\ (IF Value(c) < Min64 * NS THEN Min64 * NS ELSE Value(c))
           = Clamp(Value(t), Min64 * NS, Max64 * NS + NANOS_MAX)
  <2>1. CASE c \in Time /\ InSecond(c.nanos) /\ Value(c) = Value(t)
    <3>1. Value(t) \in (Min64 * NS - NANOS_MAX)..(Max64 * NS + NANOS_MAX)
      BY <2>1, Between
    <3> HIDE DEF c
    <3> QED BY <1>4, <2>1, <3>1 DEF Clamp
  <2>2. CASE c = least /\ Value(t) <= (Min64 - 1) * NS
    <3> HIDE DEF c
    <3>1. Value(t) < Min64 * NS /\ Min64 * NS + 0 = Min64 * NS
      BY <1>4, <2>2
    <3>2. Value(c) = Min64 * NS
      BY <1>2, <2>2, <3>1
    <3> QED BY <1>2, <1>3, <2>2, <3>1, <3>2 DEF Clamp
  <2>3. CASE c = greatest /\ Value(t) >= (Max64 + 1) * NS
    <3> HIDE DEF c
    <3>1. Value(t) > Max64 * NS + NANOS_MAX /\ ~(Value(t) < Min64 * NS)
          /\ ~(Max64 * NS + NANOS_MAX < Min64 * NS)
      BY <1>4, <1>5, <2>3
    <3> QED BY <1>2, <1>3, <2>3, <3>1 DEF Clamp
  <2> QED BY <2>1, <2>2, <2>3, CarryKeeps
<1>7. NormalTimestamp(t) = Borrow(c)
  BY DEF NormalTimestamp, least, greatest
<1> HIDE DEF c
<1> QED BY <1>6, <1>7, BorrowKeeps

(* Whatever seconds and nanoseconds come over the wire, both normalisations*)
(* give the one normal form of the value, or of the nearest end, and this  *)
(* stays true however often they are applied.                              *)
THEOREM TimeNormal == TimeSpec => []NormalForms
<1> DEFINE Inv == x \in Time
<1>1. TimeInit => Inv
  BY DEF TimeInit
<1>2. Inv /\ [Normalise]_x => Inv'
  BY DurationNormal, TimestampNormal DEF Normalise
<1>3. Inv => NormalForms
  BY DurationNormal, TimestampNormal DEF NormalForms, DurationIsNormal, TimestampIsNormal
<1> QED BY <1>1, <1>2, <1>3, PTL DEF TimeSpec
-----------------------------------------------------------------------------
(* The conversions.                                                        *)

LEMMA SameSignIs ==
  ASSUME NEW s \in Int, NEW k \in Int, s * k >= 0
  PROVE  (s >= 0 /\ k >= 0) \/ (s <= 0 /\ k <= 0)
<1>1. ~(s > 0 /\ k < 0)
  OBVIOUS
<1>2. ~(s < 0 /\ k > 0)
  OBVIOUS
<1> QED BY <1>1, <1>2

(* A value has one normal form: Rust's quotient and remainder.             *)
LEMMA QuotientIs ==
  ASSUME NEW a \in Int, NEW s \in Int, s * NS <= a, a < s * NS + NS
  PROVE  a \div NS = s
<1> USE Sizes
<1>1. PICK q \in Int : q = a \div NS /\ q * NS <= a /\ a < q * NS + NS
  OBVIOUS
<1>2. s * NS \in Int /\ q * NS \in Int
  BY Products
<1>3. ~(q > s)
  <2>1. SUFFICES ASSUME q > s PROVE FALSE
    OBVIOUS
  <2>2. (s + 1) * NS <= q * NS /\ (s + 1) * NS = s * NS + NS
    BY <2>1, Products, NextProduct
  <2> QED BY <1>1, <1>2, <2>2
<1>4. ~(s > q)
  <2>1. SUFFICES ASSUME s > q PROVE FALSE
    OBVIOUS
  <2>2. (q + 1) * NS <= s * NS /\ (q + 1) * NS = q * NS + NS
    BY <2>1, Products, NextProduct
  <2> QED BY <1>1, <1>2, <2>2
<1> QED BY <1>1, <1>3, <1>4

LEMMA NormalFormIs ==
  ASSUME NEW s \in Int, NEW k \in Int, InSecond(k), s * k >= 0
  PROVE  Quot(s * NS + k, NS) = s /\ Rem(s * NS + k, NS) = k
<1> USE Sizes
<1> DEFINE v == s * NS + k
<1>1. s * NS \in Int /\ v \in Int /\ (-s) * NS = -(s * NS)
  BY Products
<1>2. k \in -NANOS_MAX..NANOS_MAX
  BY DEF InSecond
<1>3. Quot(v, NS) = s
  <2>1. CASE s >= 0 /\ k >= 0
    <3>1. 0 * NS <= s * NS
      BY <2>1, Products
    <3>2. v \div NS = s
      BY <1>1, <1>2, <2>1, QuotientIs
    <3> QED BY <1>1, <2>1, <3>1, <3>2 DEF Quot
  <2>2. CASE s <= 0 /\ k <= 0
    <3>1. s * NS <= 0 * NS
      BY <2>2, Products
    <3>2. (-v) \div NS = -s
      BY <1>1, <1>2, <2>2, QuotientIs
    <3>3. CASE v < 0
      BY <3>2, <3>3 DEF Quot
    <3>4. CASE ~(v < 0)
      <4>1. v = 0
        BY <1>1, <2>2, <3>1, <3>4
      <4>2. -v = v
        BY <4>1
      <4>3. v \div NS = -s /\ 0 \div NS = 0
        BY <3>2, <4>2
      <4> QED BY <3>4, <4>1, <4>3 DEF Quot
    <3> QED BY <3>3, <3>4
  <2> QED BY <2>1, <2>2, SameSignIs
<1>4. NS * s = s * NS
  OBVIOUS
<1>5. Rem(v, NS) = v - s * NS
  BY <1>3, <1>4 DEF Rem
<1>6. Rem(v, NS) = k
  BY <1>1, <1>5
<1> QED BY <1>3, <1>6
-----------------------------------------------------------------------------
(* What NormalDuration makes of a time, in the words that the conversions  *)
(* need.                                                                   *)
LEMMA DurationFacts ==
  ASSUME NEW t \in Time
  PROVE  LET n == NormalDuration(t)
         IN /\ n \in Time /\ n.seconds \in Int /\ n.nanos \in Int
            /\ n = At(n.seconds, n.nanos) /\ InSecond(n.nanos)
            /\ n.seconds * n.nanos >= 0
            /\ Value(n) = n.seconds * NS + n.nanos /\ n.seconds * NS \in Int
            /\ \/ n.seconds >= 0 /\ n.nanos >= 0 /\ Value(n) >= 0 /\ n.seconds * NS >= 0
               \/ n.seconds <= 0 /\ n.nanos <= 0 /\ Value(n) <= 0 /\ n.seconds * NS <= 0
            /\ Value(t) \in Int
            /\ Value(t) < 0 <=> Value(n) < 0
            /\ Value(t) \in Min64..Max64 => Value(n) = Value(t)
<1> DEFINE n == NormalDuration(t)
<1> USE Sizes
<1>1. /\ n \in Time /\ InSecond(n.nanos) /\ n.seconds * n.nanos >= 0
      /\ Value(n) = Clamp(Value(t), Min64 * NS - NANOS_MAX, Max64 * NS + NANOS_MAX)
  BY DurationNormal DEF InSecond
<1> HIDE DEF n
<1>2. /\ n = At(n.seconds, n.nanos) /\ n.seconds \in Int /\ n.nanos \in Int
      /\ Value(n) = n.seconds * NS + n.nanos
  BY <1>1 DEF Time, At, Value
<1>3. n.seconds * NS \in Int /\ 0 * NS = 0 /\ 1 * NS = NS
  BY <1>2, Products
<1>4. /\ n.seconds >= 0 => n.seconds * NS >= 0
      /\ n.seconds <= 0 => n.seconds * NS <= 0
  BY <1>2, <1>3, Products
<1>5. \/ n.seconds >= 0 /\ n.nanos >= 0 /\ Value(n) >= 0 /\ n.seconds * NS >= 0
      \/ n.seconds <= 0 /\ n.nanos <= 0 /\ Value(n) <= 0 /\ n.seconds * NS <= 0
  BY <1>1, <1>2, <1>3, <1>4, SameSignIs
<1>6. Value(t) \in Int /\ Min64 * NS \in Int /\ Max64 * NS \in Int
  BY Between
<1>7. Min64 * NS <= Min64 /\ Max64 <= Max64 * NS
  BY Sizes
<1>8. Value(t) < 0 <=> Value(n) < 0
  BY <1>1, <1>6, <1>7 DEF Clamp
<1>9. Value(t) \in Min64..Max64 => Value(n) = Value(t)
  BY <1>1, <1>6, <1>7 DEF Clamp
<1> QED BY <1>1, <1>2, <1>3, <1>5, <1>6, <1>8, <1>9 DEF n

(* What is normal stays as it is.                                          *)
LEMMA NormalStays ==
  ASSUME NEW n \in Time, InSecond(n.nanos), n.seconds * n.nanos >= 0
  PROVE  NormalDuration(n) = n
<1> USE Sizes
<1>1. \A l, g : Carry(n, l, g) = n
  BY DEF Carry, CarryOverflow, InSecond
<1>2. n.seconds \in Int /\ n.nanos \in Int
  BY DEF Time
<1>3. SameSign(n) = n
  BY <1>2, SameSignIs DEF SameSign
<1> QED BY <1>1, <1>3 DEF NormalDuration

LEMMA ToStdIs ==
  ASSUME NEW t \in Time, NEW checks \in BOOLEAN
  PROVE  LET n == NormalDuration(t)
         IN /\ Value(t) >= 0 => ToStd(t, checks) = Ok(n)
            /\ Value(t) < 0 /\ ~(n.seconds = Min64 /\ checks) =>
                 ToStd(t, checks) = Err("negative", At(-n.seconds, -n.nanos))
<1> PICK n : n = NormalDuration(t)
  OBVIOUS
<1>1. /\ n.seconds \in Int /\ n.nanos \in Int /\ Value(n) = n.seconds * NS + n.nanos
      /\ n.seconds * NS \in Int /\ Value(t) \in Int
      /\ Value(t) < 0 <=> Value(n) < 0
  BY DurationFacts
<1>2. \/ n.seconds >= 0 /\ n.nanos >= 0 /\ Value(n) >= 0 /\ n.seconds * NS >= 0
      \/ n.seconds <= 0 /\ n.nanos <= 0 /\ Value(n) <= 0 /\ n.seconds * NS <= 0
  BY DurationFacts
<1>3. Value(t) >= 0 => n.seconds >= 0 /\ n.nanos >= 0
  <2>1. CASE n.seconds >= 0 /\ n.nanos >= 0
    BY <2>1
  <2>2. ASSUME n.seconds <= 0, n.nanos <= 0, n.seconds * NS <= 0, Value(t) >= 0
        PROVE  n.seconds >= 0 /\ n.nanos >= 0
    <3>1. n.nanos = 0 /\ n.seconds * NS = 0
      BY <1>1, <2>2
    <3>2. ~(n.seconds <= -1)
      <4>1. n.seconds <= -1 => n.seconds * NS <= (-1) * NS /\ (-1) * NS = -NS
        BY <1>1, Products, Sizes
      <4> QED BY <3>1, <4>1, Sizes
    <3> QED BY <1>1, <3>1, <3>2
  <2> QED BY <1>2, <2>1, <2>2
<1>4. Value(t) < 0 => ~(n.seconds >= 0 /\ n.nanos >= 0)
  <2>1. SUFFICES ASSUME n.seconds >= 0, n.nanos >= 0 PROVE ~(Value(t) < 0)
    OBVIOUS
  <2>2. n.seconds * NS >= 0
    BY <1>1, <2>1, Sizes, NegativeProduct
  <2> QED BY <1>1, <2>1, <2>2
<1>5. Value(t) >= 0 => ToStd(t, checks) = Ok(n)
  BY <1>1, <1>3, Sizes DEF ToStd
<1>6. Value(t) < 0 /\ ~(n.seconds = Min64 /\ checks) =>
        ToStd(t, checks) = Err("negative", At(-n.seconds, -n.nanos))
  BY <1>4 DEF ToStd
<1> QED BY <1>5, <1>6

LEMMA StdKeeps == x \in Time => StdMagnitude
<1> SUFFICES ASSUME x \in Time PROVE StdMagnitude
  OBVIOUS
<1> PICK n : n = NormalDuration(x)
  OBVIOUS
<1> PICK r : r = ToStd(x, FALSE)
  OBVIOUS
<1>1. /\ n \in Time /\ n.seconds \in Int /\ n.nanos \in Int /\ n.seconds * n.nanos >= 0
      /\ InSecond(n.nanos)
      /\ Value(n) = n.seconds * NS + n.nanos /\ n.seconds * NS \in Int /\ Value(x) \in Int
  BY DurationFacts
<1>2. CASE Value(x) < 0
  <2>1. r = Err("negative", At(-n.seconds, -n.nanos))
    BY <1>2, ToStdIs
  <2> PICK m : m = At(-n.seconds, -n.nanos)
    OBVIOUS
  <2>2. r.is = "negative" /\ r.v = m /\ m.seconds = -n.seconds /\ m.nanos = -n.nanos
    <3>1. Err("negative", m).is = "negative" /\ Err("negative", m).v = m
      BY DEF Err
    <3>2. m.seconds = -n.seconds /\ m.nanos = -n.nanos
      BY DEF At
    <3> QED BY <2>1, <3>1, <3>2
  <2>3. (-n.seconds) * NS = -(n.seconds * NS)
    BY <1>1, Sizes
  <2>4. Value(r.v) = -Value(n)
    <3>1. Value(m) = (-n.seconds) * NS + (-n.nanos)
      BY <2>2 DEF Value
    <3>2. Value(m) = -(n.seconds * NS) + (-n.nanos)
      BY <2>3, <3>1
    <3>3. PICK p \in Int : p = n.seconds * NS
      BY <1>1
    <3>4. Value(m) = -Value(n)
      BY <1>1, <3>2, <3>3
    <3> QED BY <2>2, <3>4
  <2>5. n.seconds # Min64 => ToStd(x, TRUE) = r
    BY <1>2, <2>1, ToStdIs
  <2> QED BY <1>2, <2>2, <2>4, <2>5 DEF StdMagnitude
<1>3. CASE Value(x) >= 0
  <2>1. r = Ok(n)
    BY <1>3, ToStdIs
  <2>2. r.is = "ok" /\ r.v = n
    <3>1. Ok(n).is = "ok" /\ Ok(n).v = n
      BY DEF Ok
    <3> QED BY <2>1, <3>1
  <2>3. ~(n.seconds > Max64)
    BY <1>1, Sizes DEF Time
  <2>4. FromStd(n) = Ok(n)
    BY <1>1, <2>3, NormalStays DEF FromStd
  <2>5. ~(Value(x) < 0)
    BY <1>1, <1>3
  <2> QED BY <2>2, <2>4, <2>5 DEF StdMagnitude
<1> QED BY <1>1, <1>2, <1>3

LEMMA ChronoKeeps == x \in Time => ChronoRoundTrip
<1> SUFFICES ASSUME x \in Time PROVE ChronoRoundTrip
  OBVIOUS
<1> PICK n : n = NormalDuration(x)
  OBVIOUS
<1>1. ToChrono(x).is = "ok" => ToChrono(x).v = x
  BY DEF ToChrono, Ok, Panic
<1>2. ASSUME Value(x) \in I64 PROVE FromChrono(Value(x)) = Ok(n)
  <2>1. /\ n.seconds \in Int /\ n.nanos \in Int /\ n = At(n.seconds, n.nanos)
        /\ InSecond(n.nanos) /\ n.seconds * n.nanos >= 0
        /\ Value(x) = n.seconds * NS + n.nanos
    BY <1>2, DurationFacts
  <2>2. Quot(Value(x), NS) = n.seconds /\ Rem(Value(x), NS) = n.nanos
    BY <2>1, NormalFormIs
  <2> QED BY <1>2, <2>1, <2>2 DEF FromChrono
<1>3. Value(x) \notin I64 => FromChrono(Value(x)).is = "panic"
  BY DEF FromChrono, Panic
<1> QED BY <1>1, <1>2, <1>3 DEF ChronoRoundTrip

LEMMA DateTimeKeeps == x \in Time => DateTimeRoundTrip
<1> SUFFICES ASSUME x \in Time, x.seconds \in ChronoMin..(ChronoMax - 1),
                    x.nanos \in 0..(2 * NS - 1)
             PROVE  ToDateTime(TimestampFrom(x)) =
                      Ok(IF x.nanos < NS THEN x ELSE At(x.seconds + 1, x.nanos - NS))
  BY DEF DateTimeRoundTrip
<1> USE Sizes
<1>1. x = At(x.seconds, x.nanos) /\ x.seconds \in I64
  BY DEF Time, At
<1>2. ChronoMax \in Nat /\ ChronoMax <= Max64 /\ ChronoMin \in Int
  BY TimeAssumption DEF TimeAssumption, ChronoMin
<1>3. TimestampFrom(x) = x
  BY <1>1 DEF TimestampFrom
<1>4. CASE x.nanos < NS
  <2>1. \A l, g : Carry(x, l, g) = x
    BY <1>4 DEF Carry, CarryOverflow
  <2>2. NormalTimestamp(x) = x
    BY <2>1 DEF NormalTimestamp, Borrow
  <2>3. x.seconds \in ChronoMin..ChronoMax
    BY <1>2
  <2> QED BY <1>3, <1>4, <2>2, <2>3 DEF ToDateTime
<1>5. CASE x.nanos >= NS
  <2> PICK y : y = At(x.seconds + 1, x.nanos - NS)
    OBVIOUS
  <2>0. y.seconds = x.seconds + 1 /\ y.nanos = x.nanos - NS
    BY DEF At
  <2>1. x.nanos \div NS = 1
    BY <1>5, QuotientOne
  <2>2. Quot(x.nanos, NS) = 1 /\ Rem(x.nanos, NS) = x.nanos - NS
    BY <2>1 DEF Quot, Rem
  <2>3. /\ x.nanos \notin -NANOS_MAX..NANOS_MAX /\ ~(x.nanos < 0)
        /\ ~(x.seconds + 1 > Max64) /\ x.seconds + 1 \in ChronoMin..ChronoMax
        /\ x.nanos - NS >= 0 /\ ~(x.nanos < NS)
    BY <1>2, <1>5
  <2>4. \A l, g : Carry(x, l, g) = y
    BY <2>2, <2>3 DEF Carry, CarryOverflow
  <2>5. Borrow(y) = y
    BY <2>0, <2>3 DEF Borrow
  <2>6. NormalTimestamp(x) = y
    BY <2>4, <2>5 DEF NormalTimestamp
  <2>7. ToDateTime(x) = Ok(y)
    BY <2>0, <2>3, <2>6 DEF ToDateTime
  <2> QED BY <1>3, <2>3, <2>7
<1> QED BY <1>4, <1>5

LEMMA ShownKeeps == x \in Time => ShownMagnitude
<1> SUFFICES ASSUME x \in Time PROVE ShownMagnitude
  OBVIOUS
<1> USE Sizes
<1> PICK n : n = NormalDuration(x)
  OBVIOUS
<1>1. /\ n.seconds \in Int /\ n.nanos \in Int /\ n.seconds * NS \in Int
      /\ Value(n) = n.seconds * NS + n.nanos
      /\ \/ n.seconds >= 0 /\ n.nanos >= 0 /\ Value(n) >= 0 /\ n.seconds * NS >= 0
         \/ n.seconds <= 0 /\ n.nanos <= 0 /\ Value(n) <= 0 /\ n.seconds * NS <= 0
  BY DurationFacts
<1>2. Magnitude(n.seconds) * NS = Magnitude(n.seconds * NS)
  BY <1>1 DEF Magnitude
<1>3. Magnitude(n.seconds) * NS + Magnitude(n.nanos) = Magnitude(Value(n))
  BY <1>1, <1>2 DEF Magnitude
<1>4. ASSUME NEW checks \in BOOLEAN
      PROVE  LET s == Shown(x, checks)
             IN /\ s.is = "ok" /\ Value(s.digits) = Magnitude(Value(n)) <=> n.seconds # Min64
                /\ s.is = "panic" => checks
  <2> DEFINE s == Shown(x, checks)
             digits == At(Abs(n.seconds), Magnitude(n.nanos))
  <2>1. /\ s.is = IF n.seconds = Min64 /\ checks THEN "panic" ELSE "ok"
        /\ s.digits = digits
    BY DEF Shown
  <2>2. Value(digits) = Abs(n.seconds) * NS + Magnitude(n.nanos)
    BY DEF Value, At
  <2>3. n.seconds # Min64 => Value(digits) = Magnitude(Value(n))
    BY <1>3, <2>2 DEF Abs
  <2>4. ASSUME n.seconds = Min64
        PROVE  Value(digits) # Magnitude(Value(n))
    <3>1. Value(digits) = n.seconds * NS + Magnitude(n.nanos)
      BY <2>2, <2>4 DEF Abs
    <3>2. n.seconds < 0
      BY <2>4 DEF Min64, TimeAssumption
    <3>3. n.seconds * NS < 0
      <4>1. n.seconds <= -1 /\ n.seconds \in Int
        BY <1>1, <3>2
      <4>2. n.seconds * NS <= (-1) * NS
        BY <4>1, Products
      <4> QED BY <1>1, <4>2
    <3> QED BY <1>1, <3>1, <3>2, <3>3 DEF Magnitude
  <2> HIDE DEF s, digits
  <2> QED BY <2>1, <2>3, <2>4 DEF s
<1>5. x.seconds < 0 /\ x.nanos < 0 => Value(x) < 0
  <2>1. SUFFICES ASSUME x.seconds < 0, x.nanos < 0 PROVE x.seconds * NS + x.nanos < 0
    BY DEF Value
  <2>2. x.seconds \in Int /\ x.nanos \in Int
    BY DEF Time
  <2>3. x.seconds * NS <= 0 * NS /\ x.seconds * NS \in Int
    BY <2>1, <2>2, Products
  <2> QED BY <2>1, <2>2, <2>3
<1>6. \A checks \in BOOLEAN : Shown(x, checks).minus => Value(x) < 0
  BY <1>5 DEF Shown
<1> QED BY <1>4, <1>6 DEF ShownMagnitude

(* A duration keeps its magnitude through std and chrono and in what is    *)
(* printed, and a DateTime its instant, for all seconds and nanoseconds:   *)
(* because a value has one normal form.                                    *)
THEOREM TimeConverts == TimeSpec => []Conversions
<1> DEFINE Inv == x \in Time
<1>1. TimeInit => Inv
  BY DEF TimeInit
<1>2. Inv /\ [Normalise]_x => Inv'
  BY DurationNormal, TimestampNormal DEF Normalise
<1>3. Inv => Conversions
  BY StdKeeps, ChronoKeeps, DateTimeKeeps, ShownKeeps DEF Conversions
<1> QED BY <1>1, <1>2, <1>3, PTL DEF TimeSpec
-----------------------------------------------------------------------------
(* What get and try_from_nqn find while controllers come and go, and what  *)
(* a Subsystem does that was found, for any paths, any number of           *)
(* controllers and any number of changes.                                  *)

Ctls == [path : Paths, state : {"live", "connecting", "resetting"},
         number : InstanceNumbers, id : Nat]
NqnsAsked == {p.nqn : p \in Paths} \cup {""}
AddressesAsked == {p.address : p \in Paths} \cup {""}
Handles == [number : InstanceNumbers, nqn : NqnsAsked, address : AddressesAsked,
            state : {"live", "connecting", "resetting"}, nqnOf : Nat, restOf : Nat]
Lookups == [pc : {"idle", "next", "rest", "done"},
            op : {"none", "get", "try_from_nqn"},
            nqn : NqnsAsked, address : AddressesAsked,
            list : SUBSET InstanceNumbers, read : Seq(Ctls), got : Seq(Handles)]

FabricTypeOK ==
  DOMAIN fabric \subseteq InstanceNumbers /\ \A i \in DOMAIN fabric : fabric[i] \in Ctls
HandleTypeOK ==
  /\ FabricTypeOK /\ changes \in Nat /\ search \in Lookups
  /\ met \subseteq Ctls /\ stood \subseteq Ctls
  /\ kept \in Seq(Handles) /\ Len(kept) <= 1

(* An id is that of one controller, which keeps its number.                  *)
FabricInv ==
  /\ \A i \in DOMAIN fabric : fabric[i].number = i /\ fabric[i].id \in 1..changes
  /\ \A i, j \in DOMAIN fabric : fabric[i].id = fabric[j].id => i = j

(* A handle that was read from one controller tells the truth of it for as   *)
(* long as that controller is there.                                         *)
TrueOf(s) ==
  s.nqnOf = s.restOf =>
    \A i \in DOMAIN fabric : fabric[i].id = s.restOf =>
      i = s.number /\ fabric[i].path.nqn = s.nqn /\ fabric[i].path.address = s.address
TrueHandle(s) == s.restOf <= changes /\ TrueOf(s)
HandlesInv ==
  /\ \A s \in Found : TrueHandle(s)
  /\ kept # NoHandle => TrueHandle(kept[1])

(* What a lookup has read the first part of.                                 *)
ReadOne == search.read[1]
HalfRead ==
  /\ search.read # <<>> /\ ReadOne \in Ctls
  /\ ReadOne.number \in search.list /\ ReadOne.id <= changes
  /\ \A i \in DOMAIN fabric : fabric[i].id = ReadOne.id =>
       i = ReadOne.number /\ fabric[i].path = ReadOne.path
  /\ \A c \in stood : c.number = ReadOne.number => ReadOne.id = c.id

Stands(c) ==
  There(c.number) /\ fabric[c.number].id = c.id /\ fabric[c.number].path = c.path

(* What stood all the time has been found, or is still to be read.           *)
LookupInv ==
  /\ search.pc = "idle" => search.got = <<>>
  /\ search.pc # "idle" =>
       /\ search.op # "none" /\ Controllers(fabric) \subseteq met
       /\ \A c \in stood : Stands(c)
  /\ search.pc = "rest" => HalfRead
  /\ search.pc \in {"next", "rest"} =>
       /\ search.op = "get" => search.got = <<>>
       /\ \A c \in stood : Asked(c.path) =>
            c.number \in search.list \/ \E s \in Found : s.restOf = c.id

HandleInv ==
  /\ HandleTypeOK /\ FabricInv /\ HandlesInv /\ LookupInv
  /\ FoundWasThere /\ StandingPathIsFound

(* How the controllers may change: an id keeps its number and path, and a    *)
(* new one is new.                                                           *)
Evolves ==
  /\ changes' \in Nat /\ changes <= changes'
  /\ FabricTypeOK' /\ FabricInv'
  /\ \A i \in DOMAIN fabric' :
       \/ /\ i \in DOMAIN fabric
          /\ fabric'[i].id = fabric[i].id /\ fabric'[i].path = fabric[i].path
       \/ fabric'[i].id > changes

LEMMA StateSet ==
  ASSUME NEW c \in Ctls, NEW s \in {"live", "connecting", "resetting"}
  PROVE  LET d == [c EXCEPT !.state = s]
         IN d \in Ctls /\ d.id = c.id /\ d.path = c.path /\ d.number = c.number
  BY DEF Ctls

LEMMA StateEvolves ==
  ASSUME HandleTypeOK, FabricInv, changes' \in Nat, changes <= changes',
         NEW i \in DOMAIN fabric, NEW s \in {"live", "connecting", "resetting"},
         fabric' = [fabric EXCEPT ![i].state = s]
  PROVE  Evolves
  <1>1. /\ DOMAIN fabric' = DOMAIN fabric
        /\ \A j \in DOMAIN fabric \ {i} : fabric'[j] = fabric[j]
        /\ fabric'[i] = [fabric[i] EXCEPT !.state = s]
    OBVIOUS
  <1>2. \A j \in DOMAIN fabric :
          /\ fabric'[j] \in Ctls /\ fabric'[j].id = fabric[j].id
          /\ fabric'[j].path = fabric[j].path
          /\ fabric'[j].number = fabric[j].number
    <2> TAKE j \in DOMAIN fabric
    <2>1. fabric[j] \in Ctls
      BY DEF HandleTypeOK, FabricTypeOK
    <2>2. CASE j = i
      BY <1>1, <2>1, <2>2, StateSet, ZenonT(40)
    <2>3. CASE j # i
      BY <1>1, <2>1, <2>3
    <2> QED BY <2>2, <2>3
  <1>3. \A j \in DOMAIN fabric : fabric[j].id \in Nat
    BY DEF HandleTypeOK, FabricTypeOK, Ctls
  <1>4. FabricTypeOK'
    BY <1>1, <1>2 DEF HandleTypeOK, FabricTypeOK
  <1>5. FabricInv'
    BY <1>1, <1>2, <1>3 DEF HandleTypeOK, FabricInv
  <1> QED BY <1>1, <1>2, <1>4, <1>5 DEF Evolves

LEMMA WithoutEvolves ==
  ASSUME HandleTypeOK, FabricInv, changes' \in Nat, changes <= changes',
         NEW i \in DOMAIN fabric, fabric' = Without(i)
  PROVE  Evolves
  <1>1. /\ DOMAIN fabric' = DOMAIN fabric \ {i}
        /\ \A j \in DOMAIN fabric \ {i} : fabric'[j] = fabric[j]
    BY DEF Without
  <1>2. \A j \in DOMAIN fabric : fabric[j].id \in Nat
    BY DEF HandleTypeOK, FabricTypeOK, Ctls
  <1> QED
    BY <1>1, <1>2 DEF Evolves, HandleTypeOK, FabricTypeOK, FabricInv

LEMMA PlusEvolves ==
  ASSUME HandleTypeOK, FabricInv, changes' = changes + 1,
         NEW i \in InstanceNumbers, ~There(i), NEW p \in Paths,
         fabric' = Plus(i, [path |-> p, state |-> "live", number |-> i,
                            id |-> changes + 1])
  PROVE  Evolves
  <1> DEFINE c == [path |-> p, state |-> "live", number |-> i, id |-> changes + 1]
  <1>1. c \in Ctls /\ c.number = i /\ c.id = changes + 1 /\ changes \in Nat
    BY DEF Ctls, HandleTypeOK
  <1>2. fabric' = Plus(i, c) /\ i \notin DOMAIN fabric
    BY DEF There
  <1> HIDE DEF c
  <1>3. /\ DOMAIN fabric' = DOMAIN fabric \cup {i} /\ fabric'[i] = c
        /\ \A j \in DOMAIN fabric : fabric'[j] = fabric[j]
    BY <1>2 DEF Plus
  <1>4. \A j \in DOMAIN fabric : fabric[j].id \in 1..changes
    BY DEF FabricInv
  <1>5. FabricTypeOK'
    BY <1>1, <1>3 DEF HandleTypeOK, FabricTypeOK
  <1>6. FabricInv'
    BY <1>1, <1>3, <1>4 DEF FabricInv
  <1> QED BY <1>1, <1>3, <1>5, <1>6 DEF Evolves

LEMMA HandlesEvolve ==
  ASSUME HandleTypeOK, FabricInv, Evolves, NEW s, s.restOf \in Nat, TrueHandle(s)
  PROVE  TrueHandle(s)'
  <1>1. changes \in Nat /\ changes' \in Nat /\ changes <= changes'
    BY DEF HandleTypeOK, Evolves
  <1>2. ASSUME s.nqnOf = s.restOf, NEW i \in DOMAIN fabric',
               fabric'[i].id = s.restOf
        PROVE  /\ i = s.number /\ fabric'[i].path.nqn = s.nqn
               /\ fabric'[i].path.address = s.address
    <2>1. ~(fabric'[i].id > changes)
      BY <1>1, <1>2 DEF TrueHandle
    <2>2. /\ i \in DOMAIN fabric
          /\ fabric'[i].id = fabric[i].id /\ fabric'[i].path = fabric[i].path
      BY <2>1 DEF Evolves
    <2> QED BY <1>2, <2>2 DEF TrueHandle, TrueOf
  <1> QED BY <1>1, <1>2 DEF TrueHandle, TrueOf

(* The lookup: its fields, and what its steps make of them.                  *)
LEMMA LookupFields ==
  ASSUME NEW l \in Lookups
  PROVE  /\ l.pc \in {"idle", "next", "rest", "done"}
         /\ l.op \in {"none", "get", "try_from_nqn"}
         /\ l.nqn \in NqnsAsked /\ l.address \in AddressesAsked
         /\ l.list \in SUBSET InstanceNumbers
         /\ l.read \in Seq(Ctls) /\ l.got \in Seq(Handles)
  BY DEF Lookups

LEMMA NowIs ==
  ASSUME search \in Lookups, NEW pc \in {"next", "rest", "done"},
         NEW list \in SUBSET InstanceNumbers, NEW read \in Seq(Ctls),
         NEW got \in Seq(Handles), search' = Now(pc, list, read, got)
  PROVE  /\ search' \in Lookups /\ search'.pc = pc /\ search'.list = list
         /\ search'.read = read /\ search'.got = got
         /\ search'.op = search.op /\ search'.nqn = search.nqn
         /\ search'.address = search.address
  BY LookupFields DEF Now, Lookups

LEMMA DoneIs ==
  ASSUME search \in Lookups, NEW got \in Seq(Handles), search' = Done(got)
  PROVE  /\ search' \in Lookups /\ search'.pc = "done" /\ search'.got = got
         /\ search'.op = search.op /\ search'.nqn = search.nqn
         /\ search'.address = search.address
  <1> DEFINE pc == "done"
             list == {}
             read == <<>>
  <1>1. /\ search' = Now(pc, list, read, got) /\ read \in Seq(Ctls)
        /\ list \in SUBSET InstanceNumbers /\ pc \in {"next", "rest", "done"}
    BY DEF Done
  <1> HIDE DEF list, read
  <1> QED BY <1>1, NowIs

LEMMA OnWithIs ==
  ASSUME search \in Lookups, NEW i, NEW got \in Seq(Handles),
         search' = OnWith(i, got)
  PROVE  /\ search' \in Lookups /\ search'.pc = "next" /\ search'.got = got
         /\ search'.list = search.list \ {i}
         /\ search'.op = search.op /\ search'.nqn = search.nqn
         /\ search'.address = search.address
  <1> DEFINE list == search.list \ {i}
             read == <<>>
  <1>1. list \in SUBSET InstanceNumbers
    BY LookupFields
  <1>2. search' = Now("next", list, read, got) /\ read \in Seq(Ctls)
    BY DEF OnWith
  <1> HIDE DEF list, read
  <1>3. /\ search' \in Lookups /\ search'.pc = "next" /\ search'.got = got
        /\ search'.list = list
        /\ search'.op = search.op /\ search'.nqn = search.nqn
        /\ search'.address = search.address
    BY <1>1, <1>2, NowIs
  <1> QED BY <1>3 DEF list

LEMMA AppendedSet ==
  ASSUME NEW f \in Seq(Handles), NEW e \in Handles
  PROVE  /\ Append(f, e) \in Seq(Handles)
         /\ ToSet(Append(f, e)) = ToSet(f) \cup {e}
  <1>1. /\ Append(f, e) \in Seq(Handles) /\ DOMAIN Append(f, e) = 1..(Len(f) + 1)
        /\ Len(f) \in Nat /\ DOMAIN f = 1..Len(f)
        /\ \A i \in 1..Len(f) : Append(f, e)[i] = f[i]
        /\ Append(f, e)[Len(f) + 1] = e
    OBVIOUS
  <1>2. 1..(Len(f) + 1) = 1..Len(f) \cup {Len(f) + 1}
    BY <1>1
  <1> QED BY <1>1, <1>2 DEF ToSet

LEMMA HandleFields ==
  ASSUME NEW s \in Handles
  PROVE  /\ s.number \in InstanceNumbers /\ s.nqnOf \in Nat /\ s.restOf \in Nat
         /\ s.nqn \in NqnsAsked /\ s.address \in AddressesAsked
  BY DEF Handles

LEMMA FoundAreHandles ==
  ASSUME HandleTypeOK
  PROVE  /\ \A s \in Found : s \in Handles
         /\ kept # NoHandle => kept[1] \in Handles
  <1>1. \A s \in Found : s \in Handles
    BY LookupFields DEF HandleTypeOK, Found, ToSet
  <1>2. kept # NoHandle => kept[1] \in Handles
    BY DEF HandleTypeOK, NoHandle
  <1> QED BY <1>1, <1>2

(* The controllers change, and the lookup stands still.                      *)
LEMMA OthersKeep ==
  ASSUME HandleInv, Others
  PROVE  HandleInv'
  <1> USE DEF HandleInv
  <1>1. Evolves
    <2>1. changes' = changes + 1 /\ changes \in Nat
      BY DEF Others, HandleTypeOK
    <2>2. ASSUME NEW i \in InstanceNumbers, NEW p \in Paths, ~There(i),
                 fabric' = Plus(i, [path |-> p, state |-> "live", number |-> i,
                                    id |-> changes + 1])
          PROVE  Evolves
      BY <2>1, <2>2, PlusEvolves
    <2>3. ASSUME NEW i \in DOMAIN fabric, fabric' = Without(i)
          PROVE  Evolves
      BY <2>1, <2>3, WithoutEvolves
    <2>4. ASSUME NEW i \in DOMAIN fabric, NEW s \in {"live", "connecting"},
                 fabric' = [fabric EXCEPT ![i].state = s]
          PROVE  Evolves
      <3>1. s \in {"live", "connecting", "resetting"}
        OBVIOUS
      <3>2. changes' \in Nat /\ changes <= changes'
        BY <2>1
      <3>3. HandleTypeOK /\ FabricInv
        OBVIOUS
      <3> QED BY ONLY <2>4, <3>1, <3>2, <3>3, StateEvolves, Zenon
    <2> QED BY <2>2, <2>3, <2>4 DEF Others
  <1>2. /\ UNCHANGED <<search, kept>> /\ met' = met \cup Controllers(fabric')
        /\ stood' = {c \in stood : \E d \in Controllers(fabric') : d.id = c.id}
    BY DEF Others
  <1>3. HandleTypeOK'
    <2>1. Controllers(fabric') \subseteq Ctls
      BY <1>1 DEF Evolves, FabricTypeOK, Controllers, Range
    <2> QED BY <1>1, <1>2, <2>1 DEF Evolves, HandleTypeOK
  <1>4. HandlesInv'
    <2>1. ASSUME NEW s \in Found
          PROVE  TrueHandle(s)'
      BY <1>1, <2>1, HandlesEvolve, FoundAreHandles, HandleFields DEF HandlesInv
    <2>2. ASSUME kept # NoHandle
          PROVE  TrueHandle(kept[1])'
      <3> DEFINE s == kept[1]
      <3>1. s \in Handles /\ TrueHandle(s)
        BY <2>2, FoundAreHandles DEF HandlesInv
      <3>2. s' = s
        BY <1>2
      <3> HIDE DEF s
      <3>3. s.restOf \in Nat
        BY <3>1, HandleFields
      <3>4. TrueHandle(s)'
        BY <1>1, <3>1, <3>2, <3>3, HandlesEvolve DEF TrueHandle, TrueOf, Evolves, HandleTypeOK
      <3> QED BY <3>4 DEF s
    <2> QED BY <1>2, <2>1, <2>2 DEF HandlesInv, Found
  <1>5. LookupInv'
    <2>0. changes \in Nat
      BY DEF HandleTypeOK
    <2>1. ASSUME NEW i \in DOMAIN fabric', fabric'[i].id <= changes
          PROVE  /\ i \in DOMAIN fabric
                 /\ fabric'[i].id = fabric[i].id /\ fabric'[i].path = fabric[i].path
      BY <1>1, <2>0, <2>1 DEF Evolves, HandleTypeOK, FabricInv
    <2>2. ASSUME search.pc # "idle", NEW c \in stood'
          PROVE  Stands(c)'
      <3>1. PICK i \in DOMAIN fabric' : fabric'[i].id = c.id
        BY <1>2, <2>2 DEF Controllers, Range
      <3>2. Stands(c) /\ fabric[c.number].id \in 1..changes
        BY <1>2, <2>2 DEF LookupInv, FabricInv, Stands, There
      <3>3. /\ i \in DOMAIN fabric /\ fabric[i].id = c.id
            /\ fabric'[i].path = fabric[i].path
        BY <2>0, <2>1, <3>1, <3>2 DEF Stands
      <3>4. i = c.number
        BY <3>2, <3>3 DEF FabricInv, Stands, There
      <3> QED BY <3>1, <3>2, <3>3, <3>4 DEF Stands, There
    <2>3. ASSUME search.pc = "rest"
          PROVE  HalfRead'
      <3>1. HalfRead
        BY <2>3 DEF LookupInv
      <3>2. ASSUME NEW i \in DOMAIN fabric', fabric'[i].id = ReadOne.id
            PROVE  i = ReadOne.number /\ fabric'[i].path = ReadOne.path
        BY <2>1, <3>1, <3>2 DEF HalfRead
      <3>3. ReadOne.id \in Nat
        BY <3>1 DEF HalfRead, Ctls
      <3> QED
        BY <1>1, <1>2, <2>0, <3>1, <3>2, <3>3 DEF HalfRead, ReadOne, Evolves
    <2> QED BY <1>2, <2>2, <2>3 DEF LookupInv, Asked, Found
  <1>6. FoundWasThere' /\ StandingPathIsFound'
    BY <1>2 DEF FoundWasThere, StandingPathIsFound, Found, Asked
  <1> QED BY <1>1, <1>3, <1>4, <1>5, <1>6 DEF Evolves

LEMMA SearchKeeps ==
  ASSUME HandleInv, NEW p \in Paths, NEW o \in {"get", "try_from_nqn"},
         NEW a \in AddressesAsked, Search(o, p.nqn, a)
  PROVE  HandleInv'
  <1> USE DEF HandleInv
  <1>1. /\ search' = [pc |-> "next", op |-> o, nqn |-> p.nqn, address |-> a,
                      list |-> DOMAIN fabric, read |-> <<>>, got |-> <<>>]
        /\ met' = Controllers(fabric) /\ stood' = Controllers(fabric)
        /\ UNCHANGED <<fabric, changes, kept>>
    BY DEF Search, Listed
  <1>2. /\ search'.pc = "next" /\ search'.op = o /\ search'.list = DOMAIN fabric
        /\ search'.got = <<>> /\ Found' = {}
    BY <1>1 DEF Found, ToSet
  <1>3. HandleTypeOK'
    <2>1. search' \in Lookups
      <3>1. DOMAIN fabric \in SUBSET InstanceNumbers
        BY DEF HandleTypeOK, FabricTypeOK
      <3>2. <<>> \in Seq(Ctls) /\ <<>> \in Seq(Handles)
        OBVIOUS
      <3>3. p.nqn \in NqnsAsked
        BY DEF NqnsAsked
      <3> QED BY <1>1, <3>1, <3>2, <3>3 DEF Lookups
    <2> QED
      BY <1>1, <2>1 DEF HandleTypeOK, FabricTypeOK, Controllers, Range
  <1>4. FabricInv' /\ HandlesInv'
    BY <1>1, <1>2 DEF FabricInv, HandlesInv, TrueHandle, TrueOf
  <1>5. \A c \in stood' : Stands(c)' /\ c.number \in DOMAIN fabric
    BY <1>1 DEF Stands, There, Controllers, Range, FabricInv
  <1>6. LookupInv' /\ FoundWasThere' /\ StandingPathIsFound'
    BY <1>1, <1>2, <1>5 DEF LookupInv, FoundWasThere, StandingPathIsFound
  <1> QED BY <1>3, <1>4, <1>6

(* A step of a lookup that has got what it had got before.                   *)
LEMMA ReadNqnKeeps ==
  ASSUME HandleInv, ReadNqn
  PROVE  HandleInv'
  <1> USE DEF HandleInv
  <1>1. PICK i \in search.list :
          search' = IF There(i) THEN Now("rest", search.list, <<fabric[i]>>, search.got)
                                ELSE ErrorSkipped(i)
    BY DEF ReadNqn
  <1>2. UNCHANGED <<fabric, changes, met, stood, kept>> /\ search.pc = "next"
    BY DEF ReadNqn
  <1>3. search \in Lookups /\ search.got \in Seq(Handles) /\ search.read \in Seq(Ctls)
    BY LookupFields DEF HandleTypeOK
  <1>4. CASE There(i)
    <2> DEFINE read == <<fabric[i]>>
               list == search.list
               got == search.got
               pc == "rest"
    <2>1. fabric[i] \in Ctls /\ fabric[i].number = i /\ fabric[i].id <= changes
      BY <1>4 DEF HandleTypeOK, FabricTypeOK, FabricInv, There
    <2>2. read \in Seq(Ctls) /\ read # <<>> /\ read[1] = fabric[i]
      BY <2>1
    <2>3. list \in SUBSET InstanceNumbers /\ pc \in {"next", "rest", "done"}
      BY <1>3, LookupFields
    <2>4. search' = Now(pc, list, read, got) /\ got \in Seq(Handles)
      BY <1>1, <1>3, <1>4
    <2> HIDE DEF read, list, got, pc
    <2>5. /\ search' \in Lookups /\ search'.pc = pc /\ search'.list = list
          /\ search'.read = read /\ search'.got = got
          /\ search'.op = search.op /\ search'.nqn = search.nqn
          /\ search'.address = search.address
      BY ONLY <1>3, <2>2, <2>3, <2>4, NowIs
    <2>6. /\ search'.pc = "rest" /\ search'.list = search.list
          /\ search'.got = search.got /\ search'.read # <<>>
          /\ ReadOne' = fabric[i] /\ Found' = Found
      BY <2>2, <2>5 DEF pc, list, got, ReadOne, Found
    <2>7. HandleTypeOK' /\ FabricInv' /\ HandlesInv'
      BY <1>2, <2>5, <2>6
      DEF HandleTypeOK, FabricTypeOK, FabricInv, HandlesInv, TrueHandle, TrueOf
    <2>8. HalfRead'
      <3>1. \A c \in stood : c.number = i => fabric[i].id = c.id
        BY <1>2 DEF LookupInv, Stands
      <3>2. \A j \in DOMAIN fabric : fabric[j].id = fabric[i].id => j = i
        BY <1>4 DEF FabricInv, There
      <3>3. /\ search'.read # <<>> /\ ReadOne' \in Ctls
            /\ ReadOne'.number \in search'.list /\ ReadOne'.id <= changes'
        BY <1>2, <2>1, <2>6
      <3>4. \A j \in DOMAIN fabric' : fabric'[j].id = ReadOne'.id =>
              j = ReadOne'.number /\ fabric'[j].path = ReadOne'.path
        BY <1>2, <2>1, <2>6, <3>2
      <3>5. \A c \in stood' : c.number = ReadOne'.number => ReadOne'.id = c.id
        BY <1>2, <2>1, <2>6, <3>1
      <3> QED BY <3>3, <3>4, <3>5 DEF HalfRead
    <2>9. LookupInv'
      BY <1>2, <2>5, <2>6, <2>8 DEF LookupInv, Stands, There, Asked
    <2> QED
      BY <1>2, <2>5, <2>6, <2>7, <2>9
      DEF FoundWasThere, StandingPathIsFound, Asked
  <1>5. CASE ~There(i)
    <2>1. search' = OnWith(i, search.got)
      BY <1>1, <1>5 DEF ErrorSkipped
    <2>2. /\ search' \in Lookups /\ search'.pc = "next"
          /\ search'.got = search.got /\ search'.list = search.list \ {i}
          /\ search'.op = search.op /\ search'.nqn = search.nqn
          /\ search'.address = search.address /\ Found' = Found
      BY <1>3, <2>1, OnWithIs DEF Found
    <2>3. HandleTypeOK' /\ FabricInv' /\ HandlesInv'
      BY <1>2, <2>2
      DEF HandleTypeOK, FabricTypeOK, FabricInv, HandlesInv, TrueHandle, TrueOf
    <2>4. LookupInv'
      BY <1>2, <1>5, <2>2 DEF LookupInv, Stands, There, Asked
    <2> QED
      BY <1>2, <2>2, <2>3, <2>4
      DEF FoundWasThere, StandingPathIsFound, Asked
  <1> QED BY <1>4, <1>5

LEMMA SearchEndsKeeps ==
  ASSUME HandleInv, SearchEnds
  PROVE  HandleInv'
  <1> USE DEF HandleInv
  <1>1. /\ UNCHANGED <<fabric, changes, met, stood, kept>>
        /\ search.pc = "next" /\ search.list = {}
    BY DEF SearchEnds
  <1>2. /\ search' \in Lookups /\ search'.pc = "done" /\ search'.got = search.got
        /\ search'.op = search.op /\ search'.nqn = search.nqn
        /\ search'.address = search.address /\ Found' = Found
    BY DoneIs, LookupFields DEF SearchEnds, HandleTypeOK, Found
  <1>3. HandleTypeOK' /\ FabricInv' /\ HandlesInv'
    BY <1>1, <1>2
    DEF HandleTypeOK, FabricTypeOK, FabricInv, HandlesInv, TrueHandle, TrueOf
  <1>4. LookupInv'
    BY <1>1, <1>2 DEF LookupInv, Stands, There, Asked
  <1>5. FoundWasThere' /\ StandingPathIsFound'
    BY <1>1, <1>2 DEF LookupInv, FoundWasThere, StandingPathIsFound, Asked
  <1> QED BY <1>3, <1>4, <1>5

LEMMA KeepKeeps ==
  ASSUME HandleInv, Keep
  PROVE  HandleInv'
  <1> USE DEF HandleInv
  <1>1. /\ UNCHANGED <<fabric, changes>> /\ met' = {} /\ stood' = {}
        /\ search' = NoSearch
    BY DEF Keep
  <1>2. search'.pc = "idle" /\ search'.got = <<>> /\ Found' = {}
    <2>1. search'.pc = "idle" /\ search'.got = <<>>
      BY <1>1 DEF NoSearch
    <2> QED BY <2>1 DEF Found, ToSet
  <1>3. search' \in Lookups
    <2>1. <<>> \in Seq(Ctls) /\ <<>> \in Seq(Handles)
      OBVIOUS
    <2> QED BY <1>1, <2>1 DEF NoSearch, Lookups, NqnsAsked, AddressesAsked
  <1>4. kept' = kept \/ \E s \in Found : kept' = <<s>>
    BY DEF Keep, Found
  <1>5. kept' \in Seq(Handles) /\ Len(kept') <= 1
    <2>1. ASSUME NEW s \in Found, kept' = <<s>>
          PROVE  kept' \in Seq(Handles) /\ Len(kept') <= 1
      <3>1. s \in Handles
        BY FoundAreHandles
      <3> QED BY <2>1, <3>1
    <2> QED BY <1>4, <2>1 DEF HandleTypeOK
  <1>6. kept' # NoHandle => TrueHandle(kept'[1])
    BY <1>4 DEF HandlesInv
  <1>7. HandleTypeOK' /\ FabricInv'
    BY <1>1, <1>3, <1>5 DEF HandleTypeOK, FabricTypeOK, FabricInv
  <1>8. HandlesInv'
    BY <1>1, <1>2, <1>6 DEF HandlesInv, TrueHandle, TrueOf
  <1>9. LookupInv' /\ FoundWasThere' /\ StandingPathIsFound'
    BY <1>2 DEF LookupInv, FoundWasThere, StandingPathIsFound
  <1> QED BY <1>7, <1>8, <1>9

(* What is done with a Subsystem, while there is no lookup.                  *)
LEMMA SyncKeeps ==
  ASSUME HandleInv, Sync
  PROVE  HandleInv'
  <1> USE DEF HandleInv
  <1>1. PICK i \in InstanceNumbers :
          /\ Handled(i) /\ kept' = <<[kept[1] EXCEPT !.state = fabric[i].state]>>
    BY DEF Sync
  <1>2. UNCHANGED <<fabric, changes, search, met, stood>>
    BY <1>1 DEF Sync, Handled
  <1>3. kept # NoHandle /\ kept[1] \in Handles /\ fabric[i] \in Ctls
    BY <1>1, FoundAreHandles DEF Handled, HandleTypeOK, FabricTypeOK, There
  <1> DEFINE s == kept[1]
             u == [s EXCEPT !.state = fabric[i].state]
  <1>4. /\ u \in Handles /\ u.number = s.number /\ u.nqn = s.nqn
        /\ u.address = s.address /\ u.nqnOf = s.nqnOf /\ u.restOf = s.restOf
    BY <1>3 DEF Handles, Ctls
  <1>5. TrueHandle(s) /\ kept' = <<u>>
    BY <1>1, <1>3 DEF HandlesInv
  <1> HIDE DEF s, u
  <1>6. TrueHandle(u)
    BY <1>4, <1>5 DEF TrueHandle, TrueOf
  <1>7. HandleTypeOK' /\ FabricInv'
    BY <1>2, <1>4, <1>5 DEF HandleTypeOK, FabricTypeOK, FabricInv
  <1>8. HandlesInv'
    BY <1>2, <1>5, <1>6 DEF HandlesInv, TrueHandle, TrueOf, Found
  <1>9. LookupInv' /\ FoundWasThere' /\ StandingPathIsFound'
    BY <1>2
    DEF LookupInv, FoundWasThere, StandingPathIsFound, HalfRead, ReadOne,
        Stands, There, Found, Asked
  <1> QED BY <1>7, <1>8, <1>9

LEMMA EvolvedIdle ==
  ASSUME HandleInv, Evolves, search.pc = "idle",
         UNCHANGED <<changes, search, met, stood, kept>>
  PROVE  HandleInv'
  <1> USE DEF HandleInv
  <1>1. HandleTypeOK' /\ FabricInv'
    BY DEF Evolves, HandleTypeOK
  <1>2. Found' = {} /\ search'.pc = "idle" /\ search'.got = <<>>
    BY DEF LookupInv, Found, ToSet
  <1>3. ASSUME kept # NoHandle
        PROVE  TrueHandle(kept[1])'
    <2>1. PICK s \in Handles : kept[1] = s
      BY <1>3, FoundAreHandles
    <2>2. s.restOf \in Nat /\ TrueHandle(s)
      BY <1>3, <2>1, HandleFields DEF HandlesInv
    <2>3. TrueHandle(s)'
      BY <2>2, HandlesEvolve
    <2> QED BY <2>1, <2>3 DEF TrueHandle, TrueOf
  <1>4. HandlesInv'
    BY <1>2, <1>3 DEF HandlesInv
  <1>5. LookupInv' /\ FoundWasThere' /\ StandingPathIsFound'
    BY <1>2 DEF LookupInv, FoundWasThere, StandingPathIsFound
  <1> QED BY <1>1, <1>4, <1>5

LEMMA HandleOpsKeep ==
  ASSUME HandleInv, Reset \/ DisconnectHandle
  PROVE  HandleInv'
  <1> USE DEF HandleInv
  <1>1. changes \in Nat
    BY DEF HandleTypeOK
  <1>2. ASSUME NEW i \in InstanceNumbers, Handled(i), UNCHANGED kept,
               \/ fabric' = [fabric EXCEPT ![i].state = "resetting"]
               \/ fabric' = Without(i)
        PROVE  HandleInv'
    <2>1. /\ UNCHANGED <<changes, search, met, stood, kept>>
          /\ search.pc = "idle" /\ i \in DOMAIN fabric
      BY <1>2 DEF Handled, There
    <2>2. Evolves
      <3>1. CASE fabric' = Without(i)
        BY <1>1, <2>1, <3>1, WithoutEvolves
      <3>2. CASE fabric' = [fabric EXCEPT ![i].state = "resetting"]
        <4>1. "resetting" \in {"live", "connecting", "resetting"}
          OBVIOUS
        <4>2. changes' \in Nat /\ changes <= changes'
          BY <1>1, <2>1
        <4>3. HandleTypeOK /\ FabricInv /\ i \in DOMAIN fabric
          BY <2>1
        <4> QED BY ONLY <3>2, <4>1, <4>2, <4>3, StateEvolves, Zenon
      <3> QED BY <1>2, <3>1, <3>2
    <2> QED BY <2>1, <2>2, EvolvedIdle
  <1> QED BY <1>2 DEF Reset, DisconnectHandle

(* The second part is read, and what comes of it got or passed over.         *)
LEMMA ReadRestKeeps ==
  ASSUME HandleInv, ReadRest
  PROVE  HandleInv'
  <1> USE DEF HandleInv
  <1> DEFINE i == ReadOne.number
             s == Read(fabric[i])
  <1>1. /\ search' = IF ~There(i) \/ (There(i) /\ fabric[i].path.kind = "discovery")
                       THEN ErrorSkipped(i)
                     ELSE IF ~Matches(s) THEN OnWith(i, search.got)
                     ELSE IF search.op = "get" THEN Done(<<s>>)
                     ELSE OnWith(i, Append(search.got, s))
        /\ UNCHANGED <<fabric, changes, met, stood, kept>>
        /\ search.pc = "rest"
    BY DEF ReadRest, ReadOne
  <1>2. /\ HalfRead /\ search.op # "none" /\ (search.op = "get" => search.got = <<>>)
        /\ Controllers(fabric) \subseteq met /\ \A c \in stood : Stands(c)
        /\ \A c \in stood : Asked(c.path) =>
             c.number \in search.list \/ \E t \in Found : t.restOf = c.id
    BY <1>1 DEF LookupInv
  <1>3. /\ search \in Lookups /\ search.got \in Seq(Handles)
        /\ search.op \in {"get", "try_from_nqn"}
    BY <1>2, LookupFields DEF HandleTypeOK
  (* One that stood at this number is the one of which both parts are read.  *)
  <1>4. ASSUME NEW c \in stood, c.number = i
        PROVE  /\ There(i) /\ fabric[i].id = c.id /\ ReadOne.id = c.id
               /\ fabric[i].path = c.path /\ ReadOne.path = c.path
    BY <1>2, <1>4 DEF Stands, HalfRead, There
  <1>6. ASSUME search' = OnWith(i, search.got),
               \A c \in stood : Asked(c.path) => c.number # i
        PROVE  HandleInv'
    <2>1. /\ search' \in Lookups /\ search'.pc = "next"
          /\ search'.got = search.got /\ search'.list = search.list \ {i}
          /\ search'.op = search.op /\ search'.nqn = search.nqn
          /\ search'.address = search.address /\ Found' = Found
      BY <1>3, <1>6, OnWithIs DEF Found
    <2>2. HandleTypeOK' /\ FabricInv' /\ HandlesInv'
      BY <1>1, <2>1
      DEF HandleTypeOK, FabricTypeOK, FabricInv, HandlesInv, TrueHandle, TrueOf
    <2>3. LookupInv'
      BY <1>1, <1>2, <1>6, <2>1 DEF LookupInv, Stands, There, Asked
    <2> QED
      BY <1>1, <2>1, <2>2, <2>3, ZenonT(40) DEF FoundWasThere, StandingPathIsFound, Asked
  <1>7. ASSUME There(i), fabric[i].path.kind # "discovery", Matches(s),
               NEW got \in Seq(Handles), ToSet(got) \subseteq Found \cup {s},
               search'.got = got, search' \in Lookups,
               search'.op = search.op, search'.nqn = search.nqn,
               search'.address = search.address
        PROVE  /\ HandleTypeOK' /\ FabricInv' /\ HandlesInv' /\ FoundWasThere'
               /\ \A c \in stood : c.number = i => s.restOf = c.id
    <2>1. /\ fabric[i] \in Ctls /\ fabric[i].number = i /\ fabric[i].id <= changes
          /\ fabric[i].path \in Paths /\ fabric[i] \in met
      BY <1>2, <1>7
      DEF HandleTypeOK, FabricTypeOK, FabricInv, There, Controllers, Range, Ctls
    <2>2. /\ s.number = i /\ s.nqn = ReadOne.path.nqn
          /\ s.address = fabric[i].path.address
          /\ s.nqnOf = ReadOne.id /\ s.restOf = fabric[i].id
      BY <2>1 DEF Read, ReadOne
    <2>3. TrueHandle(s)
      BY <1>2, <1>7, <2>1, <2>2
      DEF TrueHandle, TrueOf, HalfRead, FabricInv, There
    <2>4. /\ HandleTypeOK' /\ FabricInv'
      BY <1>1, <1>7 DEF HandleTypeOK, FabricTypeOK, FabricInv
    <2>5. Found' \subseteq Found \cup {s}
      BY <1>7 DEF Found
    <2>6. HandlesInv'
      BY <1>1, <2>3, <2>5 DEF HandlesInv, TrueHandle, TrueOf
    <2> PICK c \in met : c = fabric[i]
      BY <2>1
    <2>7. ASSUME s.nqnOf = s.restOf
          PROVE  c.id = s.restOf /\ c.number = s.number /\ Asked(c.path)'
      <3>1. ReadOne.path = fabric[i].path
        BY <1>2, <1>7, <2>2, <2>7 DEF HalfRead, There
      <3>2. fabric[i].path.kind = "io"
        BY <1>7, <2>1, HandlesAssumption DEF HandlesAssumption
      <3>3. s.nqn = search.nqn /\ (search.op = "get" => s.address = search.address)
        BY <1>7 DEF Matches
      <3>4. Asked(c.path)
        BY <2>2, <3>1, <3>2, <3>3 DEF Asked
      <3>5. c.id = s.restOf /\ c.number = s.number
        BY <2>1, <2>2
      <3> HIDE DEF s, i
      <3> QED BY <1>1, <1>7, <3>4, <3>5 DEF Asked
    <2>8. FoundWasThere'
      <3>1. ASSUME NEW t \in Found
            PROVE  \/ t.nqnOf # t.restOf
                   \/ \E d \in met' : /\ d.id = t.restOf /\ d.number = t.number
                                      /\ Asked(d.path)'
        BY <1>1, <1>7 DEF FoundWasThere, Asked
      <3>2. \/ s.nqnOf # s.restOf
            \/ \E d \in met' : /\ d.id = s.restOf /\ d.number = s.number
                               /\ Asked(d.path)'
        BY <1>1, <2>7
      <3> HIDE DEF s
      <3> QED BY <2>5, <3>1, <3>2 DEF FoundWasThere
    <2>9. \A d \in stood : d.number = i => s.restOf = d.id
      BY <1>4, <2>2
    <2> QED BY <2>4, <2>6, <2>8, <2>9
  <1>8. CASE ~There(i) \/ (There(i) /\ fabric[i].path.kind = "discovery")
    <2>1. search' = OnWith(i, search.got)
      BY <1>1, <1>8 DEF ErrorSkipped
    <2>2. \A c \in stood : Asked(c.path) => c.number # i
      BY <1>4, <1>8 DEF Asked
    <2> QED BY <1>6, <2>1, <2>2
  <1>9. CASE There(i) /\ fabric[i].path.kind # "discovery" /\ ~Matches(s)
    <2>1. search' = OnWith(i, search.got)
      BY <1>1, <1>9
    <2>2. s.nqn = ReadOne.path.nqn /\ s.address = fabric[i].path.address
      BY DEF Read, ReadOne
    <2>3. \A c \in stood : Asked(c.path) => c.number # i
      BY <1>4, <1>9, <2>2 DEF Asked, Matches
    <2> QED BY <1>6, <2>1, <2>3
  <1>10. CASE There(i) /\ fabric[i].path.kind # "discovery" /\ Matches(s)
    <2>1. s \in Handles
      <3>1. fabric[i] \in Ctls /\ ReadOne \in Ctls
        BY <1>2, <1>10 DEF HalfRead, HandleTypeOK, FabricTypeOK, There
      <3>2. /\ fabric[i].number \in InstanceNumbers /\ fabric[i].id \in Nat
            /\ fabric[i].state \in {"live", "connecting", "resetting"}
            /\ fabric[i].path.address \in AddressesAsked
            /\ ReadOne.path.nqn \in NqnsAsked /\ ReadOne.id \in Nat
        BY <3>1 DEF Ctls, AddressesAsked, NqnsAsked
      <3> QED BY <3>2 DEF Read, ReadOne, Handles
    <2> HIDE DEF s
    <2>2. CASE search.op = "get"
      <3>1. search' = Done(<<s>>) /\ <<s>> \in Seq(Handles)
        BY <1>1, <1>10, <2>1, <2>2 DEF s
      <3>2. /\ search' \in Lookups /\ search'.pc = "done"
            /\ search'.got = <<s>> /\ search'.op = search.op
            /\ search'.nqn = search.nqn /\ search'.address = search.address
        BY <1>3, <3>1, DoneIs
      <3>3. ToSet(<<s>>) = {s}
        BY DEF ToSet
      <3>4. HandleTypeOK' /\ FabricInv' /\ HandlesInv' /\ FoundWasThere'
        BY <1>7, <1>10, <3>1, <3>2, <3>3
      <3>5. s \in Found'
        BY <3>2, <3>3 DEF Found
      <3>6. StandingPathIsFound'
        BY <2>2, <3>2, <3>5 DEF StandingPathIsFound
      <3>7. LookupInv'
        BY <1>1, <1>2, <3>2 DEF LookupInv, Stands, There
      <3> QED BY <3>4, <3>6, <3>7
    <2>3. CASE search.op # "get"
      <3> DEFINE got == Append(search.got, s)
      <3>1. search' = OnWith(i, got)
        BY <1>1, <1>10, <2>3 DEF s
      <3>2. got \in Seq(Handles) /\ ToSet(got) = Found \cup {s}
        <4>1. /\ Append(search.got, s) \in Seq(Handles)
              /\ ToSet(Append(search.got, s)) = ToSet(search.got) \cup {s}
          <5>1. PICK h \in Seq(Handles) : h = search.got
            BY <1>3
          <5>2. PICK u \in Handles : u = s
            BY <2>1
          <5>3. /\ Append(h, u) \in Seq(Handles)
                /\ ToSet(Append(h, u)) = ToSet(h) \cup {u}
            BY AppendedSet
          <5> QED BY <5>1, <5>2, <5>3
        <4> QED BY <4>1 DEF Found
      <3> HIDE DEF got
      <3>3. /\ search' \in Lookups /\ search'.pc = "next"
            /\ search'.got = got /\ search'.list = search.list \ {i}
            /\ search'.op = search.op /\ search'.nqn = search.nqn
            /\ search'.address = search.address
        BY <1>3, <3>1, <3>2, OnWithIs
      <3>4. /\ HandleTypeOK' /\ FabricInv' /\ HandlesInv' /\ FoundWasThere'
            /\ \A c \in stood : c.number = i => s.restOf = c.id
        BY <1>7, <1>10, <3>2, <3>3
      <3>5. Found' = Found \cup {s}
        BY <3>2, <3>3 DEF Found
      <3>6. ASSUME NEW c \in stood, Asked(c.path)'
            PROVE  c.number \in search'.list \/ \E t \in Found' : t.restOf = c.id
        <4>1. Asked(c.path)
          BY <3>3, <3>6 DEF Asked
        <4> QED BY <1>2, <3>3, <3>4, <3>5, <4>1
      <3>7. LookupInv'
        BY <1>1, <1>2, <2>3, <3>3, <3>6 DEF LookupInv, Stands, There
      <3> QED BY <3>3, <3>4, <3>7 DEF StandingPathIsFound
    <2> QED BY <2>2, <2>3
  <1> QED BY <1>8, <1>9, <1>10

LEMMA HandleInvInit == HandleInit => HandleInv
  <1> SUFFICES ASSUME HandleInit PROVE HandleInv
    OBVIOUS
  <1>1. DOMAIN fabric = {} /\ changes = 0 /\ kept = <<>> /\ met = {} /\ stood = {}
    BY DEF HandleInit, NoHandle
  <1>2. search.pc = "idle" /\ search.got = <<>> /\ search \in Lookups
    <2>1. <<>> \in Seq(Ctls) /\ <<>> \in Seq(Handles)
      OBVIOUS
    <2> QED
      BY <2>1 DEF HandleInit, NoSearch, Lookups, NqnsAsked, AddressesAsked
  <1>3. Found = {}
    BY <1>2 DEF Found, ToSet
  <1>4. HandleTypeOK
    BY <1>1, <1>2 DEF HandleTypeOK, FabricTypeOK
  <1>5. FabricInv /\ HandlesInv
    BY <1>1, <1>3 DEF FabricInv, HandlesInv, NoHandle
  <1>6. LookupInv /\ FoundWasThere /\ StandingPathIsFound
    BY <1>2, <1>3 DEF LookupInv, FoundWasThere, StandingPathIsFound
  <1> QED BY <1>4, <1>5, <1>6 DEF HandleInv

LEMMA HandleInvStep == HandleInv /\ [HandleNext]_handleVars => HandleInv'
  <1> SUFFICES ASSUME HandleInv, [HandleNext]_handleVars PROVE HandleInv'
    OBVIOUS
  <1>1. ASSUME NEW p \in Paths,
               Search("get", p.nqn, p.address) \/ Search("try_from_nqn", p.nqn, "")
        PROVE  HandleInv'
    <2>1. p.address \in AddressesAsked /\ "" \in AddressesAsked
      BY DEF AddressesAsked
    <2> QED BY <1>1, <2>1, SearchKeeps
  <1>2. CASE UNCHANGED handleVars
    BY <1>2
    DEF handleVars, HandleInv, HandleTypeOK, FabricTypeOK, FabricInv,
        HandlesInv, TrueHandle, TrueOf, LookupInv, HalfRead, ReadOne, Stands,
        There, Found, Asked, FoundWasThere, StandingPathIsFound
  <1> QED
    BY <1>1, <1>2, OthersKeep, ReadNqnKeeps, ReadRestKeeps, SearchEndsKeeps,
       KeepKeeps, SyncKeeps, HandleOpsKeep
    DEF HandleNext

(* What get and try_from_nqn return was there during the call, what stood    *)
(* during the call is returned, and a Subsystem acts on the controller it    *)
(* was read from (NvmeSubsystems, Subsystem::get, try_from_nqn, sync, reset, *)
(* disconnect).                                                              *)
THEOREM SubsystemsTrue == HandleSpec => []SubsystemsAreTrue
  <1>1. ASSUME HandleInv, kept # NoHandle, kept[1].nqnOf = kept[1].restOf,
               NEW c \in Controllers(fabric), c.id = kept[1].restOf
        PROVE  /\ fabric[kept[1].number] = c
               /\ c.path.nqn = kept[1].nqn /\ c.path.address = kept[1].address
    <2>1. PICK i \in DOMAIN fabric : c = fabric[i]
      BY DEF Controllers, Range
    <2> QED
      BY <1>1, <2>1 DEF HandleInv, HandlesInv, TrueHandle, TrueOf
  <1>2. HandleInv => SubsystemsAreTrue
    BY <1>1 DEF HandleInv, SubsystemsAreTrue, HandleIsOwn
  <1> QED BY <1>2, HandleInvInit, HandleInvStep, PTL DEF HandleSpec
=============================================================================
