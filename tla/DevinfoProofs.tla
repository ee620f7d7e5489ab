---------------------------- MODULE DevinfoProofs ----------------------------
(***************************************************************************)
(* The lookups of DiskLinks answer truly, and the reads of MountTable are  *)
(* what they are said to be, for any links, lines and devices, and however *)
(* often udev, mount and unmount act while they run.                       *)
(***************************************************************************)
EXTENDS MountTable, TLAPS

-----------------------------------------------------------------------------
(* Lookups.                                                                  *)

CallFields == DOMAIN Idle
Found == Devices \cup Names \cup {None}

(* The call is for a link of the kind that it is at.                         *)
Wanted(h) == /\ h[1] = Kind
             /\ h[IF call.op = "from_id" THEN 2 ELSE 3] = call.key

LinksTypeOK ==
  /\ DOMAIN links \subseteq LinkDirs \X Names
  /\ \A p \in DOMAIN links : links[p] \in Devices

CallTypeOK ==
  /\ DOMAIN call = CallFields
  /\ call.pc \in {"read", "look", "done"}
  /\ call.list \subseteq Names
  /\ call.tried \in Nat /\ call.skips \in Nat
  /\ call.got \in Seq(Found)
  /\ Len(call.kinds) \in Nat
  /\ call.pc # "done" => Len(call.got) < Len(call.kinds)

(* What the history says of the links, while a lookup is under way.          *)
HistoryInv ==
  call.pc # "done" => held \subseteq AsSet(links) /\ AsSet(links) \subseteq seen

(* Each time that a listing was tried and a link that stands was not found,  *)
(* the kernel had left it out.                                               *)
MissedInv ==
  call.pc # "done" =>
    \A h \in held : Wanted(h) =>
      /\ call.skips >= call.tried
      /\ call.pc = "look" => h[2] \in call.list \/ call.skips > call.tried

LookupInv == LinksTypeOK /\ CallTypeOK /\ HistoryInv /\ MissedInv /\ LookupsAnswerTruly

-----------------------------------------------------------------------------
LEMMA CallSet ==
  /\ CallFields = {"pc", "op", "key", "kinds", "tried", "list", "skips", "got"}
  /\ Idle.pc = "done" /\ Idle.op = "none" /\ Idle.kinds = <<>> /\ Idle.tried = 0
  /\ Idle.list = {} /\ Idle.skips = 0 /\ Idle.got = <<>>
  BY DEF CallFields, Idle

LEMMA LinkIs ==
  ASSUME LinksTypeOK
  PROVE  \A h : h \in AsSet(links) <=>
           \E d \in LinkDirs, n \in Names :
             <<d, n>> \in DOMAIN links /\ h = <<d, n, links[<<d, n>>]>>
  <1> USE DEF LinksTypeOK, AsSet
  <1>1. ASSUME NEW h, h \in AsSet(links)
        PROVE  \E d \in LinkDirs, n \in Names :
                 <<d, n>> \in DOMAIN links /\ h = <<d, n, links[<<d, n>>]>>
    <2>1. PICK p \in DOMAIN links : h = <<p[1], p[2], links[p]>>
      BY <1>1
    <2>2. p[1] \in LinkDirs /\ p[2] \in Names /\ p = <<p[1], p[2]>>
      BY <2>1
    <2> QED BY <2>1, <2>2
  <1>2. ASSUME NEW d \in LinkDirs, NEW n \in Names, <<d, n>> \in DOMAIN links
        PROVE  <<d, n, links[<<d, n>>]>> \in AsSet(links)
    BY <1>2
  <1> QED BY <1>1, <1>2

LEMMA HereIs ==
  ASSUME LinksTypeOK, NEW dir
  PROVE  /\ Here(dir) \subseteq Names
         /\ \A n \in Names : <<dir, n>> \in DOMAIN links => n \in Here(dir)
  BY DEF LinksTypeOK, Here

(* A call as it begins.                                                      *)
Proper(c) ==
  /\ DOMAIN c = CallFields
  /\ c.list = {} /\ c.tried = 0 /\ c.skips = 0
  /\ c.got \in Seq(Found) /\ Len(c.kinds) \in Nat
  /\ \/ c.pc = "read" /\ c.got = <<>> /\ Len(c.kinds) > 0
     \/ c.pc = "done" /\ Len(c.kinds) = 0

LEMMA Begins ==
  ASSUME LookupInv, NEW c, Proper(c), Started(c), UNCHANGED links
  PROVE  LookupInv'
  <1>1. /\ call' = c /\ links' = links
        /\ held' = AsSet(links) /\ seen' = AsSet(links)
    BY DEF Started
  <1>2. LinksTypeOK' /\ HistoryInv'
    BY <1>1 DEF LookupInv, LinksTypeOK, HistoryInv, AsSet
  <1>3. CallTypeOK' /\ MissedInv'
    BY <1>1 DEF Proper, CallTypeOK, MissedInv
  <1>4. Answers' = {}
    BY <1>1 DEF Proper, Answers
  <1> QED BY <1>2, <1>3, <1>4
          DEF LookupInv, LookupsAnswerTruly, FoundIsTrue, StandingIsFound

(* What a lookup has answered stays true: links come into seen and go from   *)
(* held.                                                                     *)
LEMMA AnswersStay ==
  ASSUME LookupsAnswerTruly,
         call'.got = call.got, call'.kinds = call.kinds, call'.op = call.op,
         call'.key = call.key, call.skips \in Nat, call'.skips \in Nat,
         call'.skips >= call.skips, seen \subseteq seen', held' \subseteq held
  PROVE  LookupsAnswerTruly'
  <1>1. Answers' = Answers /\ \A i \in Answers : Said(i)' = Said(i)
    BY DEF Answers, Said
  <1>2. FoundIsTrue'
    BY <1>1 DEF LookupsAnswerTruly, FoundIsTrue
  <1>3. StandingIsFound'
    <2> DEFINE at == IF call.op = "from_id" THEN 2 ELSE 3
    <2>1. ASSUME NEW i \in Answers', call'.got[i] = None, call'.skips <= Attempts,
                 NEW h \in held', h[1] = call'.kinds[i], h[at] = call'.key
          PROVE  FALSE
      <3>1. /\ i \in Answers /\ call.got[i] = None /\ h \in held
            /\ h[1] = call.kinds[i] /\ h[at] = call.key
        BY <1>1, <2>1
      <3>2. call.skips <= Attempts
        BY <2>1, LinksAssumption DEF LinksAssumption
      <3> QED BY <3>1, <3>2 DEF LookupsAnswerTruly, StandingIsFound
    <2>2. (IF call'.op = "from_id" THEN 2 ELSE 3) = at
      OBVIOUS
    <2> HIDE DEF at
    <2> QED BY <2>1, <2>2 DEF StandingIsFound
  <1> QED BY <1>2, <1>3 DEF LookupsAnswerTruly

LEMMA ReadDirStep ==
  ASSUME LookupInv, ReadDir
  PROVE  LookupInv'
  <1>1. PICK missed \in SUBSET Here(Kind) :
          /\ missed # {} => call.skips < MaxSkips
          /\ call' = [call EXCEPT !.pc = "look", !.list = Here(Kind) \ missed,
                        !.skips = IF missed = {} THEN call.skips ELSE call.skips + 1]
    BY DEF ReadDir, DiskByPath
  <1>2. call.pc = "read" /\ UNCHANGED <<links, held, seen>>
    BY DEF ReadDir
  <1>3. /\ DOMAIN call' = CallFields
        /\ call'.pc = "look" /\ call'.list = Here(Kind) \ missed
        /\ call'.skips = IF missed = {} THEN call.skips ELSE call.skips + 1
        /\ call'.op = call.op /\ call'.key = call.key /\ call'.kinds = call.kinds
        /\ call'.tried = call.tried /\ call'.got = call.got
    BY <1>1, CallSet DEF LookupInv, CallTypeOK
  <1>4. LinksTypeOK' /\ CallTypeOK' /\ HistoryInv'
    BY <1>2, <1>3, HereIs DEF LookupInv, LinksTypeOK, CallTypeOK, HistoryInv, AsSet
  <1>5. MissedInv'
    <2> SUFFICES ASSUME NEW h \in held, Wanted(h)'
                 PROVE  /\ call'.skips >= call'.tried
                        /\ h[2] \in call'.list \/ call'.skips > call'.tried
      BY <1>2, <1>3 DEF MissedInv
    <2>1. Kind' = Kind
      BY <1>3 DEF Kind
    <2>2. Wanted(h)
      BY <1>3, <2>1 DEF Wanted
    <2>3. h[1] = Kind /\ h[2] \in Here(Kind)
      <3>1. PICK d \in LinkDirs, n \in Names :
              <<d, n>> \in DOMAIN links /\ h = <<d, n, links[<<d, n>>]>>
        BY <1>2, LinkIs DEF LookupInv, HistoryInv
      <3> QED BY <2>2, <3>1, HereIs DEF Wanted, LookupInv
    <2>4. call.skips >= call.tried /\ call.skips \in Nat /\ call.tried \in Nat
      BY <1>2, <2>2 DEF LookupInv, MissedInv, CallTypeOK
    <2> QED BY <1>1, <1>3, <2>3, <2>4
  <1>6. LookupsAnswerTruly'
    <2>1. call'.skips \in Nat /\ call'.skips >= call.skips
      BY <1>3 DEF LookupInv, CallTypeOK
    <2> QED BY <1>2, <1>3, <2>1, AnswersStay DEF LookupInv, CallTypeOK
  <1> QED BY <1>4, <1>5, <1>6 DEF LookupInv

(* An answer, if it is true, leaves the others true.                         *)
LEMMA AnswerStep ==
  ASSUME LookupInv, call.pc = "look", NEW a \in Found, Answer(a),
         UNCHANGED <<links, held, seen>>,
         a # None => (IF call.op = "from_id" THEN <<Kind, call.key, a>>
                                             ELSE <<Kind, a, call.key>>) \in seen,
         a = None => \A h \in held : Wanted(h) => call.skips > Attempts
  PROVE  LookupInv'
  <1>1. /\ DOMAIN call' = CallFields /\ call'.got = Append(call.got, a)
        /\ call'.tried = 0 /\ call'.list = {} /\ call'.skips = call.skips
        /\ call'.op = call.op /\ call'.key = call.key /\ call'.kinds = call.kinds
        /\ call'.pc = IF Len(call.got) + 1 = Len(call.kinds) THEN "done" ELSE "read"
    BY CallSet DEF Answer, LookupInv, CallTypeOK
  <1>0. PICK n \in Nat : n = Len(call.got)
    BY DEF LookupInv, CallTypeOK
  <1>2. /\ call'.got \in Seq(Found) /\ Len(call'.got) = n + 1 /\ n \in Nat
        /\ call'.got[n + 1] = a /\ \A i \in 1..n : call'.got[i] = call.got[i]
        /\ n < Len(call.kinds) /\ Len(call.kinds) \in Nat
    BY <1>0, <1>1 DEF LookupInv, CallTypeOK
  <1>3. LinksTypeOK' /\ CallTypeOK' /\ HistoryInv' /\ MissedInv'
    <2>1. LinksTypeOK' /\ HistoryInv'
      BY DEF LookupInv, LinksTypeOK, HistoryInv, AsSet
    <2>2. CallTypeOK'
      BY <1>0, <1>1, <1>2 DEF LookupInv, CallTypeOK
    <2>3. MissedInv'
      BY <1>1 DEF MissedInv, LookupInv, CallTypeOK
    <2> QED BY <2>1, <2>2, <2>3
  <1>4. Answers = 1..n /\ Answers' = 1..(n + 1)
    BY <1>0, <1>1, <1>2 DEF Answers
  <1>5. /\ \A i \in 1..n : Said(i)' = Said(i)
        /\ Kind = call.kinds[n + 1] /\ call'.kinds[n + 1] = Kind
    BY <1>0, <1>1, <1>2 DEF Said, Kind
  <1>6. Said(n + 1)' = IF call.op = "from_id" THEN <<Kind, call.key, a>>
                                              ELSE <<Kind, a, call.key>>
    <2>1. CASE call.op = "from_id"
      BY <1>1, <1>2, <1>5, <2>1 DEF Said
    <2>2. CASE call.op # "from_id"
      BY <1>1, <1>2, <1>5, <2>2 DEF Said
    <2> QED BY <2>1, <2>2
  <1>7. FoundIsTrue'
    <2> SUFFICES ASSUME NEW i \in 1..(n + 1), call'.got[i] # None
                 PROVE  Said(i)' \in seen
      BY <1>4 DEF FoundIsTrue
    <2>1. CASE i = n + 1
      <3>1. Said(i)' = Said(n + 1)' /\ a # None
        BY <1>2, <2>1
      <3> QED BY <1>6, <3>1
    <2>2. CASE i \in 1..n
      BY <1>2, <1>4, <1>5, <2>2 DEF LookupInv, LookupsAnswerTruly, FoundIsTrue
    <2> QED BY <1>2, <2>1, <2>2
  <1>8. StandingIsFound'
    <2> DEFINE at == IF call.op = "from_id" THEN 2 ELSE 3
    <2>1. ASSUME NEW i \in Answers', call'.got[i] = None, call'.skips <= Attempts,
                 NEW h \in held', h[1] = call'.kinds[i], h[at] = call'.key
          PROVE  FALSE
      <3>1. /\ h \in held /\ h[1] = call.kinds[i] /\ h[at] = call.key
            /\ call.skips <= Attempts /\ i \in 1..(n + 1)
        BY <1>1, <1>4, <2>1
      <3>2. CASE i = n + 1
        <4>1. Wanted(h) /\ a = None
          BY <1>2, <1>5, <2>1, <3>1, <3>2 DEF Wanted
        <4> QED BY <3>1, <4>1, LinksAssumption DEF LookupInv, CallTypeOK, LinksAssumption
      <3>3. CASE i \in 1..n
        BY <1>2, <1>4, <2>1, <3>1, <3>3 DEF LookupInv, LookupsAnswerTruly, StandingIsFound
      <3> QED BY <1>2, <3>1, <3>2, <3>3
    <2>2. (IF call'.op = "from_id" THEN 2 ELSE 3) = at
      BY <1>1
    <2> HIDE DEF at
    <2> QED BY <2>1, <2>2 DEF StandingIsFound
  <1> QED BY <1>3, <1>7, <1>8 DEF LookupInv, LookupsAnswerTruly

LEMMA LookStep ==
  ASSUME LookupInv, Look
  PROVE  LookupInv'
  <1>1. call.pc = "look" /\ UNCHANGED <<links, held, seen>>
    BY DEF Look
  <1>2. PICK n \in call.list :
          IF Hits(n)
          THEN Answer(IF call.op = "from_id" THEN links[<<Kind, n>>] ELSE n)
          ELSE call' = [call EXCEPT !.list = @ \ {n}]
    BY DEF Look, DiskByPath
  <1>3. n \in Names /\ n # None /\ None \notin Devices
    BY LinksAssumption DEF LookupInv, CallTypeOK, LinksAssumption
  <1>4. CASE Hits(n)
    <2> DEFINE a == IF call.op = "from_id" THEN links[<<Kind, n>>] ELSE n
    <2>1. /\ <<Kind, n>> \in DOMAIN links
          /\ IF call.op = "from_id" THEN n = call.key ELSE links[<<Kind, n>>] = call.key
      BY <1>4 DEF Hits, DiskByPath
    <2>2. <<Kind, n, links[<<Kind, n>>]>> \in seen
      <3>1. Kind \in LinkDirs /\ n \in Names
        BY <2>1 DEF LookupInv, LinksTypeOK
      <3> QED BY <1>1, <2>1, <3>1, LinkIs DEF LookupInv, HistoryInv
    <2>3. a \in Found /\ a # None
      BY <1>3, <2>1 DEF Found, LookupInv, LinksTypeOK
    <2>4. (IF call.op = "from_id" THEN <<Kind, call.key, a>>
                                  ELSE <<Kind, a, call.key>>) \in seen
      BY <2>1, <2>2
    <2>5. Answer(a)
      BY <1>2, <1>4
    <2> HIDE DEF a
    <2> QED BY <1>1, <2>3, <2>4, <2>5, AnswerStep
  <1>5. CASE ~Hits(n)
    <2>1. /\ DOMAIN call' = CallFields /\ call'.list = call.list \ {n}
          /\ call'.op = call.op /\ call'.key = call.key /\ call'.kinds = call.kinds
          /\ call'.tried = call.tried /\ call'.got = call.got
          /\ call'.skips = call.skips /\ call'.pc = call.pc
      BY <1>2, <1>5, CallSet DEF LookupInv, CallTypeOK
    <2>2. LinksTypeOK' /\ CallTypeOK' /\ HistoryInv'
      BY <1>1, <2>1 DEF LookupInv, LinksTypeOK, CallTypeOK, HistoryInv, AsSet
    <2>3. MissedInv'
      <3> SUFFICES ASSUME NEW h \in held, Wanted(h)'
                   PROVE  /\ call.skips >= call.tried
                          /\ h[2] \in call.list \ {n} \/ call.skips > call.tried
        BY <1>1, <2>1 DEF MissedInv
      <3>1. Wanted(h)
        BY <2>1 DEF Wanted, Kind
      <3>2. h[2] # n
        <4>1. PICK d \in LinkDirs, m \in Names :
                <<d, m>> \in DOMAIN links /\ h = <<d, m, links[<<d, m>>]>>
          BY <1>1, LinkIs DEF LookupInv, HistoryInv
        <4> QED BY <1>5, <3>1, <4>1 DEF Wanted, Hits, DiskByPath
      <3> QED BY <1>1, <3>1, <3>2 DEF LookupInv, MissedInv
    <2>4. LookupsAnswerTruly'
      BY <1>1, <2>1, AnswersStay DEF LookupInv, CallTypeOK
    <2> QED BY <2>2, <2>3, <2>4 DEF LookupInv
  <1> QED BY <1>4, <1>5

LEMMA NothingFoundStep ==
  ASSUME LookupInv, NothingFound
  PROVE  LookupInv'
  <1>1. /\ call.pc = "look" /\ call.list = {}
        /\ UNCHANGED <<links, held, seen>>
    BY DEF NothingFound
  <1>2. \A h \in held : Wanted(h) => call.skips > call.tried
    BY <1>1 DEF LookupInv, MissedInv
  <1>3. CASE Again
    <2>1. /\ DOMAIN call' = CallFields /\ call'.list = call.list
          /\ call'.op = call.op /\ call'.key = call.key /\ call'.kinds = call.kinds
          /\ call'.tried = call.tried + 1 /\ call'.got = call.got
          /\ call'.skips = call.skips /\ call'.pc = "read"
      BY <1>3, CallSet DEF NothingFound, LookupInv, CallTypeOK
    <2>2. LinksTypeOK' /\ CallTypeOK' /\ HistoryInv'
      BY <1>1, <2>1 DEF LookupInv, LinksTypeOK, CallTypeOK, HistoryInv, AsSet
    <2>3. MissedInv'
      <3>1. \A h : Wanted(h)' <=> Wanted(h)
        BY <2>1 DEF Wanted, Kind
      <3> QED BY <1>1, <1>2, <2>1, <3>1 DEF MissedInv, LookupInv, CallTypeOK
    <2>4. LookupsAnswerTruly'
      BY <1>1, <2>1, AnswersStay DEF LookupInv, CallTypeOK
    <2> QED BY <2>2, <2>3, <2>4 DEF LookupInv
  <1>4. CASE ~Again
    <2>1. Answer(None) /\ call.tried = Attempts
      BY <1>4 DEF NothingFound, Again
    <2>2. None \in Found
      BY DEF Found
    <2> QED BY <1>1, <1>2, <2>1, <2>2, AnswerStep
  <1> QED BY <1>3, <1>4

LEMMA UdevStep ==
  ASSUME LookupInv, Udev
  PROVE  LookupInv'
  <1>1. /\ call' = call
        /\ held' = held \cap AsSet(links') /\ seen' = seen \cup AsSet(links')
    BY DEF Udev
  <1>2. LinksTypeOK'
    <2>1. PICK at \in LinkDirs \X Names :
            \/ \E d \in Devices :
                 links' = [p \in DOMAIN links \cup {at} |-> IF p = at THEN d ELSE links[p]]
            \/ links' = [p \in DOMAIN links \ {at} |-> links[p]]
      BY DEF Udev
    <2> QED BY <2>1 DEF LookupInv, LinksTypeOK
  <1>3. CallTypeOK' /\ HistoryInv'
    <2>1. AsSet(links)' = AsSet(links')
      BY DEF AsSet
    <2> QED BY <1>1, <2>1 DEF LookupInv, CallTypeOK, HistoryInv
  <1>4. MissedInv'
    BY <1>1 DEF LookupInv, MissedInv, Wanted, Kind
  <1>5. LookupsAnswerTruly'
    BY <1>1, AnswersStay DEF LookupInv, CallTypeOK
  <1> QED BY <1>2, <1>3, <1>4, <1>5 DEF LookupInv

(* The calls as they begin.                                                  *)
LEMMA RelativeIsProper ==
  ASSUME NEW pid, pid.abs = FALSE
  PROVE  Proper(DevicePathCall(pid))
  <1> DEFINE c == DevicePathCall(pid)
  <1>1. c = [Idle EXCEPT !.op = "from_id", !.pc = "read", !.key = pid.id,
                         !.kinds = <<pid.variant>>]
    BY DEF DevicePathCall
  <1>2. /\ DOMAIN c = CallFields /\ c.pc = "read" /\ c.kinds = <<pid.variant>>
        /\ c.list = {} /\ c.tried = 0 /\ c.skips = 0 /\ c.got = <<>>
    BY <1>1 DEF Idle, CallFields
  <1>3. Len(c.kinds) = 1
    BY <1>2
  <1> HIDE DEF c
  <1> QED BY <1>2, <1>3 DEF Proper, c

LEMMA AbsoluteIsProper ==
  ASSUME NEW d \in Devices
  PROVE  Proper(DevicePathCall(NewPath(d)))
  <1> DEFINE c == DevicePathCall(NewPath(d))
  <1>1. c = [Idle EXCEPT !.op = "from_id", !.got = <<d>>]
    BY DEF DevicePathCall, NewPath
  <1>2. /\ DOMAIN c = CallFields /\ c.pc = "done" /\ c.kinds = <<>>
        /\ c.list = {} /\ c.tried = 0 /\ c.skips = 0 /\ c.got = <<d>>
    BY <1>1 DEF Idle, CallFields
  <1>3. <<d>> \in Seq(Found) /\ Len(<<>>) = 0
    BY DEF Found
  <1> HIDE DEF c
  <1> QED BY <1>2, <1>3 DEF Proper, c

LEMMA SourceBegins ==
  ASSUME LookupInv, NEW d, NEW kinds, Len(kinds) \in Nat \ {0}, GetSource(d, kinds),
         UNCHANGED links
  PROVE  LookupInv'
  <1> DEFINE c == [Idle EXCEPT !.op = "find_id", !.pc = "read", !.key = d,
                               !.kinds = kinds]
  <1>1. /\ DOMAIN c = CallFields /\ c.pc = "read" /\ c.kinds = kinds
        /\ c.list = {} /\ c.tried = 0 /\ c.skips = 0 /\ c.got = <<>>
    BY DEF Idle, CallFields
  <1>2. Started(c)
    BY DEF GetSource
  <1> HIDE DEF c
  <1>3. Proper(c)
    BY <1>1 DEF Proper
  <1> QED BY <1>2, <1>3, Begins

LEMMA FetchBegins ==
  ASSUME LookupInv, NEW dir, NEW name, FetchFromDiskByPath(dir, name), UNCHANGED links
  PROVE  LookupInv'
  <1> DEFINE pid == FromDiskByPath(dir, name)
  <1>1. Started(DevicePathCall(pid)) /\ pid # NoID
    BY DEF FetchFromDiskByPath, GetDevicePath
  <1>2. pid.abs = FALSE
    BY <1>1 DEF FromDiskByPath, ID
  <1> HIDE DEF pid
  <1> QED BY <1>1, <1>2, RelativeIsProper, Begins

LEMMA LookupStep ==
  ASSUME LookupInv, Lookup
  PROVE  LookupInv'
  <1>0. UNCHANGED links
    BY DEF Lookup
  <1>1. ASSUME NEW p, NEW n, p \in DOMAIN Prefix, GetDevicePath(FromStr(p, n))
        PROVE  LookupInv'
    <2>1. FromStr(p, n).abs = FALSE
      BY <1>1 DEF FromStr, ID
    <2> QED BY <1>0, <1>1, <2>1, RelativeIsProper, Begins DEF GetDevicePath
  <1>2. ASSUME NEW n, GetDevicePath(FromStr("/", n))
        PROVE  LookupInv'
    <2>1. FromStr("/", n).abs = FALSE
      BY DEF FromStr, ID, NoID
    <2> QED BY <1>0, <1>2, <2>1, RelativeIsProper, Begins DEF GetDevicePath
  <1>3. ASSUME NEW d \in Devices, GetDevicePath(NewPath(d))
        PROVE  LookupInv'
    BY <1>0, <1>3, AbsoluteIsProper, Begins DEF GetDevicePath
  <1>4. ASSUME NEW d \in Devices, NEW i \in 1..Len(Kinds), GetSource(d, <<Kinds[i]>>)
        PROVE  LookupInv'
    <2>1. Len(<<Kinds[i]>>) = 1
      OBVIOUS
    <2> QED BY <1>0, <1>4, <2>1, SourceBegins
  <1>5. ASSUME NEW d \in Devices, GetSource(d, Kinds)
        PROVE  LookupInv'
    <2>1. Len(Kinds) = 6
      BY DEF Kinds
    <2> QED BY <1>0, <1>5, <2>1, SourceBegins
  <1> QED BY <1>0, <1>1, <1>2, <1>3, <1>4, <1>5, FetchBegins DEF Lookup

LEMMA IdleStep ==
  ASSUME LookupInv, UNCHANGED links, call' = Idle
  PROVE  LookupInv'
  <1>1. LinksTypeOK'
    BY DEF LookupInv, LinksTypeOK
  <1>2. CallTypeOK' /\ HistoryInv' /\ MissedInv'
    <2>1. <<>> \in Seq(Found) /\ Len(<<>>) = 0 /\ {} \subseteq Names
      OBVIOUS
    <2>2. /\ DOMAIN call' = CallFields /\ call'.pc = "done" /\ call'.list = {}
          /\ call'.tried = 0 /\ call'.skips = 0 /\ call'.got = <<>> /\ call'.kinds = <<>>
      BY CallSet DEF CallFields
    <2> QED BY <2>1, <2>2 DEF CallTypeOK, HistoryInv, MissedInv
  <1>3. Answers' = {}
    BY CallSet DEF Answers
  <1> QED BY <1>1, <1>2, <1>3
          DEF LookupInv, LookupsAnswerTruly, FoundIsTrue, StandingIsFound

LEMMA LookupsStay ==
  ASSUME LookupInv, UNCHANGED <<links, call, held, seen>>
  PROVE  LookupInv'
  <1>1. LinksTypeOK' /\ CallTypeOK' /\ HistoryInv'
    BY DEF LookupInv, LinksTypeOK, CallTypeOK, HistoryInv, AsSet
  <1>2. MissedInv'
    BY DEF LookupInv, MissedInv, Wanted, Kind
  <1>3. LookupsAnswerTruly'
    BY AnswersStay DEF LookupInv, CallTypeOK
  <1> QED BY <1>1, <1>2, <1>3 DEF LookupInv

LEMMA LookupInvInit == LinkInit => LookupInv
  <1> SUFFICES ASSUME LinkInit PROVE LookupInv
    OBVIOUS
  <1>1. LinksTypeOK
    BY DEF LinkInit, LinksTypeOK
  <1>2. CallTypeOK /\ HistoryInv /\ MissedInv
    <2>1. <<>> \in Seq(Found) /\ Len(<<>>) = 0 /\ {} \subseteq Names
      OBVIOUS
    <2>2. /\ DOMAIN call = CallFields /\ call.pc = "done" /\ call.list = {}
          /\ call.tried = 0 /\ call.skips = 0 /\ call.got = <<>> /\ call.kinds = <<>>
      BY CallSet DEF CallFields, LinkInit
    <2> QED BY <2>1, <2>2 DEF CallTypeOK, HistoryInv, MissedInv
  <1>3. Answers = {}
    BY CallSet DEF Answers, LinkInit
  <1> QED BY <1>1, <1>2, <1>3
          DEF LookupInv, LookupsAnswerTruly, FoundIsTrue, StandingIsFound

LEMMA LookupInvStep == LookupInv /\ [Next]_vars => LookupInv'
  <1> SUFFICES ASSUME LookupInv, [Next]_vars PROVE LookupInv'
    OBVIOUS
  <1>1. CASE Lookup
    BY <1>1, LookupStep
  <1>2. CASE LookupNext \/ Udev
    BY <1>2, ReadDirStep, LookStep, NothingFoundStep, UdevStep DEF LookupNext
  <1>3. CASE Return
    BY <1>3, IdleStep DEF Return
  <1>4. CASE NextLine
    <2>1. \/ UNCHANGED <<links, call, held, seen>>
          \/ /\ UNCHANGED links
             /\ \E dir, name : FetchFromDiskByPath(dir, name)
      BY <1>4 DEF NextLine, linkVars
    <2> QED BY <2>1, LookupsStay, FetchBegins
  <1>5. CASE \/ Get \/ ReadChunk \/ ReadEnds \/ NoMore \/ Resolved \/ Mount \/ Unmount
             \/ \E d \in Devices, l \in Lines : SourceMountedAt(d, l.dest)
             \/ UNCHANGED vars
    <2>1. UNCHANGED <<links, call, held, seen>>
      BY <1>5 DEF Get, Begin, ReadChunk, ReadEnds, NoMore, Resolved, Mount, Unmount,
                  Moved, SourceMountedAt, vars, linkVars
    <2> QED BY <2>1, LookupsStay
  <1> QED BY <1>1, <1>2, <1>3, <1>4, <1>5 DEF Next, ReaderNext

(* What a lookup answers was so at some time while it ran, and a link that   *)
(* stood all the while is found unless the kernel left it out more often     *)
(* than attempt tries again (from_id_, find_id_, attempt).                   *)
THEOREM LookupsTrue == Spec => []LookupsAnswerTruly
  <1>1. Spec => []LookupInv
    <2>1. Init => LookupInv
      BY LookupInvInit DEF Init
    <2> QED BY <2>1, LookupInvStep, PTL DEF Spec
  <1>2. LookupInv => LookupsAnswerTruly
    BY DEF LookupInv
  <1> QED BY <1>1, <1>2, PTL

-----------------------------------------------------------------------------
(* The reads of the mount table.                                             *)

RdFields == DOMAIN NoReader

TableTypeOK ==
  /\ table \in Seq(Lines)
  /\ \A i, j \in 1..Len(table) : table[i] = table[j] => i = j
  /\ old \in BOOLEAN /\ back \in BOOLEAN /\ moves \in Nat
  /\ iter \in {"unset", "safe", "plain"}

ReaderTypeOK ==
  /\ DOMAIN rd = RdFields
  /\ rd.pc \in {"read", "parse", "resolve", "done"}
  /\ rd.op \in {"none", "get", "at"} /\ rd.safe \in BOOLEAN
  /\ rd.res \in {"none", "ok", "inconsistent", "true", "false", "error"}
  /\ rd.pos \in Nat /\ rd.reads \in Nat /\ rd.k \in Nat
  /\ rd.got \in Seq(Lines) /\ rd.prev \in Seq(Lines)
  /\ rd.k <= Len(rd.got)

ControlInv ==
  /\ Reading => table \in tables /\ rd.op # "none" /\ rd.res = "none"
  /\ rd.op = "get" => (rd.safe <=> iter = "safe") /\ iter # "unset"
  /\ old /\ setting # "no" => iter # "plain"
  /\ rd.safe => rd.op = "get"
  /\ rd.pc = "parse" => rd.safe
  /\ rd.pc = "read" /\ rd.safe => rd.k = 0
  /\ rd.pc = "resolve" => rd.k < Len(rd.got) /\ rd.got[rd.k + 1].kind = "bylink"
  /\ rd.res = "ok" => rd.op = "get" /\ rd.k = Len(rd.got)
  /\ rd.res = "inconsistent" => 2 * moves > Retries

(* What was read, now or the time before, was there.                         *)
WasThere(l) == \E t \in tables : l \in ToSet(t)
SeenInv == \A l \in ToSet(rd.got) \cup ToSet(rd.prev) : WasThere(l)

(* What was read is the beginning of the table.                              *)
Clean == /\ rd.pos <= Len(table) /\ Len(rd.got) = rd.pos
         /\ \A i \in 1..rd.pos : rd.got[i] = table[i]

(* It still is, or some of it has gone.                                      *)
PrefixInv ==
  rd.safe /\ rd.pc = "read" /\ ~back =>
    Clean \/ \E x \in ToSet(rd.got) : x \notin ToSet(table)

(* The read before was of one table, or some of it was gone when it ended.   *)
PrevInv ==
  rd.safe /\ rd.pc = "read" /\ rd.reads > 0 /\ ~back =>
    \/ rd.prev \in tables
    \/ \E x \in ToSet(rd.prev) : x \notin ToSet(table) \cup ToSet(rd.got)

AgreedInv ==
  rd.safe /\ ~back /\ (rd.pc \in {"parse", "resolve"} \/ rd.res = "ok") =>
    rd.got \in tables

(* Each change spoils one read, and so two comparisons.                      *)
BusyInv ==
  rd.safe /\ rd.pc = "read" =>
    \/ 2 * moves >= rd.reads + 1
    \/ 2 * moves >= rd.reads /\ Clean
    \/ 2 * moves >= rd.reads - 1 /\ Clean /\ (rd.reads = 0 \/ rd.prev = table)

(* A kernel since 5.8 hands out every line that stands.                      *)
StandingInv ==
  ~old /\ (Reading \/ rd.res = "ok") =>
    \A l \in Stood :
      \/ l \in ToSet(rd.got)
      \/ /\ rd.pc = "read" \/ (rd.pc = "resolve" /\ ~rd.safe)
         /\ \E i \in 1..Len(table) : i > rd.pos /\ table[i] = l

(* The lines passed over: items of get, and no line of the source asked for. *)
ItemsInv ==
  \A i \in 1..rd.k : rd.got[i].kind = "mount" =>
    IF rd.op = "get" THEN <<rd.got[i].src, rd.got[i].dest>> \in rd.items
                     ELSE Reading => rd.got[i].src # rd.src

(* What source_mounted_at has read of a table that stays is its beginning.   *)
StillInv == Reading /\ rd.op = "at" /\ tables = {table} => Clean

TableInv ==
  /\ TableTypeOK /\ ReaderTypeOK /\ ControlInv /\ SeenInv /\ PrefixInv /\ PrevInv
  /\ AgreedInv /\ BusyInv /\ StandingInv /\ ItemsInv /\ StillInv /\ FirstMountAnswers

-----------------------------------------------------------------------------
(* Sequences of lines.                                                       *)

LEMMA ToSetIs ==
  ASSUME NEW s \in Seq(Lines)
  PROVE  /\ \A x : x \in ToSet(s) <=> \E i \in 1..Len(s) : s[i] = x
         /\ ToSet(s) \subseteq Lines /\ Len(s) \in Nat
         /\ \A i \in 1..Len(s) : s[i] \in Lines /\ s[i] \in ToSet(s)
  BY DEF ToSet

LEMMA SameLines ==
  ASSUME NEW s \in Seq(Lines), NEW t \in Seq(Lines), Len(s) = Len(t),
         \A i \in 1..Len(s) : s[i] = t[i]
  PROVE  s = t
  OBVIOUS

LEMMA AppendLine ==
  ASSUME NEW s \in Seq(Lines), NEW l \in Lines
  PROVE  /\ Append(s, l) \in Seq(Lines) /\ Len(Append(s, l)) = Len(s) + 1
         /\ \A i \in 1..Len(s) : Append(s, l)[i] = s[i]
         /\ Append(s, l)[Len(s) + 1] = l /\ Len(s) \in Nat
  OBVIOUS

LEMMA ConcatLines ==
  ASSUME NEW a \in Seq(Lines), NEW b \in Seq(Lines)
  PROVE  /\ a \o b \in Seq(Lines) /\ Len(a \o b) = Len(a) + Len(b)
         /\ Len(a) \in Nat /\ Len(b) \in Nat
         /\ \A i \in 1..Len(a) : (a \o b)[i] = a[i]
         /\ \A i \in 1..Len(b) : (a \o b)[Len(a) + i] = b[i]
  OBVIOUS

LEMMA RemoveLine ==
  ASSUME NEW s \in Seq(Lines), NEW i \in 1..Len(s)
  PROVE  /\ RemoveAt(s, i) \in Seq(Lines) /\ Len(RemoveAt(s, i)) = Len(s) - 1
         /\ \A j \in 1..(Len(s) - 1) :
              RemoveAt(s, i)[j] = IF j < i THEN s[j] ELSE s[j + 1]
         /\ Len(s) \in Nat
  <1> DEFINE a == SubSeq(s, 1, i - 1)
             b == SubSeq(s, i + 1, Len(s))
  <1>1. /\ a \in Seq(Lines) /\ Len(a) = i - 1
        /\ \A j \in 1..(i - 1) : a[j] = s[j]
    OBVIOUS
  <1>2. /\ b \in Seq(Lines) /\ Len(b) = Len(s) - i
        /\ \A j \in 1..(Len(s) - i) : b[j] = s[i + j]
    OBVIOUS
  <1>3. RemoveAt(s, i) = a \o b
    BY DEF RemoveAt
  <1> HIDE DEF a, b
  <1>4. /\ a \o b \in Seq(Lines) /\ Len(a \o b) = Len(s) - 1 /\ Len(s) \in Nat
        /\ \A j \in 1..(i - 1) : (a \o b)[j] = a[j]
        /\ \A m \in 1..(Len(s) - i) : (a \o b)[(i - 1) + m] = b[m]
    <2>1. /\ a \o b \in Seq(Lines) /\ Len(a \o b) = Len(a) + Len(b)
          /\ \A j \in 1..Len(a) : (a \o b)[j] = a[j]
          /\ \A m \in 1..Len(b) : (a \o b)[Len(a) + m] = b[m]
      BY <1>1, <1>2, ConcatLines
    <2> QED BY <1>1, <1>2, <2>1, SMTT(20)
  <1>5. ASSUME NEW j \in i..(Len(s) - 1)
        PROVE  (a \o b)[j] = s[j + 1]
    <2>1. PICK m \in 1..(Len(s) - i) : m = j - (i - 1)
      BY <1>4
    <2>2. (i - 1) + m = j /\ i + m = j + 1
      BY <1>4, <2>1
    <2> QED BY <1>2, <1>4, <2>2
  <1> QED BY <1>1, <1>3, <1>4, <1>5

(* What a chunk of the table, t, behind its first p lines makes of what was  *)
(* read, g.                                                                  *)
IsChunked(g, t, p, n, h) ==
  /\ h \in Seq(Lines) /\ Len(h) = Len(g) + n
  /\ \A i \in 1..Len(g) : h[i] = g[i]
  /\ \A i \in 1..n : h[Len(g) + i] = t[p + i]

LEMMA ChunkIs ==
  ASSUME NEW g \in Seq(Lines), NEW t \in Seq(Lines), NEW p \in Nat, NEW n \in Nat,
         1 <= n, n <= Len(t) - p
  PROVE  IsChunked(g, t, p, n, g \o SubSeq(t, p + 1, p + n))
  <1> DEFINE c == SubSeq(t, p + 1, p + n)
  <1>1. /\ c \in Seq(Lines) /\ Len(c) = n
        /\ \A i \in 1..n : c[i] = t[p + i]
    OBVIOUS
  <1> HIDE DEF c
  <1>2. /\ g \o c \in Seq(Lines) /\ Len(g \o c) = Len(g) + Len(c)
        /\ \A i \in 1..Len(g) : (g \o c)[i] = g[i]
        /\ \A i \in 1..Len(c) : (g \o c)[Len(g) + i] = c[i]
    BY <1>1, ConcatLines
  <1>3. \A i \in 1..n : (g \o c)[Len(g) + i] = t[p + i]
    BY <1>1, <1>2
  <1>4. IsChunked(g, t, p, n, g \o c)
    BY <1>1, <1>2, <1>3 DEF IsChunked
  <1> QED BY <1>4 DEF c

LEMMA Chunk ==
  ASSUME NEW g \in Seq(Lines), NEW t \in Seq(Lines), NEW p \in Nat, NEW n \in Nat,
         1 <= n, n <= Len(t) - p, NEW h, IsChunked(g, t, p, n, h)
  PROVE  /\ Len(g) \in Nat /\ Len(t) \in Nat
         /\ ToSet(g) \subseteq ToSet(h) /\ ToSet(h) \subseteq ToSet(g) \cup ToSet(t)
         /\ \A i \in 1..Len(t) : i > p => i > p + n \/ t[i] \in ToSet(h)
         /\ Len(g) = p /\ (\A i \in 1..p : g[i] = t[i])
              => \A i \in 1..(p + n) : h[i] = t[i]
  <1> USE DEF IsChunked
  <1>1. Len(g) \in Nat /\ Len(t) \in Nat
    OBVIOUS
  <1>2. ASSUME NEW i \in 1..Len(h)
        PROVE  \/ i \in 1..Len(g) /\ h[i] = g[i]
               \/ \E m \in 1..n : i = Len(g) + m /\ h[i] = t[p + m]
    <2>1. CASE i <= Len(g)
      BY <1>1, <2>1
    <2>2. CASE i > Len(g)
      <3>1. PICK m \in 1..n : i = Len(g) + m
        <4>1. i - Len(g) \in 1..n /\ i = Len(g) + (i - Len(g))
          BY <1>1, <2>2
        <4> QED BY <4>1
      <3> QED BY <3>1
    <2> QED BY <1>1, <2>1, <2>2
  <1>3. ToSet(g) \subseteq ToSet(h)
    <2>1. \A i \in 1..Len(g) : i \in 1..Len(h)
      BY <1>1
    <2> QED BY <2>1, ToSetIs
  <1>4. ToSet(h) \subseteq ToSet(g) \cup ToSet(t)
    <2>1. ASSUME NEW i \in 1..Len(h)
          PROVE  h[i] \in ToSet(g) \cup ToSet(t)
      <3>1. ASSUME NEW m \in 1..n
            PROVE  t[p + m] \in ToSet(t)
        <4>1. p + m \in 1..Len(t)
          BY <1>1
        <4> QED BY <4>1, ToSetIs
      <3> QED BY <1>2, <3>1, ToSetIs
    <2> QED BY <2>1, ToSetIs
  <1>5. ASSUME NEW i \in 1..Len(t), i > p, ~(i > p + n)
        PROVE  t[i] \in ToSet(h)
    <2>1. PICK m \in 1..n : i = p + m
      <3>1. i - p \in 1..n /\ i = p + (i - p)
        BY <1>1, <1>5
      <3> QED BY <3>1
    <2>2. Len(g) + m \in 1..Len(h) /\ h[Len(g) + m] = t[i]
      BY <1>1, <2>1
    <2> QED BY <2>2, ToSetIs
  <1>6. ASSUME Len(g) = p, \A i \in 1..p : g[i] = t[i], NEW i \in 1..(p + n)
        PROVE  h[i] = t[i]
    BY <1>1, <1>2, <1>6
  <1> QED BY <1>1, <1>3, <1>4, <1>5, <1>6

LEMMA CleanRead ==
  ASSUME TableTypeOK, ReaderTypeOK, Clean, rd.pos >= Len(table)
  PROVE  rd.got = table
  BY SameLines DEF TableTypeOK, ReaderTypeOK, Clean

-----------------------------------------------------------------------------
LEMMA ReaderSet ==
  /\ RdFields = {"pc", "op", "src", "dest", "safe", "pos", "got", "prev", "reads",
                 "k", "items", "res"}
  /\ NoReader.pc = "done" /\ NoReader.op = "none" /\ NoReader.safe = FALSE
  /\ NoReader.pos = 0 /\ NoReader.got = <<>> /\ NoReader.prev = <<>>
  /\ NoReader.reads = 0 /\ NoReader.k = 0
  /\ NoReader.res = "none" /\ DOMAIN NoReader = RdFields
  <1>1. RdFields = {"pc", "op", "src", "dest", "safe", "pos", "got", "prev", "reads",
                    "k", "items", "res"}
    BY DEF RdFields, NoReader
  <1>2. DOMAIN NoReader = RdFields
    BY DEF RdFields
  <1>3. /\ NoReader.pc = "done" /\ NoReader.op = "none" /\ NoReader.safe = FALSE
        /\ NoReader.pos = 0 /\ NoReader.got = <<>> /\ NoReader.prev = <<>>
    BY DEF NoReader
  <1>4. /\ NoReader.reads = 0 /\ NoReader.k = 0
        /\ NoReader.res = "none"
    BY DEF NoReader, None
  <1> HIDE DEF NoReader
  <1> QED BY <1>1, <1>2, <1>3, <1>4

(* A reader that has read nothing.                                           *)
Fresh(r) ==
  /\ DOMAIN r = RdFields /\ r.safe \in BOOLEAN
  /\ r.pos = 0 /\ r.reads = 0 /\ r.k = 0 /\ r.got = <<>> /\ r.prev = <<>>
  /\ r.res = "none"

LEMMA FreshStep ==
  ASSUME TableInv, Fresh(rd'), UNCHANGED <<table, old, setting>>,
         moves' \in Nat, back' = FALSE, iter' \in {"unset", "safe", "plain"},
         old /\ setting # "no" => iter' # "plain",
         \/ rd'.pc = "done" /\ rd'.op = "none" /\ ~rd'.safe
         \/ /\ rd'.pc = "read" /\ tables' = {table}
            /\ \/ rd'.op = "get" /\ iter' # "unset" /\ (rd'.safe <=> iter' = "safe")
               \/ rd'.op = "at" /\ ~rd'.safe
  PROVE  TableInv'
  <1>1. TableTypeOK'
    BY DEF TableInv, TableTypeOK
  <1>2. /\ <<>> \in Seq(Lines) /\ Len(<<>>) = 0 /\ ToSet(<<>>) = {}
    BY DEF ToSet
  <1>3. ReaderTypeOK' /\ ControlInv'
    BY <1>2 DEF Fresh, ReaderTypeOK, ControlInv, Reading
  <1>4. SeenInv' /\ AgreedInv' /\ PrevInv'
    BY <1>2 DEF Fresh, SeenInv, AgreedInv, PrevInv
  <1>5. Clean'
    BY <1>2 DEF Fresh, Clean, TableInv, TableTypeOK
  <1>6. PrefixInv' /\ BusyInv' /\ StillInv'
    BY <1>5 DEF Fresh, PrefixInv, BusyInv, StillInv
  <1>7. StandingInv'
    <2> SUFFICES ASSUME Reading', NEW l \in Stood'
                 PROVE  /\ rd'.pc = "read"
                        /\ \E i \in 1..Len(table) : i > 0 /\ table[i] = l
      BY DEF StandingInv, Fresh
    <2>1. rd'.pc = "read" /\ tables' = {table}
      BY DEF Reading
    <2>2. l \in ToSet(table)
      BY <2>1 DEF Stood
    <2> QED BY <2>1, <2>2, ToSetIs DEF TableInv, TableTypeOK
  <1>8. ItemsInv' /\ FirstMountAnswers'
    BY DEF Fresh, ItemsInv, FirstMountAnswers, TrueWasMounted, FalseHasReason,
        FirstMountDecides, Answered
  <1> QED BY <1>1, <1>3, <1>4, <1>6, <1>7, <1>8 DEF TableInv

(* Steps that are not about the table: lookups and udev.                     *)
LEMMA QuietStep ==
  ASSUME TableInv, UNCHANGED tableVars, moves' \in Nat, moves' >= moves
  PROVE  TableInv'
  <1> USE DEF tableVars
  <1>1. TableTypeOK' /\ ReaderTypeOK'
    BY DEF TableInv, TableTypeOK, ReaderTypeOK
  <1>2. ControlInv'
    <2>1. rd.res = "inconsistent" => 2 * moves' > Retries
      BY TableAssumption DEF TableInv, TableTypeOK, ControlInv, TableAssumption
    <2> QED BY <2>1 DEF TableInv, ControlInv, Reading
  <1>3. SeenInv' /\ AgreedInv' /\ PrefixInv' /\ PrevInv'
    BY DEF TableInv, SeenInv, WasThere, AgreedInv, PrefixInv, PrevInv, Clean
  <1>4. BusyInv'
    BY DEF TableInv, TableTypeOK, ReaderTypeOK, BusyInv, Clean
  <1>5. StandingInv' /\ ItemsInv' /\ StillInv' /\ FirstMountAnswers'
    BY DEF TableInv, StandingInv, ItemsInv, StillInv, Clean, Reading, Stood,
           FirstMountAnswers, TrueWasMounted, FalseHasReason, FirstMountDecides,
           IsFirstMount, Answered
  <1> QED BY <1>1, <1>2, <1>3, <1>4, <1>5 DEF TableInv

-----------------------------------------------------------------------------
(* The table changes while it is read.                                       *)

LEMMA MountStep ==
  ASSUME TableInv, Mount
  PROVE  TableInv'
  <1>1. PICK l \in Lines :
          /\ l \notin ToSet(table) /\ table' = Append(table, l)
          /\ back' = (back \/ \E t \in tables : l \in ToSet(t))
    BY DEF Mount
  <1>2. /\ rd' = rd /\ Reading /\ moves' = moves + 1
        /\ tables' = tables \cup {table'} /\ UNCHANGED <<old, setting, iter>>
    BY DEF Mount, Moved
  <1>3. /\ table' \in Seq(Lines) /\ Len(table') = Len(table) + 1
        /\ \A i \in 1..Len(table) : table'[i] = table[i]
        /\ table'[Len(table) + 1] = l /\ Len(table) \in Nat
    BY <1>1, AppendLine DEF TableInv, TableTypeOK
  <1>4. ToSet(table') = ToSet(table) \cup {l}
    BY <1>3, ToSetIs, SMTT(20) DEF TableInv, TableTypeOK
  <1>5. TableTypeOK'
    <2>1. \A i \in 1..Len(table) : table[i] # l
      BY <1>1, ToSetIs DEF TableInv, TableTypeOK
    <2>2. back' \in BOOLEAN
      BY <1>1
    <2> QED BY <1>2, <1>3, <2>1, <2>2 DEF TableInv, TableTypeOK
  <1>6. ReaderTypeOK' /\ ControlInv'
    BY <1>2 DEF TableInv, TableTypeOK, ReaderTypeOK, ControlInv, Reading
  <1>7. SeenInv' /\ AgreedInv'
    BY <1>1, <1>2 DEF TableInv, SeenInv, WasThere, AgreedInv
  <1>8. Clean => Clean'
    BY <1>2, <1>3 DEF Clean, TableInv, ReaderTypeOK
  <1>9. ASSUME ~back'
        PROVE  l \notin ToSet(rd.got) \cup ToSet(rd.prev)
    BY <1>1, <1>9 DEF TableInv, SeenInv, WasThere
  <1>10. PrefixInv' /\ PrevInv'
    BY <1>1, <1>2, <1>4, <1>8, <1>9 DEF TableInv, PrefixInv, PrevInv
  <1>11. BusyInv'
    BY <1>2 DEF TableInv, TableTypeOK, ReaderTypeOK, BusyInv
  <1>12. StandingInv'
    <2>1. Stood' \subseteq Stood
      BY <1>2 DEF Stood
    <2> QED BY <1>2, <1>3, <2>1 DEF TableInv, StandingInv, Reading
  <1>13. ItemsInv' /\ FirstMountAnswers'
    BY <1>2 DEF TableInv, ItemsInv, Reading, FirstMountAnswers, ControlInv,
                TrueWasMounted, FalseHasReason, FirstMountDecides, Answered
  <1>14. StillInv'
    <2>1. table \in tables' /\ table # table'
      BY <1>2, <1>3 DEF TableInv, ControlInv
    <2> QED BY <2>1 DEF StillInv
  <1> QED BY <1>5, <1>6, <1>7, <1>10, <1>11, <1>12, <1>13, <1>14
          DEF TableInv

LEMMA UnmountStep ==
  ASSUME TableInv, Unmount
  PROVE  TableInv'
  <1>1. PICK i \in 1..Len(table) :
          /\ table' = RemoveAt(table, i) /\ back' = back
          /\ rd' = [rd EXCEPT !.pos = IF ~old /\ i <= rd.pos THEN rd.pos - 1 ELSE rd.pos]
    BY DEF Unmount
  <1>2. /\ Reading /\ moves' = moves + 1
        /\ tables' = tables \cup {table'} /\ UNCHANGED <<old, setting, iter>>
    BY DEF Unmount, Moved
  <1>3. /\ table' \in Seq(Lines) /\ Len(table') = Len(table) - 1 /\ Len(table) \in Nat
        /\ \A j \in 1..(Len(table) - 1) :
             table'[j] = IF j < i THEN table[j] ELSE table[j + 1]
    BY <1>1, RemoveLine DEF TableInv, TableTypeOK
  <1>4. ToSet(table') \subseteq ToSet(table) \ {table[i]}
    <2> SUFFICES ASSUME NEW j \in 1..Len(table')
                 PROVE  table'[j] \in ToSet(table) /\ table'[j] # table[i]
      BY <1>3, ToSetIs
    <2>1. PICK m \in 1..Len(table) : m # i /\ table'[j] = table[m]
      BY <1>3
    <2> QED BY <2>1, ToSetIs DEF TableInv, TableTypeOK
  <1>5. TableTypeOK'
    <2>1. ASSUME NEW j \in 1..Len(table'), NEW m \in 1..Len(table'), table'[j] = table'[m]
          PROVE  j = m
      <3> DEFINE up(x) == IF x < i THEN x ELSE x + 1
      <3>1. /\ up(j) \in 1..Len(table) /\ up(m) \in 1..Len(table)
            /\ table'[j] = table[up(j)] /\ table'[m] = table[up(m)]
        BY <1>3
      <3>2. up(j) = up(m)
        BY <2>1, <3>1 DEF TableInv, TableTypeOK
      <3> QED BY <3>2
    <2> QED BY <1>1, <1>2, <1>3, <2>1 DEF TableInv, TableTypeOK
  <1>6. /\ DOMAIN rd' = RdFields
        /\ rd'.pos = IF ~old /\ i <= rd.pos THEN rd.pos - 1 ELSE rd.pos
        /\ rd'.pc = rd.pc /\ rd'.op = rd.op /\ rd'.src = rd.src /\ rd'.dest = rd.dest
        /\ rd'.safe = rd.safe /\ rd'.got = rd.got /\ rd'.prev = rd.prev
        /\ rd'.reads = rd.reads /\ rd'.k = rd.k /\ rd'.items = rd.items
        /\ rd'.res = rd.res
    BY <1>1, ReaderSet DEF TableInv, ReaderTypeOK
  <1>7. ReaderTypeOK' /\ ControlInv'
    BY <1>2, <1>6 DEF TableInv, TableTypeOK, ReaderTypeOK, ControlInv, Reading
  <1>8. SeenInv' /\ AgreedInv'
    BY <1>1, <1>2, <1>6 DEF TableInv, SeenInv, WasThere, AgreedInv
  <1>9. ASSUME Clean
        PROVE  Clean' \/ table[i] \in ToSet(rd.got)
    <2>1. CASE i <= rd.pos
      BY <1>9, <2>1, ToSetIs DEF Clean, TableInv, ReaderTypeOK
    <2>2. CASE i > rd.pos
      BY <1>3, <1>6, <1>9, <2>2, SMTT(20) DEF Clean, TableInv, ReaderTypeOK
    <2> QED BY <2>1, <2>2 DEF TableInv, ReaderTypeOK
  <1>10. PrefixInv' /\ PrevInv'
    BY <1>1, <1>2, <1>4, <1>6, <1>9 DEF TableInv, PrefixInv, PrevInv
  <1>11. BusyInv'
    BY <1>2, <1>6 DEF TableInv, TableTypeOK, ReaderTypeOK, BusyInv
  <1>12. StandingInv'
    <2> SUFFICES ASSUME ~old, NEW l \in Stood'
                 PROVE  \/ l \in ToSet(rd.got)
                        \/ /\ rd.pc = "read" \/ (rd.pc = "resolve" /\ ~rd.safe)
                           /\ \E j \in 1..Len(table') : j > rd'.pos /\ table'[j] = l
      BY <1>2, <1>6 DEF StandingInv
    <2>1. l \in Stood /\ l \in ToSet(table')
      BY <1>2 DEF Stood
    <2>2. CASE l \in ToSet(rd.got)
      BY <2>2
    <2>3. ASSUME NEW m \in 1..Len(table), m > rd.pos, table[m] = l
          PROVE  \E j \in 1..Len(table') : j > rd'.pos /\ table'[j] = l
      <3>1. m # i
        BY <1>4, <2>1, <2>3
      <3>2. CASE m < i
        BY <1>3, <1>6, <2>3, <3>2 DEF TableInv, ReaderTypeOK
      <3>3. CASE m > i
        <4>1. m - 1 \in 1..Len(table') /\ table'[m - 1] = l
          BY <1>3, <2>3, <3>3
        <4>2. m - 1 > rd'.pos
          BY <1>6, <2>3, <3>3 DEF TableInv, ReaderTypeOK
        <4> QED BY <4>1, <4>2
      <3> QED BY <3>1, <3>2, <3>3
    <2> QED BY <1>2, <2>1, <2>2, <2>3 DEF TableInv, StandingInv
  <1>13. ItemsInv' /\ FirstMountAnswers'
    BY <1>2, <1>6 DEF TableInv, ItemsInv, Reading, FirstMountAnswers, ControlInv,
                TrueWasMounted, FalseHasReason, FirstMountDecides, Answered
  <1>14. StillInv'
    <2>1. table \in tables' /\ table # table'
      BY <1>2, <1>3 DEF TableInv, ControlInv
    <2> QED BY <2>1 DEF StillInv
  <1> QED BY <1>5, <1>7, <1>8, <1>10, <1>11, <1>12, <1>13, <1>14 DEF TableInv

-----------------------------------------------------------------------------
(* The steps of the reader.                                                  *)

LEMMA ReaderFrame ==
  ASSUME ReaderNext
  PROVE  UNCHANGED <<table, old, setting, iter, tables, back, moves>>
  BY DEF ReaderNext, ReadChunk, ReadEnds, NoMore, NextLine, Resolved, Env, History,
         linkVars

LEMMA ReadChunkStep ==
  ASSUME TableInv, ReadChunk
  PROVE  TableInv'
  <1>0. UNCHANGED <<table, old, setting, iter, tables, back, moves>>
    BY ReaderFrame DEF ReaderNext
  <1>1. /\ rd.pc = "read" /\ (rd.safe \/ rd.k = Len(rd.got)) /\ Reading
        /\ table \in tables /\ rd.res = "none"
    BY DEF ReadChunk, Reading, TableInv, ControlInv
  <1>2. PICK n \in 1..(Len(table) - rd.pos) :
          rd' = [rd EXCEPT !.pos = rd.pos + n,
                   !.got = rd.got \o SubSeq(table, rd.pos + 1, rd.pos + n)]
    BY DEF ReadChunk
  <1>3. rd'.got = rd.got \o SubSeq(table, rd.pos + 1, rd.pos + n)
    BY <1>2, ReaderSet DEF TableInv, ReaderTypeOK
  <1>4. /\ DOMAIN rd' = RdFields /\ rd'.pos = rd.pos + n
        /\ rd'.pc = rd.pc /\ rd'.op = rd.op /\ rd'.src = rd.src /\ rd'.dest = rd.dest
        /\ rd'.safe = rd.safe /\ rd'.prev = rd.prev /\ rd'.reads = rd.reads
        /\ rd'.k = rd.k /\ rd'.items = rd.items /\ rd'.res = rd.res
    BY <1>2, ReaderSet DEF TableInv, ReaderTypeOK
  <1>5. /\ rd.got \in Seq(Lines) /\ table \in Seq(Lines) /\ rd.pos \in Nat
        /\ n \in Nat /\ 1 <= n /\ n <= Len(table) - rd.pos /\ Len(table) \in Nat
    BY DEF TableInv, TableTypeOK, ReaderTypeOK
  <1>6. PICK g, h, t, p : g = rd.got /\ h = rd'.got /\ t = table /\ p = rd.pos
    OBVIOUS
  <1>7. /\ g \in Seq(Lines) /\ t \in Seq(Lines) /\ p \in Nat /\ n \in Nat
        /\ 1 <= n /\ n <= Len(t) - p
    BY <1>5, <1>6
  <1>8. IsChunked(g, t, p, n, h)
    <2>1. h = g \o SubSeq(t, p + 1, p + n)
      BY <1>3, <1>6
    <2> QED BY ONLY <1>7, <2>1, ChunkIs
  <1>9. /\ Len(g) \in Nat
        /\ ToSet(g) \subseteq ToSet(h) /\ ToSet(h) \subseteq ToSet(g) \cup ToSet(t)
        /\ \A i \in 1..Len(t) : i > p => i > p + n \/ t[i] \in ToSet(h)
        /\ Len(g) = p /\ (\A i \in 1..p : g[i] = t[i])
             => \A i \in 1..(p + n) : h[i] = t[i]
    BY ONLY <1>7, <1>8, Chunk
  <1>10. TableTypeOK' /\ ReaderTypeOK'
    <2>1. rd'.k <= Len(rd'.got)
      BY <1>4, <1>5, <1>6, <1>8, <1>9 DEF TableInv, ReaderTypeOK, IsChunked
    <2>2. ReaderTypeOK'
      BY <1>4, <1>5, <1>6, <1>8, <2>1 DEF TableInv, ReaderTypeOK, IsChunked
    <2>3. TableTypeOK'
      BY <1>0 DEF TableInv, TableTypeOK
    <2> QED BY <2>2, <2>3
  <1>11. ControlInv'
    BY <1>0, <1>1, <1>4 DEF TableInv, ControlInv, Reading
  <1>12. SeenInv' /\ AgreedInv'
    BY <1>0, <1>1, <1>4, <1>6, <1>9 DEF TableInv, SeenInv, WasThere, AgreedInv
  <1>13. ASSUME Clean
         PROVE  Clean'
    <2>1. Len(h) = p + n /\ \A i \in 1..(p + n) : h[i] = t[i]
      BY <1>6, <1>8, <1>9, <1>13 DEF Clean, IsChunked
    <2> QED BY <1>0, <1>4, <1>6, <1>7, <2>1 DEF Clean
  <1>14. PrefixInv' /\ PrevInv'
    BY <1>0, <1>1, <1>4, <1>6, <1>9, <1>13 DEF TableInv, PrefixInv, PrevInv
  <1>15. BusyInv'
    BY <1>0, <1>1, <1>4, <1>13 DEF TableInv, BusyInv
  <1>16. StandingInv'
    <2> SUFFICES ASSUME ~old, NEW l \in Stood
                 PROVE  \/ l \in ToSet(rd'.got)
                        \/ \E i \in 1..Len(table) : i > rd.pos + n /\ table[i] = l
      BY <1>0, <1>1, <1>4 DEF StandingInv, Stood
    <2> QED BY <1>1, <1>6, <1>9 DEF TableInv, StandingInv
  <1>17. ItemsInv'
    <2>1. \A i \in 1..rd.k : i \in 1..Len(rd.got)
      BY <1>6, <1>9 DEF TableInv, ReaderTypeOK
    <2> QED BY <1>1, <1>4, <1>6, <1>8, <2>1, SMTT(20) DEF TableInv, ItemsInv, Reading, IsChunked
  <1>18. FirstMountAnswers'
    BY <1>1, <1>4
    DEF FirstMountAnswers, TrueWasMounted, FalseHasReason, FirstMountDecides, Answered, Reading
  <1>19. StillInv'
    BY <1>0, <1>1, <1>4, <1>13 DEF TableInv, StillInv, Reading
  <1> QED BY <1>10, <1>11, <1>12, <1>14, <1>15, <1>16, <1>17, <1>18, <1>19 DEF TableInv

LEMMA ReadEndsStep ==
  ASSUME TableInv, ReadEnds
  PROVE  TableInv'
  <1>0. UNCHANGED <<table, old, setting, iter, tables, back, moves>>
    BY ReaderFrame DEF ReaderNext
  <1>1. /\ rd.pc = "read" /\ rd.safe /\ rd.pos >= Len(table) /\ Reading
        /\ rd.op = "get" /\ rd.res = "none" /\ rd.k = 0
    BY DEF ReadEnds, AtEnd, Reading, TableInv, ControlInv
  <1>2. Clean => rd.got = table
    BY <1>1, CleanRead DEF TableInv
  <1>3. ~old => \A l \in Stood : l \in ToSet(rd.got)
    <2>1. \A i \in 1..Len(table) : ~(i > rd.pos)
      BY <1>1 DEF TableInv, TableTypeOK, ReaderTypeOK
    <2> QED BY <1>1, <2>1 DEF TableInv, StandingInv
  <1>4. CASE Agrees
    <2>1. /\ DOMAIN rd' = RdFields /\ rd'.pc = "parse"
          /\ rd'.pos = rd.pos /\ rd'.got = rd.got
          /\ rd'.op = rd.op /\ rd'.src = rd.src /\ rd'.dest = rd.dest
          /\ rd'.safe = rd.safe /\ rd'.prev = rd.prev /\ rd'.reads = rd.reads
          /\ rd'.k = rd.k /\ rd'.items = rd.items /\ rd'.res = rd.res
      BY <1>4, ReaderSet DEF ReadEnds, TableInv, ReaderTypeOK
    <2>2. TableTypeOK' /\ ReaderTypeOK' /\ ControlInv'
      BY <1>0, <1>1, <2>1
      DEF TableInv, TableTypeOK, ReaderTypeOK, ControlInv, Reading
    <2>3. SeenInv' /\ PrefixInv' /\ PrevInv' /\ BusyInv'
      BY <1>0, <2>1 DEF TableInv, SeenInv, WasThere, PrefixInv, PrevInv, BusyInv
    <2>4. AgreedInv'
      <3>1. rd.reads > 0 /\ rd.got = rd.prev
        BY <1>4 DEF Agrees
      <3>2. ~back => rd.got \in tables
        BY <1>1, <3>1 DEF TableInv, PrevInv
      <3> QED BY <1>0, <2>1, <3>2 DEF AgreedInv
    <2>5. StandingInv' /\ ItemsInv'
      BY <1>0, <1>1, <1>3, <2>1
      DEF StandingInv, Stood, ItemsInv, Reading, TableInv
    <2>6. StillInv' /\ FirstMountAnswers'
      BY <1>1, <2>1
      DEF StillInv, FirstMountAnswers, TrueWasMounted, FalseHasReason, FirstMountDecides, Answered
    <2> QED BY <2>2, <2>3, <2>4, <2>5, <2>6 DEF TableInv
  <1>5. CASE ~Agrees /\ LastRead
    <2>1. /\ DOMAIN rd' = RdFields /\ rd'.pc = "done" /\ rd'.res = "inconsistent"
          /\ rd'.pos = rd.pos /\ rd'.got = rd.got
          /\ rd'.op = rd.op /\ rd'.src = rd.src /\ rd'.dest = rd.dest
          /\ rd'.safe = rd.safe /\ rd'.prev = rd.prev /\ rd'.reads = rd.reads
          /\ rd'.k = rd.k /\ rd'.items = rd.items
      BY <1>5, ReaderSet DEF ReadEnds, TableInv, ReaderTypeOK
    <2>2. 2 * moves > Retries
      <3>1. rd.reads = Retries + 1 /\ Retries \in Nat /\ moves \in Nat
        BY <1>5, TableAssumption
        DEF LastRead, TableAssumption, TableInv, TableTypeOK
      <3>2. ~(Clean /\ (rd.reads = 0 \/ rd.prev = table))
        BY <1>2, <1>5, <3>1 DEF Agrees
      <3> QED BY <1>1, <3>1, <3>2 DEF TableInv, BusyInv
    <2>3. TableTypeOK' /\ ReaderTypeOK'
      BY <1>0, <2>1 DEF TableInv, TableTypeOK, ReaderTypeOK
    <2>4. ControlInv'
      BY <1>0, <1>1, <2>1, <2>2 DEF TableInv, ControlInv, Reading
    <2>5. SeenInv' /\ PrefixInv' /\ PrevInv' /\ BusyInv' /\ AgreedInv'
      BY <1>0, <2>1
      DEF TableInv, SeenInv, WasThere, PrefixInv, PrevInv, BusyInv, AgreedInv
    <2>6. StandingInv' /\ ItemsInv'
      BY <1>1, <2>1 DEF StandingInv, ItemsInv, Reading, TableInv, ReaderTypeOK
    <2>7. StillInv' /\ FirstMountAnswers'
      BY <1>1, <2>1
      DEF StillInv, FirstMountAnswers, TrueWasMounted, FalseHasReason, FirstMountDecides, Answered
    <2> QED BY <2>3, <2>4, <2>5, <2>6, <2>7 DEF TableInv
  <1>6. CASE ~Agrees /\ ~LastRead
    <2>1. /\ DOMAIN rd' = RdFields /\ rd'.prev = rd.got /\ rd'.got = <<>>
          /\ rd'.pos = 0 /\ rd'.reads = rd.reads + 1 /\ rd'.pc = rd.pc
          /\ rd'.op = rd.op /\ rd'.src = rd.src /\ rd'.dest = rd.dest
          /\ rd'.safe = rd.safe
          /\ rd'.k = rd.k /\ rd'.items = rd.items /\ rd'.res = rd.res
      BY <1>6, ReaderSet DEF ReadEnds, TableInv, ReaderTypeOK
    <2>2. /\ <<>> \in Seq(Lines) /\ Len(<<>>) = 0 /\ ToSet(<<>>) = {}
      BY DEF ToSet
    <2>3. TableTypeOK' /\ ReaderTypeOK' /\ ControlInv'
      BY <1>0, <1>1, <2>1, <2>2
      DEF TableInv, TableTypeOK, ReaderTypeOK, ControlInv, Reading
    <2>4. Clean'
      BY <1>0, <2>1, <2>2 DEF Clean, TableInv, TableTypeOK
    <2>5. SeenInv'
      BY <1>0, <2>1, <2>2 DEF TableInv, SeenInv, WasThere
    <2>6. PrefixInv' /\ AgreedInv'
      BY <1>0, <1>1, <2>1, <2>4 DEF TableInv, PrefixInv, AgreedInv
    <2>7. PrevInv'
      <3>1. table \in tables
        BY <1>1 DEF TableInv, ControlInv
      <3> QED BY <1>0, <1>1, <1>2, <2>1, <2>2, <3>1 DEF TableInv, PrefixInv, PrevInv
    <2>8. BusyInv'
      <3>1. ~(Clean /\ rd.reads > 0 /\ rd.prev = table)
        BY <1>2, <1>6 DEF Agrees
      <3>2. rd.reads \in Nat /\ moves \in Nat
        BY DEF TableInv, TableTypeOK, ReaderTypeOK
      <3>3. \/ 2 * moves >= rd.reads + 1
            \/ 2 * moves >= rd.reads /\ rd.got = table
        BY <1>1, <1>2, <3>1, <3>2 DEF TableInv, BusyInv
      <3> QED BY <1>0, <2>1, <2>4, <3>2, <3>3 DEF BusyInv
    <2>9. StandingInv'
      <3> SUFFICES ASSUME NEW l \in Stood
                   PROVE  \E i \in 1..Len(table) : i > 0 /\ table[i] = l
        BY <1>0, <1>1, <2>1 DEF StandingInv, Stood
      <3>1. l \in ToSet(table)
        BY <1>1 DEF Stood, TableInv, ControlInv
      <3> QED BY <3>1, ToSetIs DEF TableInv, TableTypeOK
    <2>10. ItemsInv'
      BY <1>1, <2>1 DEF ItemsInv
    <2>11. StillInv' /\ FirstMountAnswers'
      BY <1>1, <2>1
      DEF StillInv, FirstMountAnswers, TrueWasMounted, FalseHasReason, FirstMountDecides, Answered
    <2> QED BY <2>3, <2>5, <2>6, <2>7, <2>8, <2>9, <2>10, <2>11 DEF TableInv
  <1> QED BY <1>4, <1>5, <1>6

LEMMA NoMoreStep ==
  ASSUME TableInv, NoMore
  PROVE  TableInv'
  <1>0. UNCHANGED <<table, old, setting, iter, tables, back, moves>>
    BY ReaderFrame DEF ReaderNext
  <1>1. /\ rd.k = Len(rd.got) /\ Reading /\ rd.res = "none"
        /\ rd.op \in {"get", "at"}
        /\ \/ rd.pc = "parse" /\ rd.safe /\ rd.op = "get"
           \/ rd.pc = "read" /\ ~rd.safe /\ rd.pos >= Len(table)
    BY DEF NoMore, AtEnd, Reading, TableInv, ControlInv, ReaderTypeOK
  <1>2. /\ DOMAIN rd' = RdFields /\ rd'.pc = "done"
        /\ rd'.res = IF rd.op = "get" THEN "ok" ELSE "false"
        /\ rd'.pos = rd.pos /\ rd'.got = rd.got
        /\ rd'.op = rd.op /\ rd'.src = rd.src /\ rd'.dest = rd.dest
        /\ rd'.safe = rd.safe /\ rd'.prev = rd.prev /\ rd'.reads = rd.reads
        /\ rd'.k = rd.k /\ rd'.items = rd.items
    BY ReaderSet DEF NoMore, TableInv, ReaderTypeOK
  <1>3. ~old => \A l \in Stood : l \in ToSet(rd.got)
    <2>1. rd.pos >= Len(table) => \A i \in 1..Len(table) : ~(i > rd.pos)
      BY DEF TableInv, TableTypeOK, ReaderTypeOK
    <2> QED BY <1>1, <2>1 DEF TableInv, StandingInv
  <1>4. TableTypeOK' /\ ReaderTypeOK'
    BY <1>0, <1>2 DEF TableInv, TableTypeOK, ReaderTypeOK
  <1>5. ControlInv'
    BY <1>0, <1>1, <1>2 DEF TableInv, ControlInv, Reading
  <1>6. SeenInv' /\ PrefixInv' /\ PrevInv' /\ BusyInv'
    BY <1>0, <1>2 DEF TableInv, SeenInv, WasThere, PrefixInv, PrevInv, BusyInv
  <1>7. AgreedInv'
    BY <1>0, <1>1, <1>2 DEF TableInv, AgreedInv
  <1>8. StandingInv'
    BY <1>0, <1>2, <1>3 DEF StandingInv, Stood
  <1>9. ItemsInv'
    BY <1>2 DEF TableInv, ItemsInv, Reading
  <1>10. TrueWasMounted'
    BY <1>2 DEF TrueWasMounted
  <1>11. FalseHasReason'
    <2> SUFFICES ASSUME rd.op = "at", ~old, NEW l \in Stood, l.kind = "mount",
                        l.src = rd.src
                 PROVE  FALSE
      BY <1>0, <1>2 DEF FalseHasReason, Answered, Stood
    <2>1. PICK i \in 1..Len(rd.got) : rd.got[i] = l
      BY <1>3, ToSetIs DEF TableInv, ReaderTypeOK
    <2> QED BY <1>1, <2>1 DEF TableInv, ItemsInv
  <1>12. FirstMountDecides'
    <2> SUFFICES ASSUME rd.op = "at", tables = {table},
                        NEW i \in 1..Len(table), IsFirstMount(i)
                 PROVE  FALSE
      BY <1>0, <1>2 DEF FirstMountDecides, Answered, IsFirstMount
    <2>1. Clean /\ rd.pos >= Len(table)
      BY <1>1 DEF TableInv, StillInv
    <2>2. i \in 1..rd.k /\ rd.got[i] = table[i]
      BY <1>1, <2>1 DEF Clean, TableInv, TableTypeOK, ReaderTypeOK
    <2> QED BY <1>1, <2>2 DEF TableInv, ItemsInv, IsFirstMount
  <1>13. StillInv'
    BY <1>2 DEF StillInv, Reading
  <1> QED BY <1>4, <1>5, <1>6, <1>7, <1>8, <1>9, <1>10, <1>11, <1>12, <1>13
          DEF TableInv, FirstMountAnswers

(* What the caller does with the item of a line.                             *)
LEMMA TakeStep ==
  ASSUME TableInv, Reading, rd.k < Len(rd.got), rd.pc = "read" => ~rd.safe,
         UNCHANGED <<table, old, setting, iter, tables, back, moves>>,
         NEW ok \in BOOLEAN, NEW src, NEW dest, rd' = Take(ok, src, dest),
         NEW line \in Lines, line = rd.got[rd.k + 1], line.kind = "mount" => ok,
         ok => /\ line.kind \in {"mount", "bylink"} /\ dest = line.dest
               /\ line.kind = "mount" => src = line.src
  PROVE  TableInv'
  <1>1. /\ table \in tables /\ rd.res = "none" /\ rd.op \in {"get", "at"}
        /\ rd.k \in Nat /\ Len(rd.got) \in Nat /\ rd.safe \in BOOLEAN
        /\ rd.pc = "parse" => rd.safe
        /\ rd.op = "at" => ~rd.safe
    BY DEF TableInv, ControlInv, ReaderTypeOK
  <1>2. /\ DOMAIN rd' = RdFields /\ rd'.pos = rd.pos /\ rd'.got = rd.got
        /\ rd'.op = rd.op /\ rd'.src = rd.src /\ rd'.dest = rd.dest
        /\ rd'.safe = rd.safe /\ rd'.prev = rd.prev /\ rd'.reads = rd.reads
    BY ReaderSet DEF Take, TableInv, ReaderTypeOK
  <1>3. WasThere(line)
    <2>1. rd.k + 1 \in 1..Len(rd.got)
      BY <1>1
    <2> QED BY <2>1, ToSetIs DEF TableInv, SeenInv, ReaderTypeOK
  <1>4. TableTypeOK' /\ SeenInv'
    BY <1>2 DEF TableInv, TableTypeOK, SeenInv, WasThere
  <1>5. CASE rd.op = "get" \/ (ok /\ src # rd.src)
    <2>1. /\ rd'.k = rd.k + 1 /\ rd'.pc = (IF rd.safe THEN "parse" ELSE "read")
          /\ rd'.res = rd.res
      BY <1>1, <1>5, ReaderSet DEF Take, TableInv, ReaderTypeOK
    <2>2. rd'.items = IF rd.op = "get" /\ ok THEN rd.items \cup {<<src, dest>>}
                                             ELSE rd.items
      BY <1>1, <1>5, ReaderSet DEF Take, TableInv, ReaderTypeOK
    <2>3. ReaderTypeOK'
      BY <1>1, <1>2, <2>1 DEF TableInv, ReaderTypeOK
    <2>4. ControlInv'
      BY <1>1, <1>2, <2>1 DEF TableInv, ControlInv, Reading
    <2>5. PrefixInv' /\ PrevInv' /\ BusyInv'
      BY <1>2, <2>1 DEF PrefixInv, PrevInv, BusyInv
    <2>6. AgreedInv'
      BY <1>1, <1>2, <2>1 DEF TableInv, AgreedInv, Reading, ReaderTypeOK
    <2>7. StandingInv'
      <3>1. ASSUME ~old, NEW l \in Stood, l \notin ToSet(rd.got)
            PROVE  /\ ~rd.safe
                   /\ \E i \in 1..Len(table) : i > rd.pos /\ table[i] = l
        BY <3>1 DEF TableInv, StandingInv
      <3> QED BY <1>1, <1>2, <2>1, <3>1 DEF StandingInv, Stood
    <2>8. ItemsInv'
      <3> SUFFICES ASSUME NEW i \in 1..(rd.k + 1), rd.got[i].kind = "mount"
                   PROVE  IF rd.op = "get"
                          THEN <<rd.got[i].src, rd.got[i].dest>> \in rd'.items
                          ELSE rd.got[i].src # rd.src
        BY <1>2, <2>1 DEF ItemsInv
      <3>1. CASE i = rd.k + 1
        BY <1>5, <2>2, <3>1
      <3>2. CASE i \in 1..rd.k
        BY <2>2, <3>2 DEF TableInv, ItemsInv
      <3> QED BY <1>1, <3>1, <3>2
    <2>9. FirstMountAnswers'
      BY <1>1, <2>1
      DEF FirstMountAnswers, TrueWasMounted, FalseHasReason, FirstMountDecides, Answered
    <2>10. StillInv'
      BY <1>2 DEF TableInv, StillInv, Clean
    <2> QED BY <1>4, <2>3, <2>4, <2>5, <2>6, <2>7, <2>8, <2>9, <2>10 DEF TableInv
  <1>6. CASE rd.op = "at" /\ ~(ok /\ src # rd.src)
    <2>1. /\ rd'.k = rd.k /\ rd'.pc = "done" /\ rd'.items = rd.items
          /\ rd'.res = IF ok THEN MountedHere(dest) ELSE "error"
      BY <1>1, <1>6, ReaderSet DEF Take, TableInv, ReaderTypeOK
    <2>2. rd'.res \in {"true", "false", "error"}
      BY <2>1 DEF MountedHere
    <2>3. ReaderTypeOK'
      BY <1>1, <1>2, <2>1, <2>2 DEF TableInv, ReaderTypeOK
    <2>4. ControlInv'
      BY <1>1, <1>2, <2>1, <2>2 DEF TableInv, ControlInv, Reading
    <2>5. PrefixInv' /\ PrevInv' /\ BusyInv' /\ AgreedInv'
      BY <1>1, <1>2, <1>6, <2>1 DEF PrefixInv, PrevInv, BusyInv, AgreedInv
    <2>6. StandingInv' /\ ItemsInv'
      BY <1>2, <1>6, <2>1, <2>2 DEF StandingInv, ItemsInv, Reading, TableInv
    <2>7. TrueWasMounted'
      <3> SUFFICES ASSUME rd'.res = "true"
                   PROVE  /\ line.dest = rd.dest
                          /\ line.kind = "mount" => line.src = rd.src
        BY <1>2, <1>3 DEF TrueWasMounted, WasThere
      <3> QED BY <1>6, <2>1 DEF MountedHere
    <2>8. FalseHasReason'
      <3> SUFFICES ASSUME rd'.res = "false"
                   PROVE  \E t \in tables : \E o \in ToSet(t) :
                            /\ o.dest # rd.dest /\ o.kind \in {"mount", "bylink"}
                            /\ o.kind = "mount" => o.src = rd.src
        BY <1>2 DEF FalseHasReason
      <3>1. /\ line.dest # rd.dest /\ line.kind \in {"mount", "bylink"}
            /\ line.kind = "mount" => line.src = rd.src
        BY <1>6, <2>1 DEF MountedHere
      <3> QED BY <1>3, <3>1 DEF WasThere
    <2>9. FirstMountDecides'
      <3> SUFFICES ASSUME tables = {table}, NEW i \in 1..Len(table), IsFirstMount(i)
                   PROVE  rd'.res = IF table[i].dest = rd.dest THEN "true" ELSE "false"
        BY <1>2 DEF FirstMountDecides, IsFirstMount
      <3>1. Clean
        BY <1>6 DEF TableInv, StillInv
      <3>2. /\ \A j \in 1..rd.k : rd.got[j] = table[j]
            /\ line = table[rd.k + 1] /\ rd.k + 1 <= Len(table)
        <4>1. rd.k + 1 \in 1..rd.pos /\ rd.pos <= Len(table)
          BY <1>1, <3>1 DEF Clean, TableInv, ReaderTypeOK
        <4> QED BY <1>1, <3>1, <4>1 DEF Clean, TableInv, ReaderTypeOK
      <3>3. ~(i <= rd.k)
        BY <1>6, <3>2 DEF TableInv, ItemsInv, IsFirstMount
      <3>4. ~(rd.k + 1 < i)
        <4>1. ASSUME rd.k + 1 < i
              PROVE  line.kind = "mount" /\ line.src # rd.src
          BY <1>1, <3>2, <4>1 DEF IsFirstMount
        <4> QED BY <1>6, <4>1
      <3>5. i = rd.k + 1
        BY <1>1, <3>3, <3>4 DEF TableInv, TableTypeOK
      <3> QED BY <1>6, <2>1, <3>2, <3>5 DEF IsFirstMount, MountedHere
    <2>10. StillInv'
      BY <2>1 DEF StillInv, Reading
    <2> QED BY <1>4, <2>3, <2>4, <2>5, <2>6, <2>7, <2>8, <2>9, <2>10
            DEF TableInv, FirstMountAnswers
  <1> QED BY <1>1, <1>5, <1>6

LEMMA NextLineStep ==
  ASSUME TableInv, NextLine
  PROVE  TableInv'
  <1>0. UNCHANGED <<table, old, setting, iter, tables, back, moves>>
    BY ReaderFrame DEF ReaderNext
  <1>1. /\ rd.k < Len(rd.got) /\ Reading /\ rd.pc \in {"parse", "read"}
        /\ rd.pc = "read" => ~rd.safe
        /\ rd.res = "none"
    BY DEF NextLine, InHand, Reading, TableInv, ControlInv
  <1>2. PICK line \in Lines : line = rd.got[rd.k + 1]
    BY <1>1 DEF TableInv, ReaderTypeOK
  <1>3. CASE line.kind = "garbled" /\ rd' = Take(FALSE, None, None)
    BY <1>0, <1>1, <1>2, <1>3, TakeStep
  <1>4. CASE line.kind = "mount" /\ rd' = Take(TRUE, line.src, line.dest)
    BY <1>0, <1>1, <1>2, <1>4, TakeStep
  <1>5. CASE line.kind = "bylink" /\ rd' = [rd EXCEPT !.pc = "resolve"]
    <2>1. /\ DOMAIN rd' = RdFields /\ rd'.pc = "resolve" /\ rd'.res = rd.res
          /\ rd'.pos = rd.pos /\ rd'.got = rd.got
          /\ rd'.op = rd.op /\ rd'.src = rd.src /\ rd'.dest = rd.dest
          /\ rd'.safe = rd.safe /\ rd'.prev = rd.prev /\ rd'.reads = rd.reads
          /\ rd'.k = rd.k /\ rd'.items = rd.items
      BY <1>5, ReaderSet DEF TableInv, ReaderTypeOK
    <2>2. TableTypeOK' /\ ReaderTypeOK' /\ SeenInv'
      BY <1>0, <2>1 DEF TableInv, TableTypeOK, ReaderTypeOK, SeenInv, WasThere
    <2>3. ControlInv'
      BY <1>0, <1>1, <1>2, <1>5, <2>1 DEF TableInv, ControlInv, Reading
    <2>4. PrefixInv' /\ PrevInv' /\ BusyInv' /\ AgreedInv'
      BY <1>0, <1>1, <2>1 DEF TableInv, PrefixInv, PrevInv, BusyInv, AgreedInv
    <2>5. StandingInv' /\ ItemsInv'
      BY <1>0, <1>1, <2>1 DEF TableInv, StandingInv, Stood, ItemsInv, Reading
    <2>6. FirstMountAnswers'
      BY <1>1, <2>1
      DEF FirstMountAnswers, TrueWasMounted, FalseHasReason, FirstMountDecides, Answered
    <2>7. StillInv'
      BY <1>0, <1>1, <2>1 DEF TableInv, StillInv, Clean
    <2> QED BY <2>2, <2>3, <2>4, <2>5, <2>6, <2>7 DEF TableInv
  <1> QED BY <1>2, <1>3, <1>4, <1>5 DEF NextLine

LEMMA ResolvedStep ==
  ASSUME TableInv, Resolved
  PROVE  TableInv'
  <1>0. UNCHANGED <<table, old, setting, iter, tables, back, moves>>
    BY ReaderFrame DEF ReaderNext
  <1>1. /\ rd.pc = "resolve" /\ Reading
        /\ rd.k < Len(rd.got) /\ rd.got[rd.k + 1].kind = "bylink"
    BY DEF Resolved, Reading, TableInv, ControlInv
  <1>2. PICK line \in Lines : line = rd.got[rd.k + 1]
    BY <1>1 DEF TableInv, ReaderTypeOK
  <1>3. rd' = Take(call.got[1] # None, call.got[1], line.dest)
    BY <1>2 DEF Resolved
  <1> QED BY <1>0, <1>1, <1>2, <1>3, TakeStep, ZenonT(40)

-----------------------------------------------------------------------------
LEMMA TableInvInit == Init => TableInv
  <1> SUFFICES ASSUME Init PROVE TableInv
    OBVIOUS
  <1>1. /\ old \in BOOLEAN /\ iter = "unset" /\ rd = NoReader /\ tables = {}
        /\ back = FALSE /\ moves = 0
    BY DEF Init, TableInit, LinkInit
  <1>2. table \in Seq(Lines) /\ \A i, j \in 1..Len(table) : table[i] = table[j] => i = j
    <2>1. PICK n \in 0..MaxTable : table \in [1..n -> Lines]
      BY DEF Init, TableInit
    <2>2. table \in Seq(Lines) /\ DOMAIN table = 1..Len(table)
      BY <2>1
    <2> QED BY <2>2 DEF Init, TableInit, IsInjective
  <1>3. TableTypeOK
    BY <1>1, <1>2 DEF TableTypeOK
  <1>4. <<>> \in Seq(Lines) /\ Len(<<>>) = 0 /\ ToSet(<<>>) = {}
    BY DEF ToSet
  <1>5. /\ rd.pc = "done" /\ rd.op = "none" /\ rd.safe = FALSE /\ rd.pos = 0
        /\ rd.got = <<>> /\ rd.prev = <<>> /\ rd.reads = 0 /\ rd.k = 0
        /\ rd.res = "none" /\ DOMAIN rd = RdFields
    BY <1>1, ReaderSet
  <1>8. ReaderTypeOK
    <2>1. rd.got \in Seq(Lines) /\ rd.prev \in Seq(Lines) /\ rd.k <= Len(rd.got)
      BY <1>4, <1>5
    <2>2. rd.pos \in Nat /\ rd.reads \in Nat /\ rd.k \in Nat
      BY <1>5
    <2>3. rd.pc \in {"read", "parse", "resolve", "done"}
      BY <1>5
    <2>4. rd.op \in {"none", "get", "at"} /\ rd.safe \in BOOLEAN
      BY <1>5
    <2>5. rd.res \in {"none", "ok", "inconsistent", "true", "false", "error"}
      BY <1>5
    <2> QED BY <1>5, <2>1, <2>2, <2>3, <2>4, <2>5 DEF ReaderTypeOK
  <1>9. ControlInv
    BY <1>1, <1>5 DEF ControlInv, Reading
  <1>6. SeenInv /\ PrefixInv /\ PrevInv /\ AgreedInv /\ BusyInv
    BY <1>1, <1>4, ReaderSet DEF SeenInv, PrefixInv, PrevInv, AgreedInv, BusyInv
  <1>7. StandingInv /\ ItemsInv /\ StillInv /\ FirstMountAnswers
    BY <1>1, ReaderSet DEF StandingInv, ItemsInv, StillInv, Reading, FirstMountAnswers,
                           TrueWasMounted, FalseHasReason, FirstMountDecides, Answered
  <1> QED BY <1>3, <1>8, <1>9, <1>6, <1>7 DEF TableInv

LEMMA GetStep ==
  ASSUME TableInv, Get
  PROVE  TableInv'
  <1>1. /\ tables' = {table} /\ back' = FALSE
        /\ UNCHANGED <<table, old, setting, moves>>
    BY DEF Get, Begin, linkVars, Env
  <1>2. PICK unameOk \in BOOLEAN :
          iter' = CASE iter # "unset" -> iter
                    [] iter = "unset" /\ UseSafe(HasBug(unameOk)) -> "safe"
                    [] OTHER -> "plain"
    BY DEF Get
  <1>3. /\ iter' \in {"safe", "plain"}
        /\ old /\ setting # "no" => iter' # "plain"
    BY <1>2 DEF TableInv, TableTypeOK, ControlInv, UseSafe, HasBug
  <1>4. PICK r : r = [NoReader EXCEPT !.pc = "read", !.op = "get", !.safe = (iter' = "safe")]
    OBVIOUS
  <1>5. rd' = r
    BY <1>4 DEF Get, Begin
  <1>6. /\ Fresh(r) /\ r.pc = "read" /\ r.op = "get" /\ (r.safe <=> iter' = "safe")
    BY <1>4, ReaderSet DEF Fresh
  <1>7. moves' \in Nat
    BY <1>1 DEF TableInv, TableTypeOK
  <1> QED BY <1>1, <1>3, <1>5, <1>6, <1>7, FreshStep

LEMMA SourceMountedAtStep ==
  ASSUME TableInv, NEW src, NEW dest, SourceMountedAt(src, dest)
  PROVE  TableInv'
  <1>1. /\ tables' = {table} /\ back' = FALSE
        /\ UNCHANGED <<table, old, setting, moves, iter>>
    BY DEF SourceMountedAt, Begin, linkVars, Env
  <1>2. PICK r : r = [NoReader EXCEPT !.pc = "read", !.op = "at", !.src = src,
                                      !.dest = dest]
    OBVIOUS
  <1>3. rd' = r
    BY <1>2 DEF SourceMountedAt, Begin
  <1>4. Fresh(r) /\ r.pc = "read" /\ r.op = "at" /\ r.safe = FALSE
    BY <1>2, ReaderSet DEF Fresh
  <1>5. /\ moves' \in Nat /\ iter' \in {"unset", "safe", "plain"}
        /\ old /\ setting # "no" => iter' # "plain"
    BY <1>1 DEF TableInv, TableTypeOK, ControlInv
  <1> QED BY <1>1, <1>3, <1>4, <1>5, FreshStep

LEMMA TableInvStep == TableInv /\ [Next]_vars => TableInv'
  <1> SUFFICES ASSUME TableInv, [Next]_vars PROVE TableInv'
    OBVIOUS
  <1>1. moves \in Nat
    BY DEF TableInv, TableTypeOK
  <1>2. CASE Lookup
    <2>1. UNCHANGED tableVars /\ moves' = moves
      BY <1>2 DEF Lookup
    <2>2. moves' \in Nat /\ moves' >= moves
      BY <1>1, <2>1
    <2> QED BY <2>1, <2>2, QuietStep
  <1>3. CASE LookupNext /\ UNCHANGED tableVars
    <2>1. moves' = moves
      BY <1>3 DEF LookupNext, ReadDir, Look, NothingFound
    <2>2. moves' \in Nat /\ moves' >= moves
      BY <1>1, <2>1
    <2> QED BY <1>3, <2>2, QuietStep
  <1>4. CASE Udev /\ UNCHANGED tableVars
    BY <1>1, <1>4, QuietStep DEF Udev
  <1>5. CASE UNCHANGED vars
    BY <1>1, <1>5, QuietStep DEF vars, linkVars
  <1>6. CASE ReaderNext
    BY <1>6, ReadChunkStep, ReadEndsStep, NoMoreStep, NextLineStep, ResolvedStep
    DEF ReaderNext
  <1>7. CASE Return
    <2>1. /\ rd' = NoReader /\ back' = FALSE /\ moves' = 0
          /\ UNCHANGED <<table, old, setting, iter>>
      BY <1>7 DEF Return, Env
    <2>2. Fresh(NoReader)
      BY ReaderSet DEF Fresh
    <2>3. /\ iter' \in {"unset", "safe", "plain"}
          /\ old /\ setting # "no" => iter' # "plain"
      BY <2>1 DEF TableInv, TableTypeOK, ControlInv
    <2> QED BY <2>1, <2>2, <2>3, ReaderSet, FreshStep
  <1> QED BY <1>2, <1>3, <1>4, <1>5, <1>6, <1>7, GetStep, SourceMountedAtStep,
             MountStep, UnmountStep
          DEF Next

LEMMA TableInvAlways == Spec => []TableInv
  BY TableInvInit, TableInvStep, PTL DEF Spec

(* What two equal reads say was the table at some time during the call,      *)
(* unless a line came back, and they fail only of a table that changed too   *)
(* often (consistent_read).                                                  *)
THEOREM ReadsConsistent == Spec => []ReadsAreConsistent
  <1>1. TableInv => ReadsAreConsistent
    BY DEF TableInv, AgreedInv, ControlInv, ReadsAreConsistent, ConsistentIsReal,
           InconsistentWasBusy
  <1> QED BY <1>1, TableInvAlways, PTL

(* A mount that stands is among the items of SafeMountIter, on a kernel      *)
(* since 5.8 however often the table changes, and on an older one, unless    *)
(* safe reads are off or a line came back (get_with_retries).                *)
THEOREM StandingListed == Spec => []StandingMountIsListed
  <1>1. ASSUME TableInv
        PROVE  StandingMountIsListed
    <2> SUFFICES ASSUME rd.pc = "done", rd.op = "get", rd.res = "ok",
                        ~old \/ (setting # "no" /\ ~back), NEW l \in Stood,
                        l.kind = "mount"
                 PROVE  <<l.src, l.dest>> \in rd.items
      BY DEF StandingMountIsListed, Answered
    <2>1. l \in ToSet(rd.got)
      <3>1. CASE ~old
        BY <1>1, <3>1 DEF TableInv, StandingInv
      <3>2. CASE old /\ setting # "no" /\ ~back
        <4>1. rd.safe
          BY <1>1, <3>2 DEF TableInv, TableTypeOK, ControlInv
        <4>2. rd.got \in tables
          BY <1>1, <3>2, <4>1 DEF TableInv, AgreedInv
        <4> QED BY <4>2 DEF Stood
      <3>3. old \in BOOLEAN
        BY <1>1 DEF TableInv, TableTypeOK
      <3> QED BY <3>1, <3>2, <3>3
    <2>2. PICK i \in 1..Len(rd.got) : rd.got[i] = l
      BY <1>1, <2>1, ToSetIs DEF TableInv, ReaderTypeOK
    <2> QED BY <1>1, <2>2 DEF TableInv, ControlInv, ItemsInv
  <1> QED BY <1>1, TableInvAlways, PTL

(* What source_mounted_at says is true of the first mount of the source: yes *)
(* only of a mount there was, no only for one of its reasons, and of a table *)
(* that stays, what that mount says, whatever comes after it.                *)
THEOREM FirstMount == Spec => []FirstMountAnswers
  <1>1. TableInv => FirstMountAnswers
    BY DEF TableInv
  <1> QED BY <1>1, TableInvAlways, PTL
==============================================================================
