------------------------------ MODULE DiskLinks ------------------------------
(***************************************************************************)
(* The identifiers of a partition (devinfo/src/partition): PartitionID,    *)
(* its two ways from text, and the lookups in the directories of links     *)
(* that udev keeps under /dev/disk.  A lookup lists a directory and then   *)
(* resolves its links one by one, while udev adds and removes links and    *)
(* the kernel, as the code's notes say, now and then leaves an entry out.  *)
(***************************************************************************)
EXTENDS Naturals, Sequences, FiniteSets, TLC

CONSTANTS
  Devices,    \* the device nodes
  Names,      \* the names of links
  LinkDirs,   \* the directories in which udev makes links here
  Attempts,   \* how often a lookup that found nothing is tried again: 10
  MaxSkips,   \* bound: listings that leave something out, in one lookup
  MaxMoves    \* bound: changes made by others during one call

Variants == {"id", "label", "partlabel", "partuuid", "path", "uuid"}
Kinds == <<"path", "id", "label", "partlabel", "partuuid", "uuid">>
None == "none"

ASSUME LinksAssumption ==
  /\ LinkDirs \subseteq Variants
  /\ Attempts \in Nat /\ MaxSkips \in Nat /\ MaxMoves \in Nat
  /\ None \notin Devices \cup Names

VARIABLES
  links,  \* the links there are: <<directory, name>> to device
  call,   \* the lookup in progress, or the last one
  held,   \* history: the links there since the lookup began
  seen,   \* history: the links there at some time since then
  moves   \* the changes made by others since the call began
linkVars == <<links, call, held, seen, moves>>

AsSet(l) == {<<p[1], p[2], l[p]>> : p \in DOMAIN l}
-----------------------------------------------------------------------------
(* A text is a prefix and a name; an identifier keeps whether its id is    *)
(* still an absolute path.                                                 *)
NoID == [variant |-> None, abs |-> FALSE, id |-> None]
ID(variant, name) == [variant |-> variant, abs |-> FALSE, id |-> name]
NewPath(device) == [variant |-> "path", abs |-> TRUE, id |-> device]

Prefix == ("/" :> "path") @@ ("ID=" :> "id") @@ ("LABEL=" :> "label")
       @@ ("PARTLABEL=" :> "partlabel") @@ ("PARTUUID=" :> "partuuid") @@ ("UUID=" :> "uuid")

(* FromStr: the slash of a path is taken off with the prefix.              *)
FromStr(prefix, name) ==
  IF prefix \in DOMAIN Prefix THEN ID(Prefix[prefix], name) ELSE NoID

ByDir(dir) ==
  CASE dir \in {"id", "label", "partlabel", "partuuid"} -> dir
    [] dir \in {"path", "uuid"} -> "partuuid"
    [] OTHER -> None

FromDiskByPath(dir, name) ==
  IF ByDir(dir) = None THEN NoID ELSE ID(ByDir(dir), name)

DiskByPath(variant) == variant
-----------------------------------------------------------------------------
Here(dir) == {p[2] : p \in {q \in DOMAIN links : q[1] = dir}}

Idle == [pc |-> "done", op |-> "none", key |-> None, kinds |-> <<>>, tried |-> 0, list |-> {},
         skips |-> 0, got |-> <<>>]

Started(c) == /\ call' = c
              /\ held' = AsSet(links) /\ seen' = AsSet(links)

(* get_device_path: an absolute path is its own answer.                    *)
DevicePathCall(pid) ==
  IF pid.variant = "path" /\ pid.abs
  THEN [Idle EXCEPT !.op = "from_id", !.got = <<pid.id>>]
  ELSE [Idle EXCEPT !.op = "from_id", !.pc = "read", !.key = pid.id, !.kinds = <<pid.variant>>]

GetDevicePath(pid) == Started(DevicePathCall(pid))

(* fetch_from_disk_by_path: the identifier of a link, and its device.      *)
FetchFromDiskByPath(dir, name) ==
  /\ FromDiskByPath(dir, name) # NoID
  /\ GetDevicePath(FromDiskByPath(dir, name))

(* get_source, and from_path which asks for the six kinds one by one.      *)
GetSource(device, kinds) ==
  Started([Idle EXCEPT !.op = "find_id", !.pc = "read", !.key = device, !.kinds = kinds])

Kind == call.kinds[Len(call.got) + 1]

(* read_dir: the names there are now, or some of them.                     *)
ReadDir ==
  /\ call.pc = "read"
  /\ \E missed \in SUBSET Here(DiskByPath(Kind)) :
       /\ missed # {} => call.skips < MaxSkips
       /\ call' = [call EXCEPT !.pc = "look",
                     !.list = Here(DiskByPath(Kind)) \ missed,
                     !.skips = IF missed = {} THEN @ ELSE @ + 1]
  /\ UNCHANGED <<links, held, seen, moves>>

Answer(a) ==
  call' = [call EXCEPT !.got = Append(@, a), !.tried = 0, !.list = {},
             !.pc = IF Len(call.got) + 1 = Len(call.kinds) THEN "done" ELSE "read"]

HitsAny(n) == <<DiskByPath(Kind), n>> \in DOMAIN links
Hits(n) ==
  LET at == <<DiskByPath(Kind), n>>
  IN /\ at \in DOMAIN links
     /\ IF call.op = "from_id" THEN n = call.key ELSE links[at] = call.key

(* from_id_ and find_id_: the next entry of the listing, resolved now.     *)
Look ==
  /\ call.pc = "look"
  /\ \E n \in call.list :
       IF Hits(n)
       THEN Answer(IF call.op = "from_id" THEN links[<<DiskByPath(Kind), n>>] ELSE n)
       ELSE call' = [call EXCEPT !.list = @ \ {n}]
  /\ UNCHANGED <<links, held, seen, moves>>

AgainNever == FALSE
Again == call.tried # Attempts

(* attempt: nothing found is tried again, and in the end is the answer.    *)
NothingFound ==
  /\ call.pc = "look" /\ call.list = {}
  /\ IF Again THEN call' = [call EXCEPT !.pc = "read", !.tried = @ + 1] ELSE Answer(None)
  /\ UNCHANGED <<links, held, seen, moves>>

LookupNext == ReadDir \/ Look \/ NothingFound

(* udev                                                                    *)
Udev ==
  /\ moves < MaxMoves /\ moves' = moves + 1
  /\ \E at \in LinkDirs \X Names :
       \/ \E d \in Devices :
            /\ at \in DOMAIN links => links[at] # d
            /\ links' = [p \in DOMAIN links \cup {at} |-> IF p = at THEN d ELSE links[p]]
       \/ /\ at \in DOMAIN links
          /\ links' = [p \in DOMAIN links \ {at} |-> links[p]]
  /\ held' = held \cap AsSet(links')
  /\ seen' = seen \cup AsSet(links')
  /\ UNCHANGED call

LinkInit ==
  /\ links \in UNION {[D -> Devices] : D \in SUBSET (LinkDirs \X Names)}
  /\ call = Idle /\ held = {} /\ seen = {} /\ moves = 0
-----------------------------------------------------------------------------
Answers ==
  {i \in 1..Len(call.got) : i <= Len(call.kinds)}

(* The link an answer speaks of.                                           *)
Said(i) ==
  IF call.op = "from_id" THEN <<call.kinds[i], call.key, call.got[i]>>
                         ELSE <<call.kinds[i], call.got[i], call.key>>

(* What a lookup answers was true at some time during the lookup, however  *)
(* udev changed the links under it (from_id_, find_id_).                   *)
FoundIsTrue ==
  \A i \in Answers : call.got[i] # None => Said(i) \in seen

(* A link that stood all through the lookup is found, unless the kernel    *)
(* left something out of the first listing and of every further one: that  *)
(* is what attempt's retries are for.                                      *)
StandingIsFound ==
  \A i \in Answers :
    call.got[i] = None /\ call.skips <= Attempts =>
      ~\E h \in held : h[1] = call.kinds[i]
                       /\ h[IF call.op = "from_id" THEN 2 ELSE 3] = call.key

(* Both: a lookup answers what was so, and does not miss what stays.       *)
LookupsAnswerTruly == FoundIsTrue /\ StandingIsFound
=============================================================================
