----------------------------- MODULE MountTable -----------------------------
(***************************************************************************)
(* The readers of /proc/mounts (devinfo/src/mountinfo): SafeMountIter,     *)
(* which reads the file until two reads agree, and source_mounted_at,      *)
(* which reads it once and stops at the source.  The kernel hands out the  *)
(* list of mounts in chunks, by position; before 5.8 an unmount between    *)
(* two chunks makes it leave out a mount.  A line whose source is a link   *)
(* under /dev/disk is resolved through DiskLinks.                          *)
(***************************************************************************)
EXTENDS DiskLinks, SequencesExt

CONSTANTS
  Lines,      \* lines there may be: [kind, src, dest], a link's with its directory in by
  Retries,    \* retry_count: reads after the second one
  MaxTable    \* bound: the longest list of mounts

LineKinds == {"mount", "bylink", "garbled"}
Settings == {"always", "no", "other"}

ASSUME TableAssumption ==
  /\ \A l \in Lines : l.kind \in LineKinds
  /\ Retries \in Nat /\ MaxTable \in Nat

VARIABLES
  table,    \* the kernel's list of mounts
  old,      \* the kernel is older than 5.8
  setting,  \* USE_SAFE_MOUNT; y and yes mean what any other text means
  iter,     \* SAFE_MOUNT_ITER: "unset", or how to read: "safe", "plain"
  rd,       \* the reader
  tables,   \* history: the tables there were since the call began
  back      \* history: a line that went since then has come back
tableVars == <<table, old, setting, iter, rd, tables, back>>
vars == <<linkVars, tableVars>>

NoReader == [pc |-> "done", op |-> "none", src |-> None, dest |-> None, safe |-> FALSE, pos |-> 0,
             got |-> <<>>, prev |-> <<>>, reads |-> 0, k |-> 0, items |-> {}, res |-> None]
Reading == rd.pc # "done"
Returned == ~Reading /\ call.pc = "done"
Idling == rd = NoReader /\ call = Idle
Env == <<table, old, setting>>
History == <<tables, back>>

(* The lines that stood all through the call.                              *)
Stood == {l \in Lines : \A t \in tables : l \in ToSet(t)}
-----------------------------------------------------------------------------
(* The environment: mount at the end of the list, unmount anywhere.  A     *)
(* kernel since 5.8 keeps the reader's place by the mount it is at.  Bound: *)
(* no two lines of the list are the same.                                  *)
Moved == /\ Reading /\ moves < MaxMoves /\ moves' = moves + 1
         /\ tables' = tables \cup {table'}
         /\ UNCHANGED <<links, call, held, seen, old, setting, iter>>

Mount ==
  /\ Len(table) < MaxTable
  /\ \E l \in Lines \ ToSet(table) :
       /\ table' = Append(table, l)
       /\ back' = (back \/ \E t \in tables : l \in ToSet(t))
  /\ UNCHANGED rd /\ Moved

Unmount ==
  \E i \in 1..Len(table) :
    /\ table' = RemoveAt(table, i)
    /\ rd' = [rd EXCEPT !.pos = IF ~old /\ i <= @ THEN @ - 1 ELSE @]
    /\ UNCHANGED back /\ Moved
-----------------------------------------------------------------------------
UseSafeIfAsked(bug) == setting = "always"
UseSafe(bug) == CASE setting = "always" -> TRUE
                  [] setting = "no" -> FALSE
                  [] OTHER -> bug

(* uname may fail or say what is no version: then the bug is assumed.      *)
HasBug(unameOk) == unameOk => old

Begin(reader) ==
  /\ Idling
  /\ rd' = reader
  /\ tables' = {table} /\ back' = FALSE
  /\ UNCHANGED <<linkVars, Env>>

(* SafeMountIter::get_with_retries decides once how to read.               *)
Get ==
  \E unameOk \in BOOLEAN :
    /\ iter' = CASE iter # "unset" -> iter
                [] iter = "unset" /\ UseSafe(HasBug(unameOk)) -> "safe"
                [] OTHER -> "plain"
    /\ Begin([NoReader EXCEPT !.pc = "read", !.op = "get", !.safe = iter' = "safe"])

(* source_mounted_at reads by the plain MountIter.                         *)
SourceMountedAt(src, dest) ==
  /\ Begin([NoReader EXCEPT !.pc = "read", !.op = "at", !.src = src, !.dest = dest])
  /\ UNCHANGED iter

(* One read of the file returns a mount or several; the plain reader asks  *)
(* for more only when it has used up what it has.                          *)
ReadChunk ==
  /\ rd.pc = "read"
  /\ rd.safe \/ rd.k = Len(rd.got)
  /\ \E n \in 1..(Len(table) - rd.pos) :
       rd' = [rd EXCEPT !.pos = @ + n, !.got = @ \o SubSeq(table, rd.pos + 1, rd.pos + n)]
  /\ UNCHANGED <<linkVars, Env, iter, History>>

AtEnd == rd.pc = "read" /\ rd.pos >= Len(table)

LastReadEarly == rd.reads = Retries
LastRead == rd.reads = Retries + 1
AgreesAlways == rd.reads > 0
Agrees == rd.reads > 0 /\ rd.got = rd.prev

(* consistent_read at the end of a read: the same as the one before it, or *)
(* once more, or InconsistentRead.                                         *)
ReadEnds ==
  /\ AtEnd /\ rd.safe
  /\ rd' = CASE Agrees -> [rd EXCEPT !.pc = "parse"]
             [] ~Agrees /\ LastRead -> [rd EXCEPT !.pc = "done", !.res = "inconsistent"]
             [] OTHER -> [rd EXCEPT !.prev = rd.got, !.got = <<>>, !.pos = 0, !.reads = @ + 1]
  /\ UNCHANGED <<linkVars, Env, iter, History>>

InHand == rd.k < Len(rd.got) /\ (rd.pc = "parse" \/ (rd.pc = "read" /\ ~rd.safe))

(* The last line is used up: there are no more items.                      *)
NoMore ==
  /\ rd.k = Len(rd.got)
  /\ rd.pc = "parse" \/ (AtEnd /\ ~rd.safe)
  /\ rd' = [rd EXCEPT !.pc = "done", !.res = IF rd.op = "get" THEN "ok" ELSE "false"]
  /\ UNCHANGED <<linkVars, Env, iter, History>>

MountedSomewhere(dest) == "true"
MountedHere(dest) == IF rd.dest = dest THEN "true" ELSE "false"

TakeFirst(ok, src, dest) ==
  [rd EXCEPT !.pc = "done", !.res = IF rd.op = "get" THEN "ok" ELSE MountedHere(dest)]

(* What the caller does with an item: get's passes over errors, the loop   *)
(* of source_mounted_at ends at an error and at the first line of its      *)
(* source.                                                                 *)
Take(ok, src, dest) ==
  LET more == [rd EXCEPT !.k = @ + 1, !.pc = IF rd.safe THEN "parse" ELSE "read"]
  IN IF rd.op = "get"
     THEN IF ok THEN [more EXCEPT !.items = @ \cup {<<src, dest>>}] ELSE more
     ELSE CASE ~ok -> [rd EXCEPT !.pc = "done", !.res = "error"]
            [] ok /\ src = rd.src -> [rd EXCEPT !.pc = "done", !.res = MountedHere(dest)]
            [] OTHER -> more

(* MountIter::next: a line that is no text is an error, and a source under *)
(* /dev/disk has to be resolved first.  (/proc/mounts has no comments and  *)
(* no empty lines.)                                                        *)
NextLine ==
  /\ InHand
  /\ LET line == rd.got[rd.k + 1]
     IN \/ /\ line.kind = "garbled"
           /\ rd' = Take(FALSE, None, None) /\ UNCHANGED linkVars
        \/ /\ line.kind = "mount"
           /\ rd' = Take(TRUE, line.src, line.dest) /\ UNCHANGED linkVars
        \/ /\ line.kind = "bylink"
           /\ rd' = [rd EXCEPT !.pc = "resolve"]
           /\ FetchFromDiskByPath(line.by, line.src)
           /\ UNCHANGED <<links, moves>>
  /\ UNCHANGED <<Env, iter, History>>

Resolved ==
  /\ rd.pc = "resolve" /\ call.pc = "done"
  /\ rd' = Take(call.got[1] # None, call.got[1], rd.got[rd.k + 1].dest)
  /\ UNCHANGED <<linkVars, Env, iter, History>>

ReaderNext == ReadChunk \/ ReadEnds \/ NoMore \/ NextLine \/ Resolved
-----------------------------------------------------------------------------
TableInit ==
  /\ table \in {t \in UNION {[1..n -> Lines] : n \in 0..MaxTable} : IsInjective(t)}
  /\ old \in BOOLEAN /\ setting \in Settings
  /\ iter = "unset" /\ rd = NoReader /\ tables = {} /\ back = FALSE

Init == LinkInit /\ TableInit

(* A lookup asked for by a caller; it has nothing to do with the table.    *)
Lookup ==
  /\ Idling /\ table = <<>> /\ iter = "unset" /\ ~old
  /\ \/ \E p \in DOMAIN Prefix \ {"/"}, n \in Names : GetDevicePath(FromStr(p, n))
     \/ \E d \in Devices : GetDevicePath(FromStr("/", d))
     \/ \E d \in Devices : GetDevicePath(NewPath(d))
     \/ \E dir \in LinkDirs, n \in Names : FetchFromDiskByPath(dir, n)
     \/ \E d \in Devices, i \in 1..Len(Kinds) : GetSource(d, <<Kinds[i]>>)
     \/ \E d \in Devices : GetSource(d, Kinds)
  /\ UNCHANGED <<links, moves, tableVars>>

(* The caller takes the result; what moves until its next call is in Init. *)
Return ==
  /\ Returned /\ ~Idling
  /\ call' = Idle /\ held' = {} /\ seen' = {} /\ moves' = 0
  /\ rd' = NoReader /\ tables' = {} /\ back' = FALSE
  /\ UNCHANGED <<links, Env, iter>>

Next ==
  \/ Lookup
  \/ LookupNext /\ UNCHANGED tableVars
  \/ ~Idling /\ Udev /\ UNCHANGED tableVars
  \/ Get
  \/ \E d \in Devices, l \in Lines : SourceMountedAt(d, l.dest)
  \/ ReaderNext
  \/ Mount \/ Unmount \/ Return

Spec == Init /\ [][Next]_vars

-----------------------------------------------------------------------------
Answered(op) == rd.pc = "done" /\ rd.op = op

(* consistent_read: what two equal reads say is a table that there was     *)
(* during the call, on old and on new kernels, unless a line went and came *)
(* back: then two reads may be equal that both mix two tables.             *)
ConsistentIsReal ==
  rd.safe /\ rd.res = "ok" /\ ~back => rd.got \in tables

(* SafeMountIter: a mount that stood all through the call is among the     *)
(* items, on old kernels too, unless the user switched safe reads off or a *)
(* line went and came back: two reads that leave out the same mount for    *)
(* different reasons are equal.                                            *)
StandingMountIsListed ==
  Answered("get") /\ rd.res = "ok" /\ (~old \/ (setting # "no" /\ ~back)) =>
    \A l \in Stood : l.kind = "mount" => <<l.src, l.dest>> \in rd.items

(* InconsistentRead says that the table was busy: one change makes at most *)
(* two of the comparisons fail.                                            *)
InconsistentWasBusy ==
  rd.res = "inconsistent" => 2 * moves > Retries

(* Both: what consistent_read says of the table is so.                     *)
ReadsAreConsistent == ConsistentIsReal /\ InconsistentWasBusy

(* source_mounted_at says true of what was mounted there during the call.  *)
TrueWasMounted ==
  rd.res = "true" =>
    \E t \in tables : \E l \in ToSet(t) :
      l.dest = rd.dest /\ (l.kind = "mount" => l.src = rd.src)

(* source_mounted_at says false of a standing mount only if the source is  *)
(* mounted elsewhere too, or the kernel leaves mounts out.                 *)
FalseHasReason ==
  Answered("at") /\ rd.res = "false" =>
    \A l \in Stood :
      l.kind = "mount" /\ l.src = rd.src /\ l.dest = rd.dest =>
        old \/ \E t \in tables : \E o \in ToSet(t) : o.dest # rd.dest /\ o.kind \in {"mount", "bylink"}
                                                /\ (o.kind = "mount" => o.src = rd.src)

IsFirstMount(i) ==
  /\ table[i].kind = "mount" /\ table[i].src = rd.src
  /\ \A j \in 1..(i - 1) : table[j].kind = "mount" /\ table[j].src # rd.src

(* Where the table stays as it is, the first mount of the source decides,  *)
(* whatever comes after it: another line that is the mount asked for, or   *)
(* one that is no text.  The doc says otherwise: "Returns true if the      *)
(* `source` is mounted at the given `dest`" (mountinfo/mod.rs:180).        *)
FirstMountDecides ==
  Answered("at") /\ tables = {table} =>
    \A i \in 1..Len(table) :
      IsFirstMount(i) => rd.res = IF table[i].dest = rd.dest THEN "true" ELSE "false"

(* All three: what source_mounted_at says is true of the first mount of    *)
(* the source, and of that only.                                           *)
FirstMountAnswers == TrueWasMounted /\ FalseHasReason /\ FirstMountDecides

=============================================================================
