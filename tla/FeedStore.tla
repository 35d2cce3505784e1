------------------------------ MODULE FeedStore ------------------------------
(***************************************************************************)
(* The updates feed of the proxy, server/src/push/feed.ts, as operators on *)
(* one record: the five stored fields held in memory (mem), the copy last  *)
(* renamed into place on disk (disk), the write-behind state of persist()  *)
(* and the on-demand index over seenRuns.  A module that owns the feed     *)
(* declares one variable of this shape and applies the operators to it.    *)
(*                                                                         *)
(* A row keeps the fields that anything decides on: the run it reports,    *)
(* its collapse key (dedupeKey) and its time.  Text, links and severity    *)
(* are left out, and so are row ids, which nothing in the store reads.     *)
(***************************************************************************)
EXTENDS Integers, Sequences, FiniteSets

CONSTANTS
  Runs,          \* run ids (and the keys of attempts that never became a run)
  Topics,        \* dedupeKey values of appendUpdate
  Keys,          \* watermark keys
  Values,        \* watermark values
  NoRun,         \* a row with runId null
  NoTopic,       \* a row with dedupeKey null
  NoMark,        \* a watermark never set, or forgotten
  MaxEntries,    \* MAX_ENTRIES, 300 in the code
  SeenCap,       \* MAX_ENTRIES * 4 in the code
  CollapseWindow \* COLLAPSE_MS

ASSUME FeedAssumption ==
  /\ MaxEntries \in Nat \ {0}
  /\ SeenCap \in Nat
  /\ SeenCap >= MaxEntries
  /\ CollapseWindow \in Nat
  /\ NoRun \notin Runs
  /\ NoTopic \notin Topics
  /\ NoMark \notin Values

Row == [run : Runs \cup {NoRun}, topic : Topics \cup {NoTopic}, at : Nat]

FileShape == [entries : Seq(Row),
              seenRuns : Seq(Runs),
              seeded : BOOLEAN,
              lastReadAt : Nat,
              watermarks : [Keys -> Values \cup {NoMark}]]

Index == [built : BOOLEAN, ids : SUBSET Runs]

(***************************************************************************)
(* cooldown: persist()'s timer is armed.  pending: a write is owed when it *)
(* fires.  stale: the last attempt to write failed (not a variable of the  *)
(* code, which only logs it).                                              *)
(***************************************************************************)
FeedType == [mem : FileShape, disk : FileShape, seenIndex : Index,
             cooldown : BOOLEAN, pending : BOOLEAN, stale : BOOLEAN]

EmptyFile == [entries |-> << >>, seenRuns |-> << >>, seeded |-> FALSE,
              lastReadAt |-> 0, watermarks |-> [k \in Keys |-> NoMark]]

Unbuilt == [built |-> FALSE, ids |-> {}]

\* The process has just started and load() has read `file'.
Loaded(file) ==
  [mem |-> file, disk |-> file, seenIndex |-> Unbuilt,
   cooldown |-> FALSE, pending |-> FALSE, stale |-> FALSE]

-----------------------------------------------------------------------------
(* Sequences, and the index over seenRuns. *)

Elements(s) == {s[i] : i \in 1..Len(s)}

\* splice(0, length - n): only the n newest elements stay.
Newest(s, n) ==
  IF Len(s) > n THEN SubSeq(s, Len(s) - n + 1, Len(s)) ELSE s

\* seenSet(): the index, built from the array when there is none.
SeenSet(f) == IF f.seenIndex.built THEN f.seenIndex.ids ELSE Elements(f.mem.seenRuns)

Indexed(f) == [f EXCEPT !.seenIndex = [built |-> TRUE, ids |-> SeenSet(f)]]

\* Mutated: the answer is read from the file, which lags memory.
HasRunOnDisk(f, run) == run \in Elements(f.disk.seenRuns)

HasRun(f, run) == run \in SeenSet(f)

HasSeeded(f) == f.mem.seeded \/ f.mem.seenRuns # << >>

UnreadCount(f) ==
  Cardinality({i \in 1..Len(f.mem.entries) : f.mem.entries[i].at > f.mem.lastReadAt})

-----------------------------------------------------------------------------
(* Persistence. `ok' says whether this write reaches the disk. *)

WriteNow(f, ok) ==
  [f EXCEPT !.disk = IF ok THEN f.mem ELSE f.disk,
            !.stale = ~ok,
            !.pending = FALSE,
            !.cooldown = FALSE]

\* Mutated: a mutation during the cooldown is not owed to anyone.
PersistOrDrop(f, ok) ==
  IF f.cooldown THEN f ELSE [WriteNow(f, ok) EXCEPT !.cooldown = TRUE]

\* Leading edge: write now and arm the cooldown, or owe one write to it.
Persist(f, ok) ==
  IF f.cooldown
  THEN [f EXCEPT !.pending = TRUE]
  ELSE [WriteNow(f, ok) EXCEPT !.cooldown = TRUE]

\* The timer callback of persist().  The trailing write arms no new timer.
CooldownEnds(f, ok) ==
  IF f.pending THEN WriteNow(f, ok) ELSE [f EXCEPT !.cooldown = FALSE]

\* flushFeed(), called on shutdown.
Flush(f, ok) ==
  IF f.pending THEN WriteNow(f, ok) ELSE [f EXCEPT !.cooldown = FALSE]

-----------------------------------------------------------------------------
(* Mutations.  Each stands for one exported function, its persist included. *)

\* markRunSeen(run, false).
Remember(f, run) ==
  LET g == Indexed(f)
      grown == Append(g.mem.seenRuns, run)
  IN  IF run \in g.seenIndex.ids
      THEN g
      ELSE IF Len(grown) > SeenCap
      THEN [g EXCEPT !.mem.seenRuns = Newest(grown, SeenCap), !.seenIndex = Unbuilt]
      ELSE [g EXCEPT !.mem.seenRuns = grown, !.seenIndex.ids = g.seenIndex.ids \cup {run}]

\* markRunSeen(run): an id already known is not written again.
MarkRunSeen(f, run, ok) ==
  IF HasRun(f, run) THEN Indexed(f) ELSE Persist(Remember(f, run), ok)

AppendEntry(f, row, ok) ==
  LET g == [f EXCEPT !.mem.entries = Newest(Append(f.mem.entries, row), MaxEntries)]
  IN  Persist(IF row.run = NoRun THEN g ELSE Remember(g, row.run), ok)

\* The newest row is about the same thing and recent enough to absorb `row'.
Collapses(f, row) ==
  LET n == Len(f.mem.entries) IN
  /\ n > 0
  /\ row.topic # NoTopic
  /\ f.mem.entries[n].topic = row.topic
  /\ row.at - f.mem.entries[n].at < CollapseWindow

AppendUpdate(f, row, ok) ==
  IF Collapses(f, row)
  THEN Persist([f EXCEPT !.mem.entries = [f.mem.entries EXCEPT ![Len(f.mem.entries)] = row]], ok)
  ELSE AppendEntry(f, row, ok)

MarkSeeded(f, ok) ==
  IF f.mem.seeded THEN f ELSE Persist([f EXCEPT !.mem.seeded = TRUE], ok)

\* setWatermark, a NoMark value forgetting the key.
SetWatermark(f, key, value, ok) ==
  IF f.mem.watermarks[key] = value
  THEN f
  ELSE Persist([f EXCEPT !.mem.watermarks = [f.mem.watermarks EXCEPT ![key] = value]], ok)

\* pruneWatermarks: `keys' are those under the prefix, `keep' the ones still there.
PruneWatermarks(f, keys, keep, ok) ==
  LET gone == {k \in keys \ keep : f.mem.watermarks[k] # NoMark}
      kept == [k \in Keys |-> IF k \in gone THEN NoMark ELSE f.mem.watermarks[k]]
  IN  IF gone = {} THEN f ELSE Persist([f EXCEPT !.mem.watermarks = kept], ok)

\* The latest `at' of any row, 0 for an empty feed.
NewestAt(f) ==
  IF f.mem.entries = << >> THEN 0
  ELSE LET ats == {f.mem.entries[i].at : i \in 1..Len(f.mem.entries)}
       IN  CHOOSE a \in ats : \A b \in ats : b <= a

MarkRead(f, ok) ==
  IF NewestAt(f) <= f.mem.lastReadAt
  THEN f
  ELSE Persist([f EXCEPT !.mem.lastReadAt = NewestAt(f)], ok)

ClearEntries(f, ok) ==
  IF f.mem.entries = << >>
  THEN f
  ELSE Persist([f EXCEPT !.mem.entries = << >>], ok)

=============================================================================
