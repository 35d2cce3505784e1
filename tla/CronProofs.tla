------------------------------ MODULE CronProofs ------------------------------
(***************************************************************************)
(* What holds of the cron pass for every set of jobs, runs and stores and  *)
(* every size of the feed's memory:                                        *)
(*   - a step of the pass adds one run to the feed and may push others out *)
(*     (Adds), which `forgotten' keeps; a restart goes back to the file,   *)
(*     which knows nothing that was neither known nor forgotten (Filed);   *)
(*   - an announcement is paid for by the run not being known before it,   *)
(*     by the feed having forgotten it, or by a restart that took the      *)
(*     knowledge away (Paid);                                              *)
(*   - the seeding pass leaves no old run it was shown that is neither     *)
(*     known nor still ahead of it (Ahead), and a file that says it is     *)
(*     seeded holds all of them (Filed).                                   *)
(***************************************************************************)
EXTENDS CronReconcile, TLAPS

\* The store between two operations: the index answers as the array would.
Steady(f) ==
  /\ f \in FeedType
  /\ f.seenIndex.built => f.seenIndex.ids = Elements(f.mem.seenRuns)

\* From f to g nothing but the file and the index has changed.
Keeps(f, g) ==
  /\ Steady(g)
  /\ SeenSet(g) = SeenSet(f)
  /\ g.mem = f.mem
  /\ g.disk \in {f.disk, g.mem}

\* From f to g the run was added, and others may have been pushed out by it.
Adds(f, g, r) ==
  /\ Steady(g)
  /\ r \in SeenSet(g) /\ SeenSet(g) \subseteq SeenSet(f) \cup {r}
  /\ g.mem.seeded = f.mem.seeded
  /\ g.disk \in {f.disk, g.mem}

-----------------------------------------------------------------------------
(* Sequences. *)

LEMMA NewestIsASequence ==
  ASSUME NEW S, NEW q \in Seq(S), NEW n \in Nat
  PROVE  Newest(q, n) \in Seq(S)
<1>1. CASE Len(q) > n
  <2>1. Len(q) \in Nat /\ Len(q) - n + 1 \in 1..Len(q) + 1
    BY <1>1
  <2>2. QED
    BY <2>1, <1>1 DEF Newest
<1>2. CASE ~(Len(q) > n)
  BY <1>2 DEF Newest
<1>3. QED
  BY <1>1, <1>2

LEMMA ElementsOfAppend ==
  ASSUME NEW S, NEW q \in Seq(S), NEW e \in S
  PROVE  Elements(Append(q, e)) = Elements(q) \cup {e}
<1> DEFINE t == Append(q, e)
<1>1. Len(q) \in Nat /\ Len(t) = Len(q) + 1 /\ t[Len(q) + 1] = e
  OBVIOUS
<1>2. \A i \in 1..Len(q) : t[i] = q[i]
  OBVIOUS
<1>3. 1..Len(t) = 1..Len(q) \cup {Len(q) + 1}
  BY <1>1
<1>4. QED
  <2> HIDE DEF t
  <2>1. Elements(t) = {t[i] : i \in 1..Len(q)} \cup {t[Len(q) + 1]}
    BY <1>3 DEF Elements
  <2>2. {t[i] : i \in 1..Len(q)} = Elements(q)
    BY <1>2 DEF Elements
  <2>3. QED
    BY <2>1, <2>2, <1>1 DEF t

\* Dropping the oldest leaves nothing new, and the newest stays.
LEMMA ElementsOfNewest ==
  ASSUME NEW S, NEW q \in Seq(S), NEW n \in Nat \ {0}, Len(q) > n
  PROVE  /\ Elements(Newest(q, n)) \subseteq Elements(q)
         /\ q[Len(q)] \in Elements(Newest(q, n))
<1> DEFINE t == Newest(q, n)
           first == Len(q) - n + 1
<1>1. Len(q) \in Nat /\ first \in 1..Len(q) /\ t = SubSeq(q, first, Len(q))
  BY DEF Newest
<1>2. /\ Len(t) = n
      /\ \A i \in 1..n : t[i] = q[first + i - 1] /\ first + i - 1 \in 1..Len(q)
  BY <1>1
<1>3. t[n] = q[Len(q)] /\ n \in 1..Len(t)
  <2>1. n \in 1..n /\ first + n - 1 = Len(q)
    BY <1>1
  <2>2. QED
    BY <1>2, <2>1
<1> HIDE DEF t, first
<1>4. QED
  BY <1>2, <1>3 DEF Elements, t

-----------------------------------------------------------------------------
(* The operations of the store the pass uses. *)

LEMMA SeenIsTheArray ==
  ASSUME NEW f, Steady(f)
  PROVE  /\ SeenSet(f) = Elements(f.mem.seenRuns)
         /\ SeenSet(f) \subseteq Runs
  BY DEF Steady, SeenSet, FeedType, FileShape, Elements

LEMMA SeededMeans ==
  ASSUME NEW f, f \in FeedType
  PROVE  HasSeeded(f) <=> f.mem.seeded \/ Elements(f.mem.seenRuns) # {}
<1>1. f.mem.seenRuns \in Seq(Runs)
  BY DEF FeedType, FileShape
<1>2. f.mem.seenRuns # << >> <=> Len(f.mem.seenRuns) > 0
  BY <1>1
<1>3. Len(f.mem.seenRuns) > 0 <=> Elements(f.mem.seenRuns) # {}
  <2>1. Len(f.mem.seenRuns) \in Nat
    BY <1>1
  <2>2. CASE Len(f.mem.seenRuns) > 0
    <3>1. f.mem.seenRuns[1] \in Elements(f.mem.seenRuns)
      BY <2>1, <2>2 DEF Elements
    <3>2. QED
      BY <3>1, <2>2
  <2>3. CASE ~(Len(f.mem.seenRuns) > 0)
    <3>1. 1..Len(f.mem.seenRuns) = {}
      BY <2>1, <2>3
    <3>2. QED
      BY <3>1, <2>3 DEF Elements
  <2>4. QED
    BY <2>2, <2>3
<1>4. QED
  BY <1>2, <1>3 DEF HasSeeded

\* Whoever knows a run has been seeded.
LEMMA KnowingSeeds ==
  ASSUME NEW f, Steady(f), NEW r, HasRun(f, r)
  PROVE  HasSeeded(f)
  BY SeededMeans, SeenIsTheArray DEF Steady, HasRun

\* Whoever leaves memory as it is, and the file as it is or as memory, keeps.
LEMMA WritingKeeps ==
  ASSUME NEW f, Steady(f), NEW g \in FeedType,
         g.mem = f.mem, g.seenIndex = f.seenIndex, g.disk \in {f.mem, f.disk}
  PROVE  Keeps(f, g)
<1>1. Steady(g)
  BY DEF Steady
<1>2. SeenSet(g) = SeenSet(f)
  BY <1>1, SeenIsTheArray
<1>3. QED
  BY <1>1, <1>2 DEF Keeps

LEMMA PersistKeeps ==
  ASSUME NEW f, Steady(f)
  PROVE  Keeps(f, Persist(f, TRUE))
<1> DEFINE g == Persist(f, TRUE)
<1>1. f \in FeedType
  BY DEF Steady
<1>2. /\ g \in FeedType
      /\ g.mem = f.mem /\ g.seenIndex = f.seenIndex /\ g.disk \in {f.mem, f.disk}
  BY <1>1 DEF Persist, WriteNow, FeedType
<1>3. QED
  BY <1>2, WritingKeeps

LEMMA CooldownEndsKeeps ==
  ASSUME NEW f, Steady(f)
  PROVE  Keeps(f, CooldownEnds(f, TRUE)) /\ Keeps(f, Flush(f, TRUE))
<1> DEFINE g == CooldownEnds(f, TRUE)
<1>1. f \in FeedType
  BY DEF Steady
<1>2. /\ g \in FeedType
      /\ g.mem = f.mem /\ g.seenIndex = f.seenIndex /\ g.disk \in {f.mem, f.disk}
  BY <1>1 DEF CooldownEnds, WriteNow, FeedType
<1>3. Flush(f, TRUE) = g
  BY DEF Flush, CooldownEnds
<1>4. QED
  BY <1>2, <1>3, WritingKeeps

LEMMA IndexedKeeps ==
  ASSUME NEW f, Steady(f)
  PROVE  /\ Keeps(f, Indexed(f))
         /\ Indexed(f).mem = f.mem /\ Indexed(f).disk = f.disk
         /\ Indexed(f).seenIndex = [built |-> TRUE, ids |-> Elements(f.mem.seenRuns)]
<1> DEFINE g == Indexed(f)
<1>1. f \in FeedType /\ SeenSet(f) = Elements(f.mem.seenRuns) /\ SeenSet(f) \subseteq Runs
  BY SeenIsTheArray DEF Steady
<1>2. /\ g \in FeedType
      /\ g.mem = f.mem /\ g.disk = f.disk
      /\ g.seenIndex = [built |-> TRUE, ids |-> Elements(f.mem.seenRuns)]
  BY <1>1 DEF Indexed, FeedType, Index
<1>3. Steady(g)
  BY <1>2 DEF Steady
<1>4. SeenSet(g) = SeenSet(f)
  BY <1>1, <1>2 DEF SeenSet
<1>5. QED
  BY <1>2, <1>3, <1>4 DEF Keeps

\* markRunSeen adds the run, and drops the oldest when there are too many.
LEMMA RememberAdds ==
  ASSUME NEW f, Steady(f), NEW r \in Runs
  PROVE  Adds(f, Remember(f, r), r)
<1> DEFINE g == Indexed(f)
           grown == Append(g.mem.seenRuns, r)
           h == Remember(f, r)
<1>1. /\ Steady(g) /\ g \in FeedType
      /\ SeenSet(g) = SeenSet(f)
      /\ g.mem = f.mem /\ g.disk = f.disk
      /\ g.seenIndex = [built |-> TRUE, ids |-> Elements(f.mem.seenRuns)]
  BY IndexedKeeps DEF Keeps, Steady
<1>2. /\ f.mem \in FileShape /\ f.mem.seenRuns \in Seq(Runs)
      /\ SeenSet(f) = Elements(f.mem.seenRuns)
  BY SeenIsTheArray DEF Steady, FeedType, FileShape
<1>3. grown \in Seq(Runs) /\ grown = Append(f.mem.seenRuns, r)
  BY <1>1, <1>2
<1>4. Elements(grown) = SeenSet(f) \cup {r}
  BY <1>2, <1>3, ElementsOfAppend
<1>5. CASE r \in g.seenIndex.ids
  <2>1. h = g
    BY <1>5 DEF Remember
  <2>2. QED
    BY <2>1, <1>1, <1>2, <1>5 DEF Adds
<1>6. ASSUME NEW s \in Seq(Runs), NEW index \in Index,
             h.mem = [f.mem EXCEPT !.seenRuns = s], h.disk = f.disk, h.seenIndex = index,
             h = [g EXCEPT !.mem = h.mem, !.seenIndex = h.seenIndex],
             index.built => index.ids = Elements(s),
             r \in Elements(s), Elements(s) \subseteq SeenSet(f) \cup {r}
      PROVE  Adds(f, h, r)
  <2> HIDE DEF h, g
  <2>1. h.mem \in FileShape /\ h.mem.seenRuns = s /\ h.mem.seeded = f.mem.seeded
    BY <1>2, <1>6 DEF FileShape
  <2>2. h \in FeedType
    BY <1>1, <1>6, <2>1 DEF FeedType
  <2>3. Steady(h)
    BY <1>6, <2>1, <2>2 DEF Steady
  <2>4. QED
    BY <1>6, <2>1, <2>3, SeenIsTheArray DEF Adds
<1>7. CASE r \notin g.seenIndex.ids /\ Len(grown) > SeenCap
  <2> DEFINE s == Newest(grown, SeenCap)
  <2>1. SeenCap \in Nat \ {0}
    BY FeedAssumption
  <2>2. s \in Seq(Runs)
    BY <2>1, <1>3, NewestIsASequence
  <2>3. grown[Len(grown)] = r
    BY <1>2, <1>3
  <2>4. r \in Elements(s) /\ Elements(s) \subseteq SeenSet(f) \cup {r}
    BY <2>1, <2>3, <1>3, <1>4, <1>7, ElementsOfNewest
  <2>5. h = [g EXCEPT !.mem.seenRuns = s, !.seenIndex = Unbuilt]
    BY <1>7 DEF Remember
  <2>6. /\ h.mem = [f.mem EXCEPT !.seenRuns = s] /\ h.disk = f.disk /\ h.seenIndex = Unbuilt
        /\ h = [g EXCEPT !.mem = h.mem, !.seenIndex = h.seenIndex]
    BY <2>5, <1>1 DEF FeedType
  <2>7. Unbuilt \in Index /\ ~Unbuilt.built
    BY DEF Unbuilt, Index
  <2> HIDE DEF s, h, g
  <2>8. Adds(f, h, r)
    BY <2>2, <2>4, <2>6, <2>7, <1>6
  <2>9. QED
    BY <2>8 DEF h
<1>8. CASE r \notin g.seenIndex.ids /\ ~(Len(grown) > SeenCap)
  <2> DEFINE index == [g.seenIndex EXCEPT !.ids = g.seenIndex.ids \cup {r}]
  <2>1. h = [g EXCEPT !.mem.seenRuns = grown, !.seenIndex.ids = g.seenIndex.ids \cup {r}]
    BY <1>8 DEF Remember
  <2>2. /\ h.mem = [f.mem EXCEPT !.seenRuns = grown] /\ h.disk = f.disk /\ h.seenIndex = index
        /\ h = [g EXCEPT !.mem = h.mem, !.seenIndex = h.seenIndex]
    BY <2>1, <1>1 DEF FeedType
  <2>3. g.seenIndex \in Index /\ g.seenIndex.ids = SeenSet(f)
    <3> HIDE DEF g
    <3>1. g.seenIndex \in Index
      BY <1>1 DEF FeedType
    <3>2. g.seenIndex.ids = Elements(f.mem.seenRuns)
      BY <1>1
    <3>3. QED
      BY <3>1, <3>2, <1>2
  <2>4. index \in Index /\ index.ids = Elements(grown)
    <3> HIDE DEF g, grown
    <3>1. QED
      BY <2>3, <1>4 DEF Index
  <2> HIDE DEF index, grown, h, g
  <2>5. Adds(f, h, r)
    BY <2>2, <2>4, <1>3, <1>4, <1>6
  <2>6. QED
    BY <2>5 DEF h
<1>9. QED
  BY <1>5, <1>7, <1>8

\* Writing what was added.
LEMMA PersistAdds ==
  ASSUME NEW f, NEW g, NEW r, Adds(f, g, r)
  PROVE  Adds(f, Persist(g, TRUE), r)
<1> DEFINE h == Persist(g, TRUE)
<1>1. Steady(g)
  BY DEF Adds
<1>2. Keeps(g, h)
  BY <1>1, PersistKeeps
<1>3. QED
  BY <1>2 DEF Adds, Keeps

LEMMA AdoptAdds ==
  ASSUME NEW f, Steady(f), NEW r \in Runs
  PROVE  Adds(f, MarkRunSeen(f, r, TRUE), r)
<1>1. CASE HasRun(f, r)
  <2>1. MarkRunSeen(f, r, TRUE) = Indexed(f)
    BY <1>1 DEF MarkRunSeen
  <2>2. QED
    BY <2>1, <1>1, IndexedKeeps DEF HasRun, Keeps, Adds
<1>2. CASE ~HasRun(f, r)
  BY <1>2, RememberAdds, PersistAdds DEF MarkRunSeen
<1>3. QED
  BY <1>1, <1>2

LEMMA AppendAdds ==
  ASSUME NEW f, Steady(f), NEW row \in Row, row.run # NoRun
  PROVE  Adds(f, AppendEntry(f, row, TRUE), row.run)
<1> DEFINE rows == Newest(Append(f.mem.entries, row), MaxEntries)
           g == [f EXCEPT !.mem.entries = rows]
           h == Remember(g, row.run)
<1>1. /\ f \in FeedType /\ f.mem \in FileShape /\ f.mem.entries \in Seq(Row)
      /\ MaxEntries \in Nat /\ row.run \in Runs
  BY FeedAssumption DEF Steady, FeedType, FileShape, Row
<1>2. rows \in Seq(Row)
  <2>1. Append(f.mem.entries, row) \in Seq(Row)
    BY <1>1
  <2>2. QED
    BY <2>1, <1>1, NewestIsASequence
<1>3. /\ g.mem = [f.mem EXCEPT !.entries = rows]
      /\ g.disk = f.disk /\ g.seenIndex = f.seenIndex
  BY <1>1 DEF FeedType
<1>4. g.mem \in FileShape /\ g.mem.seenRuns = f.mem.seenRuns /\ g.mem.seeded = f.mem.seeded
  <2> HIDE DEF g, rows
  <2>1. QED
    BY <1>1, <1>2, <1>3 DEF FileShape
<1>5. g \in FeedType
  <2>1. g = [f EXCEPT !.mem = g.mem]
    BY <1>1, <1>3 DEF FeedType
  <2>2. QED
    BY <2>1, <1>1, <1>4 DEF FeedType
<1>6. Steady(g)
  BY <1>3, <1>4, <1>5 DEF Steady
<1>7. SeenSet(g) = SeenSet(f)
  BY <1>4, <1>6, SeenIsTheArray
<1> HIDE DEF g
<1>8. Adds(g, h, row.run)
  BY <1>1, <1>6, RememberAdds
<1> HIDE DEF h
<1>9. Adds(f, h, row.run)
  BY <1>3, <1>4, <1>7, <1>8 DEF Adds
<1>10. AppendEntry(f, row, TRUE) = Persist(h, TRUE)
  BY DEF AppendEntry, g, h
<1>11. QED
  BY <1>9, <1>10, PersistAdds

LEMMA MarkSeededSeeds ==
  ASSUME NEW f, Steady(f)
  PROVE  LET h == MarkSeeded(f, TRUE)
         IN  /\ Steady(h) /\ SeenSet(h) = SeenSet(f)
             /\ h.mem.seeded /\ h.disk \in {f.disk, h.mem}
<1>1. CASE f.mem.seeded
  BY <1>1 DEF MarkSeeded
<1>2. CASE ~f.mem.seeded
  <2> DEFINE g == [f EXCEPT !.mem.seeded = TRUE]
  <2>1. f \in FeedType /\ f.mem \in FileShape
    BY DEF Steady, FeedType
  <2>2. /\ g.mem = [f.mem EXCEPT !.seeded = TRUE]
        /\ g.disk = f.disk /\ g.seenIndex = f.seenIndex
    BY <2>1 DEF FeedType
  <2>3. g.mem \in FileShape /\ g.mem.seenRuns = f.mem.seenRuns /\ g.mem.seeded
    <3> HIDE DEF g
    <3>1. QED
      BY <2>1, <2>2 DEF FileShape
  <2>4. g \in FeedType
    <3>1. g = [f EXCEPT !.mem = g.mem]
      BY <2>1, <2>2 DEF FeedType
    <3>2. QED
      BY <3>1, <2>1, <2>3 DEF FeedType
  <2>5. Steady(g)
    BY <2>2, <2>3, <2>4 DEF Steady
  <2>6. SeenSet(g) = SeenSet(f)
    BY <2>3, <2>5, SeenIsTheArray
  <2>7. MarkSeeded(f, TRUE) = Persist(g, TRUE)
    BY <1>2 DEF MarkSeeded
  <2> HIDE DEF g
  <2>8. Keeps(g, Persist(g, TRUE))
    BY <2>5, PersistKeeps
  <2>9. QED
    BY <2>2, <2>3, <2>6, <2>7, <2>8 DEF Keeps
<1>3. QED
  BY <1>1, <1>2

\* A restart knows what the file knows.
LEMMA LoadedIsSteady ==
  ASSUME NEW f, Steady(f)
  PROVE  LET g == Loaded(f.disk)
         IN  /\ Steady(g) /\ g.mem = f.disk /\ g.disk = f.disk
             /\ SeenSet(g) = Elements(f.disk.seenRuns)
<1> DEFINE g == Loaded(f.disk)
<1>1. f \in FeedType /\ f.disk \in FileShape
  BY DEF Steady, FeedType
<1>2. /\ g.mem = f.disk /\ g.disk = f.disk /\ g.seenIndex = Unbuilt
      /\ g \in FeedType
  BY <1>1 DEF Loaded, Unbuilt, Index, FeedType
<1>3. Steady(g)
  BY <1>2 DEF Steady, Unbuilt
<1>4. QED
  BY <1>2, <1>3, SeenIsTheArray DEF Steady

-----------------------------------------------------------------------------
(* The invariant of the pass. *)

\* An announcement is paid for: by the run being known since, or by a restart.
\* The restart an orderly stop counts is still to come.
Paid ==
  \A r \in Runs : pushed[r] + (IF stopping THEN 1 ELSE 0)
                    <= restarts + (IF HasRun(feed, r) THEN 1 ELSE 0)

\* What the locals of the pass say of the feed.
PassOk ==
  /\ pass.at = "reply" => /\ pass.run \in Runs \ Attempts /\ ~HasRun(feed, pass.run)
                          /\ ~pass.seeding
  /\ pass.at \in {"idle", "jobs"} => /\ ~pass.seeding
                                     /\ \A j \in Jobs : pass.latest[j] = NoRun
  /\ pass.at \in {"sessions", "loop", "runs", "reply"} /\ ~pass.seeding => HasSeeded(feed)
  /\ \A j \in Jobs : pass.latest[j] # NoRun => pass.latest[j] \in Attempts
  /\ pass.at = "runs" => pass.job \in Jobs

SeededOnce == completed => HasSeeded(feed) /\ ~pass.seeding

\* The old runs nothing is promised of: unseen by the first pass, or pushed out.
Excused == spoilt \cup forgotten

\* Every other old run is among `seen', but for the attempts nothing names.
Covers(seen) ==
  /\ old \ Attempts \subseteq seen \cup Excused
  /\ \A j \in Jobs : latest[j] \in old => latest[j] \in seen \cup Excused

\* While the pass seeds: every old run is known or still ahead.
Ahead ==
  pass.seeding =>
    /\ pass.at = "sessions" => pass.todo = Jobs
    /\ \A r \in old \ Attempts :
         \/ JobOf[r] \in pass.todo \/ r \in SeenSet(feed) \cup Excused
         \/ pass.at = "loop" /\ r \in pass.found
         \/ pass.at = "runs" /\ JobOf[r] = pass.job
    /\ \A j \in Jobs \ pass.todo :
         pass.latest[j] # NoRun => pass.latest[j] \in SeenSet(feed) \cup Excused
    /\ \A j \in Jobs : latest[j] \in old => latest[j] = pass.latest[j]

\* And after it: every old run is known.
Behind ==
  HasSeeded(feed) /\ ~pass.seeding =>
    /\ Covers(SeenSet(feed))
    /\ \A j \in Jobs : pass.latest[j] \in old => pass.latest[j] \in SeenSet(feed) \cup Excused

\* The file holds nothing memory never had, and says it is seeded only with
\* every old run in it.
Filed ==
  /\ pass.seeding => ~feed.mem.seeded
  /\ feed.disk.seeded => feed.mem.seeded
  /\ Elements(feed.disk.seenRuns) \subseteq SeenSet(feed) \cup forgotten
  /\ feed.disk.seeded => Covers(Elements(feed.disk.seenRuns))

History ==
  /\ \A r \in old : history[r] = "ended"
  /\ \A r \in old \ Excused : pushed[r] = 0

CronInv ==
  /\ TypeOK
  /\ Steady(feed)
  /\ stopping => restarts > 0
  /\ Paid
  /\ PassOk
  /\ SeededOnce
  /\ Ahead
  /\ Behind
  /\ Filed
  /\ History

\* A file just written says what memory does.
LEMMA WritingFiles ==
  ASSUME NEW f, NEW g, f = feed, g = feed', CronInv,
         Steady(g), g.disk \in {f.disk, g.mem}, f.mem.seeded => g.mem.seeded,
         SeenSet(f) \cup forgotten \subseteq SeenSet(g) \cup forgotten',
         spoilt \cup forgotten \subseteq spoilt' \cup forgotten',
         old' = old, \A j \in Jobs : latest'[j] = latest[j],
         pass'.seeding => ~g.mem.seeded, forgotten \subseteq forgotten',
         g.mem.seeded => HasSeeded(g) /\ ~pass'.seeding,
         Behind'
  PROVE  Filed'
<1>1. SeenSet(g) = Elements(g.mem.seenRuns)
  BY SeenIsTheArray
<1>2. Filed
  BY DEF CronInv
<1>3. CASE g.disk = g.mem
  <2>1. g.disk.seeded => Covers(SeenSet(feed))'
    BY <1>3 DEF Behind
  <2>2. g.disk.seeded => Covers(Elements(feed.disk.seenRuns))'
    BY <1>1, <1>3, <2>1 DEF Covers
  <2>3. QED
    BY <1>1, <1>3, <2>2 DEF Filed
<1>4. CASE g.disk = f.disk
  BY <1>2, <1>4 DEF Filed, Covers, Excused
<1>5. QED
  BY <1>3, <1>4

LEMMA InitCronInv == Init => CronInv
<1> SUFFICES ASSUME Init PROVE CronInv
  OBVIOUS
<1> USE CronAssumption, FeedAssumption
<1>1. EmptyFile \in FileShape /\ feed = Loaded(EmptyFile) /\ feed \in FeedType
  BY DEF Init, EmptyFile, FileShape, Loaded, Unbuilt, Index, FeedType
<1>2. /\ feed.mem.seenRuns = << >> /\ feed.disk.seenRuns = << >>
      /\ ~feed.mem.seeded /\ ~feed.disk.seeded /\ ~feed.seenIndex.built
  BY <1>1 DEF EmptyFile, Loaded, Unbuilt
<1>3. Steady(feed)
  BY <1>1, <1>2 DEF Steady
<1>4. /\ pass = Idle /\ pass.at = "idle" /\ ~pass.seeding
      /\ \A j \in Jobs : pass.latest[j] = NoRun
  BY DEF Init, Idle
<1>5. TypeOK
  <2>1. old \subseteq Runs
    BY DEF Init
  <2>2. latest \in [Jobs -> Attempts \cup {NoRun}]
    BY DEF Init
  <2>3. history \in [Runs -> {"none", "running", "ended"}]
    BY DEF Init
  <2>4. Idle \in [at : {"idle", "jobs", "sessions", "loop", "runs", "reply"},
                   seeding : BOOLEAN,
                   latest : [Jobs -> Attempts \cup {NoRun}],
                   listed : SUBSET ActiveStore,
                   todo : SUBSET Jobs,
                   job : Jobs \cup {NoRun},
                   found : SUBSET (Runs \ Attempts),
                   run : (Runs \ Attempts) \cup {NoRun}]
    BY DEF Idle
  <2>5. pushed \in [Runs -> Nat] /\ restarts \in 0..MaxRestarts
    BY DEF Init
  <2>6. QED
    BY <1>1, <1>4, <2>1, <2>2, <2>3, <2>4, <2>5 DEF Init, TypeOK
<1>6. ~HasSeeded(feed)
  BY <1>2 DEF HasSeeded
<1>7. Paid /\ PassOk /\ SeededOnce /\ Ahead /\ Behind /\ History
  BY <1>4, <1>5, <1>6 DEF Init, Paid, PassOk, SeededOnce, Ahead, Behind, History, TypeOK
<1>8. Filed
  <2>1. Elements(feed.disk.seenRuns) = {}
    BY <1>2 DEF Elements
  <2>2. QED
    BY <1>2, <1>4, <2>1 DEF Filed
<1>9. QED
  BY <1>3, <1>5, <1>7, <1>8 DEF Init, CronInv

\* The gateway moves: nothing of the proxy's does, and what had ended stays so.
LEMMA GatewayKeeps ==
  ASSUME CronInv, NEW r \in Runs, RunStarts(r) \/ RunEnds(r) \/ AttemptFails(r)
  PROVE  CronInv'
<1> USE CronAssumption
<1>1. UNCHANGED <<feed, scheduler, pass, stopping, ghosts, told, completed>>
  BY DEF RunStarts, RunEnds, AttemptFails
<1>2. /\ feed' = feed /\ pass' = pass /\ stopping' = stopping /\ pushed' = pushed
      /\ forgotten' = forgotten
      /\ completed' = completed /\ old' = old /\ spoilt' = spoilt /\ restarts' = restarts
      /\ sweep' = sweep /\ timer' = timer /\ dirty' = dirty
  BY <1>1 DEF scheduler, ghosts, told
<1>3. /\ TypeOK /\ Steady(feed) /\ (stopping => restarts > 0) /\ Paid /\ PassOk
      /\ SeededOnce /\ Ahead /\ Behind /\ Filed /\ History
  BY DEF CronInv
<1>4. history[r] # "ended" /\ r \notin old
  BY <1>3 DEF RunStarts, RunEnds, AttemptFails, History
<1>5. /\ history' \in [Runs -> {"none", "running", "ended"}]
      /\ \A q \in Runs \ {r} : history'[q] = history[q]
  BY <1>3 DEF RunStarts, RunEnds, AttemptFails, TypeOK
<1>6. /\ latest' \in [Jobs -> Attempts \cup {NoRun}]
      /\ \A j \in Jobs : latest'[j] = latest[j] \/ latest'[j] \in {NoRun, r}
  BY <1>3 DEF RunStarts, RunEnds, AttemptFails, TypeOK
<1>7. NoRun \notin old
  BY <1>3, FeedAssumption DEF TypeOK
<1>8. TypeOK'
  BY <1>2, <1>3, <1>5, <1>6 DEF TypeOK
<1>9. Paid' /\ PassOk' /\ SeededOnce'
  BY <1>2, <1>3 DEF Paid, PassOk, SeededOnce
<1>10. History'
  BY <1>2, <1>3, <1>4, <1>5 DEF History, Excused, TypeOK
<1>11. Ahead' /\ Behind' /\ Filed'
  BY <1>2, <1>3, <1>4, <1>6, <1>7 DEF Ahead, Behind, Filed, Covers, Excused
<1>12. QED
  BY <1>2, <1>3, <1>8, <1>9, <1>10, <1>11 DEF CronInv

\* Asking for a pass, and starting the sweep.
LEMMA AskingKeeps ==
  ASSUME CronInv, UNCHANGED <<gateway, feed, pass, stopping, ghosts, told, completed>>,
         sweep' \in BOOLEAN, timer' \in BOOLEAN, dirty' \in BOOLEAN
  PROVE  CronInv'
<1>1. /\ history' = history /\ latest' = latest /\ forgotten' = forgotten
      /\ feed' = feed /\ pass' = pass /\ stopping' = stopping /\ pushed' = pushed
      /\ completed' = completed /\ old' = old /\ spoilt' = spoilt /\ restarts' = restarts
  BY DEF gateway, ghosts, told
<1>2. TypeOK'
  BY <1>1 DEF CronInv, TypeOK
<1>3. QED
  BY <1>1, <1>2 DEF CronInv, Paid, PassOk, SeededOnce, Ahead, Behind, Filed, History,
                    Covers, Excused

LEMMA TimerFiresKeeps == ASSUME CronInv, TimerFires PROVE CronInv'
<1> USE CronAssumption
<1>1. /\ TypeOK /\ Steady(feed) /\ (stopping => restarts > 0) /\ Paid /\ PassOk
      /\ SeededOnce /\ Ahead /\ Behind /\ Filed /\ History
  BY DEF CronInv
<1>2. /\ history' = history /\ latest' = latest
      /\ feed' = feed /\ stopping' = stopping /\ pushed' = pushed
      /\ completed' = completed /\ forgotten' = forgotten /\ old' = old /\ spoilt' = spoilt /\ restarts' = restarts
      /\ sweep' = sweep /\ timer' = FALSE /\ dirty' = dirty
      /\ pass' = [Idle EXCEPT !.at = "jobs"]
  BY DEF TimerFires, gateway, ghosts, told
<1>3. /\ pass'.at = "jobs" /\ ~pass'.seeding /\ \A j \in Jobs : pass'.latest[j] = NoRun
      /\ pass'.latest = [j \in Jobs |-> NoRun]
      /\ pass'.listed = {} /\ pass'.todo = {} /\ pass'.job = NoRun
      /\ pass'.found = {} /\ pass'.run = NoRun
  BY <1>2 DEF Idle
<1>4. TypeOK'
  BY <1>1, <1>2 DEF TypeOK, Idle
<1>5. Paid' /\ PassOk' /\ SeededOnce' /\ History'
  BY <1>1, <1>2, <1>3 DEF Paid, PassOk, SeededOnce, History, Excused
<1>6. NoRun \notin old
  BY <1>1, FeedAssumption DEF TypeOK
<1>7. ~pass.seeding
  BY <1>1 DEF PassOk, TimerFires, Running
<1>8. Ahead' /\ Behind' /\ Filed'
  BY <1>1, <1>2, <1>3, <1>6, <1>7 DEF Ahead, Behind, Filed, Covers, Excused
<1>9. QED
  BY <1>1, <1>2, <1>4, <1>5, <1>8 DEF CronInv

\* The pass is given up before it has touched the feed.
LEMMA GivingUpKeeps ==
  ASSUME CronInv, JobsAnswer(FALSE)
  PROVE  CronInv'
<1> USE CronAssumption
<1>1. /\ TypeOK /\ Steady(feed) /\ (stopping => restarts > 0) /\ Paid /\ PassOk
      /\ SeededOnce /\ Ahead /\ Behind /\ Filed /\ History
  BY DEF CronInv
<1>2. /\ history' = history /\ latest' = latest
      /\ feed' = feed /\ stopping' = stopping /\ pushed' = pushed
      /\ completed' = completed /\ forgotten' = forgotten /\ old' = old /\ spoilt' = spoilt /\ restarts' = restarts
      /\ sweep' = sweep /\ timer' = (timer \/ dirty) /\ dirty' = FALSE
      /\ pass' = Idle
  BY DEF JobsAnswer, Leave, gateway, ghosts, told
<1>3. /\ pass'.at = "idle" /\ ~pass'.seeding /\ \A j \in Jobs : pass'.latest[j] = NoRun
      /\ pass'.latest = [j \in Jobs |-> NoRun]
  BY <1>2 DEF Idle
<1>4. TypeOK'
  BY <1>1, <1>2 DEF TypeOK, Idle
<1>5. Paid' /\ PassOk' /\ SeededOnce' /\ History'
  BY <1>1, <1>2, <1>3 DEF Paid, PassOk, SeededOnce, History, Excused
<1>6. NoRun \notin old
  BY <1>1, FeedAssumption DEF TypeOK
<1>7. ~pass.seeding
  BY <1>1 DEF PassOk, JobsAnswer
<1>8. Ahead' /\ Behind' /\ Filed'
  BY <1>1, <1>2, <1>3, <1>6, <1>7 DEF Ahead, Behind, Filed, Covers, Excused
<1>9. QED
  BY <1>1, <1>2, <1>4, <1>5, <1>8 DEF CronInv

\* Whether the pass seeds is decided here, and everything is ahead of one that does.
LEMMA JobsAnswerKeeps == ASSUME CronInv, JobsAnswer(TRUE) PROVE CronInv'
<1> USE CronAssumption
<1>1. /\ TypeOK /\ Steady(feed) /\ (stopping => restarts > 0) /\ Paid /\ PassOk
      /\ SeededOnce /\ Ahead /\ Behind /\ Filed /\ History
  BY DEF CronInv
<1>2. /\ history' = history /\ latest' = latest
      /\ feed' = feed /\ stopping' = stopping /\ pushed' = pushed
      /\ completed' = completed /\ forgotten' = forgotten /\ old' = old /\ spoilt' = spoilt /\ restarts' = restarts
      /\ sweep' = sweep /\ timer' = timer /\ dirty' = dirty
      /\ pass.at = "jobs"
      /\ pass' = [pass EXCEPT !.at = "sessions", !.latest = latest, !.todo = Jobs,
                              !.seeding = Seeding]
  BY DEF JobsAnswer, gateway, ghosts, told
<1>3. /\ pass'.at = "sessions" /\ pass'.latest = latest /\ pass'.todo = Jobs
      /\ pass'.seeding = ~HasSeeded(feed)
  BY <1>1, <1>2 DEF TypeOK, Seeding
<1>4. TypeOK'
  <2>1. Seeding \in BOOLEAN
    BY DEF Seeding
  <2>2. QED
    BY <1>1, <1>2, <2>1 DEF TypeOK
<1>5. ~pass.seeding
  BY <1>1, <1>2 DEF PassOk
<1>6. Paid' /\ SeededOnce' /\ History'
  BY <1>1, <1>2, <1>3 DEF Paid, SeededOnce, History, Excused
<1>7. PassOk'
  BY <1>1, <1>2, <1>3 DEF PassOk, TypeOK
<1>8. \A r \in old : JobOf[r] \in Jobs
  BY <1>1 DEF TypeOK
<1>9. Ahead' /\ Behind'
  BY <1>1, <1>2, <1>3, <1>5, <1>8 DEF Ahead, Behind, Covers, Excused
<1>10. Filed'
  <2>1. pass'.seeding => ~feed.mem.seeded
    BY <1>3 DEF HasSeeded
  <2>2. QED
    BY <1>1, <1>2, <2>1 DEF Filed, Covers, Excused
<1>11. QED
  BY <1>1, <1>2, <1>4, <1>6, <1>7, <1>9, <1>10 DEF CronInv

LEMMA SessionsAnswerKeeps ==
  ASSUME CronInv, NEW ok \in BOOLEAN, SessionsAnswer(ok)
  PROVE  CronInv'
<1> USE CronAssumption
<1>1. /\ TypeOK /\ Steady(feed) /\ (stopping => restarts > 0) /\ Paid /\ PassOk
      /\ SeededOnce /\ Ahead /\ Behind /\ Filed /\ History
  BY DEF CronInv
<1> DEFINE L == {r \in ActiveStore : ok /\ history[r] = "ended"}
<1>2. /\ history' = history /\ latest' = latest
      /\ feed' = feed /\ stopping' = stopping /\ pushed' = pushed
      /\ completed' = completed /\ forgotten' = forgotten /\ old' = old
      /\ spoilt' = spoilt /\ restarts' = restarts
      /\ sweep' = sweep /\ timer' = timer /\ dirty' = dirty
      /\ pass.at = "sessions"
      /\ pass' = [pass EXCEPT !.at = "loop", !.listed = L]
  BY DEF SessionsAnswer, gateway, scheduler, ghosts, told
<1>3. /\ pass'.at = "loop" /\ pass'.listed = L
      /\ pass'.seeding = pass.seeding /\ pass'.latest = pass.latest
      /\ pass'.todo = pass.todo /\ pass'.job = pass.job
      /\ pass'.found = pass.found /\ pass'.run = pass.run
  BY <1>1, <1>2 DEF TypeOK
<1>4. TypeOK'
  BY <1>1, <1>2 DEF TypeOK
<1>5. Paid' /\ PassOk' /\ SeededOnce' /\ History'
  BY <1>1, <1>2, <1>3 DEF Paid, PassOk, SeededOnce, History, Excused
<1>6. \A r \in old : JobOf[r] \in Jobs
  BY <1>1 DEF TypeOK
<1>7. Ahead' /\ Behind' /\ Filed'
  BY <1>1, <1>2, <1>3, <1>6 DEF Ahead, Behind, Filed, Covers, Excused
<1>8. QED
  BY <1>1, <1>2, <1>4, <1>5, <1>7 DEF CronInv

\* An old run the seeding pass is not shown here is excused from now on.
LEMMA RunsAnswerKeeps ==
  ASSUME CronInv, NEW ok \in BOOLEAN, RunsAnswer(ok)
  PROVE  CronInv'
<1> USE CronAssumption
<1>1. /\ TypeOK /\ Steady(feed) /\ (stopping => restarts > 0) /\ Paid /\ PassOk
      /\ SeededOnce /\ Ahead /\ Behind /\ Filed /\ History
  BY DEF CronInv
<1> DEFINE own == {r \in Scoped : ok /\ JobOf[r] = pass.job /\ history[r] = "ended"}
           F == RunsFor(pass.job, own, pass.listed)
<1>2. /\ history' = history /\ latest' = latest
      /\ feed' = feed /\ stopping' = stopping /\ pushed' = pushed
      /\ completed' = completed /\ forgotten' = forgotten /\ old' = old /\ restarts' = restarts
      /\ sweep' = sweep /\ timer' = timer /\ dirty' = dirty
      /\ pass.at = "runs"
      /\ pass' = [pass EXCEPT !.at = "loop", !.found = F]
      /\ spoilt' = spoilt \cup {r \in old \ Attempts :
                                pass.seeding /\ JobOf[r] = pass.job /\ r \notin pass'.found}
  BY DEF RunsAnswer, gateway, scheduler, told
<1>3. F \subseteq Runs \ Attempts
  <2>1. pass.listed \subseteq ActiveStore
    BY <1>1 DEF TypeOK
  <2>2. QED
    BY <2>1 DEF RunsFor
<1> HIDE DEF F
<1>4. /\ pass'.at = "loop" /\ pass'.listed = pass.listed
      /\ pass'.seeding = pass.seeding /\ pass'.latest = pass.latest
      /\ pass'.todo = pass.todo /\ pass'.job = pass.job
      /\ pass'.found = F /\ pass'.run = pass.run
  BY <1>1, <1>2 DEF TypeOK
<1>5. spoilt \subseteq spoilt' /\ spoilt' \subseteq Runs
  BY <1>1, <1>2 DEF TypeOK
<1>6. TypeOK'
  BY <1>1, <1>2, <1>3, <1>5 DEF TypeOK
<1>7. Paid' /\ PassOk' /\ SeededOnce' /\ History'
  BY <1>1, <1>2, <1>4, <1>5 DEF Paid, PassOk, SeededOnce, History, Excused
<1>8. Behind' /\ Filed'
  BY <1>1, <1>2, <1>4, <1>5 DEF Behind, Filed, Covers, Excused
<1>9. Ahead'
  <2>1. \A r \in old \ Attempts : pass.seeding /\ JobOf[r] = pass.job => r \in F \cup spoilt'
    BY <1>2, <1>4
  <2>2. QED
    BY <1>1, <1>2, <1>4, <1>5, <2>1 DEF Ahead, Excused
<1>10. QED
  BY <1>1, <1>2, <1>6, <1>7, <1>8, <1>9 DEF CronInv


\* A run that is met is known afterwards; it may have pushed others out, which
\* then count as never announced.  It is announced exactly if it was not known
\* and the pass does not seed.
Met(r) ==
  /\ Adds(feed, feed', r)
  /\ forgotten' = forgotten \cup (SeenSet(feed) \ SeenSet(feed'))
  /\ pushed' \in [Runs -> Nat]
  /\ \A q \in Runs :
       pushed'[q] = IF q \in SeenSet(feed) \ SeenSet(feed') THEN 0
                    ELSE pushed[q] + (IF q = r /\ ~HasRun(feed, r) /\ ~pass.seeding
                                      THEN 1 ELSE 0)

LEMMA AnnounceMeets ==
  ASSUME CronInv, NEW r \in Runs, ~HasRun(feed, r), ~pass.seeding, Announce(r)
  PROVE  Met(r)
<1> DEFINE row == [run |-> r, topic |-> NoTopic, at |-> 0]
<1>1. row \in Row /\ row.run = r /\ r # NoRun
  BY FeedAssumption DEF Row
<1>2. Steady(feed) /\ pushed \in [Runs -> Nat]
  BY DEF CronInv, TypeOK
<1>3. feed' = AppendEntry(feed, row, TRUE) /\ Tells({r})
  BY DEF Announce
<1> HIDE DEF row
<1>4. Adds(feed, feed', r)
  BY <1>1, <1>2, <1>3, AppendAdds
<1>5. pushed' \in [Runs -> Nat]
  BY <1>2, <1>3 DEF Tells
<1>6. ASSUME NEW q \in Runs
      PROVE  pushed'[q] = IF q \in SeenSet(feed) \ SeenSet(feed') THEN 0
                          ELSE pushed[q] + (IF q = r THEN 1 ELSE 0)
  <2>1. pushed'[q] = IF q \in Evicted THEN 0
                     ELSE IF q \in {r} THEN pushed[q] + 1 ELSE pushed[q]
    BY <1>3 DEF Tells
  <2>2. pushed[q] \in Nat
    BY <1>2
  <2>3. QED
    BY <2>1, <2>2 DEF Evicted
<1>7. QED
  BY <1>3, <1>4, <1>5, <1>6 DEF Met, Tells, Evicted

LEMMA AdoptMeets ==
  ASSUME CronInv, NEW r \in Runs, pass.seeding, Adopt(r)
  PROVE  Met(r)
<1>1. Steady(feed) /\ pushed \in [Runs -> Nat]
  BY DEF CronInv, TypeOK
<1>2. feed' = MarkRunSeen(feed, r, TRUE) /\ Tells({})
  BY DEF Adopt
<1>3. Adds(feed, feed', r)
  BY <1>1, <1>2, AdoptAdds
<1>4. pushed' \in [Runs -> Nat]
  BY <1>1, <1>2 DEF Tells
<1>5. ASSUME NEW q \in Runs
      PROVE  pushed'[q] = IF q \in SeenSet(feed) \ SeenSet(feed') THEN 0 ELSE pushed[q] + 0
  <2>1. pushed'[q] = IF q \in Evicted THEN 0
                     ELSE IF q \in {} THEN pushed[q] + 1 ELSE pushed[q]
    BY <1>2 DEF Tells
  <2>2. pushed[q] \in Nat
    BY <1>1
  <2>3. QED
    BY <2>1, <2>2 DEF Evicted
<1>6. QED
  BY <1>2, <1>3, <1>4, <1>5 DEF Met, Tells, Evicted

LEMMA KnownMeets ==
  ASSUME CronInv, NEW r \in Runs, Known(r)
  PROVE  Met(r)
<1>1. Steady(feed) /\ pushed \in [Runs -> Nat]
  BY DEF CronInv, TypeOK
<1>2. feed' = Indexed(feed) /\ pushed' = pushed /\ forgotten' = forgotten /\ HasRun(feed, r)
  BY DEF Known, told
<1>3. Keeps(feed, feed')
  BY <1>1, <1>2, IndexedKeeps
<1>4. Adds(feed, feed', r)
  BY <1>2, <1>3 DEF Keeps, Adds, HasRun
<1>5. ASSUME NEW q \in Runs PROVE pushed'[q] = pushed[q] + 0
  BY <1>1, <1>2
<1>6. QED
  BY <1>1, <1>2, <1>3, <1>4, <1>5 DEF Met, Keeps, HasRun

\* Meeting a run keeps what does not mention the pass's own progress.
LEMMA MeetingKeeps ==
  ASSUME CronInv, NEW r \in Runs, Met(r),
         history' = history, old' = old, spoilt' = spoilt, restarts' = restarts,
         stopping' = stopping, completed' = completed, pass'.seeding = pass.seeding,
         ~pass.seeding /\ r \in old => r \in SeenSet(feed) \cup Excused
  PROVE  /\ Steady(feed)' /\ Paid' /\ SeededOnce' /\ History'
         /\ feed' \in FeedType /\ pushed' \in [Runs -> Nat] /\ forgotten' \subseteq Runs
         /\ HasSeeded(feed)' /\ r \in SeenSet(feed')
         /\ forgotten \subseteq forgotten'
         /\ SeenSet(feed) \cup forgotten \subseteq SeenSet(feed') \cup forgotten'
         /\ \A q \in Runs : HasRun(feed', q) => HasRun(feed, q) \/ q = r
<1>1. /\ TypeOK /\ Paid /\ SeededOnce /\ History /\ Steady(feed) /\ (stopping => restarts > 0)
  BY DEF CronInv
<1>2. /\ Steady(feed') /\ feed' \in FeedType
      /\ r \in SeenSet(feed') /\ SeenSet(feed') \subseteq SeenSet(feed) \cup {r}
  BY DEF Met, Adds, Steady
<1>3. HasSeeded(feed')
  BY <1>2, KnowingSeeds DEF HasRun
<1>4. SeenSet(feed) \subseteq Runs /\ forgotten \subseteq Runs
  BY <1>1, SeenIsTheArray DEF TypeOK
<1>5. /\ pushed' \in [Runs -> Nat]
      /\ forgotten' = forgotten \cup (SeenSet(feed) \ SeenSet(feed'))
  BY DEF Met
<1>6. pushed \in [Runs -> Nat] /\ restarts \in Nat /\ old \subseteq Runs
  BY <1>1, CronAssumption DEF TypeOK
<1>7. Paid'
  <2> SUFFICES ASSUME NEW q \in Runs
               PROVE  pushed'[q] + (IF stopping THEN 1 ELSE 0)
                        <= restarts + (IF HasRun(feed', q) THEN 1 ELSE 0)
    BY DEF Paid
  <2>1. pushed[q] + (IF stopping THEN 1 ELSE 0) <= restarts + (IF HasRun(feed, q) THEN 1 ELSE 0)
    BY <1>1 DEF Paid
  <2>2. pushed[q] \in Nat /\ restarts \in Nat
    BY <1>6
  <2>3. CASE q \in SeenSet(feed) \ SeenSet(feed')
    <3>1. pushed'[q] = 0
      BY <2>3 DEF Met
    <3>2. QED
      BY <3>1, <2>2, <1>1
  <2>4. CASE q \notin SeenSet(feed) \ SeenSet(feed') /\ q = r /\ ~HasRun(feed, r)
    <3>1. pushed'[q] \in {pushed[q], pushed[q] + 1} /\ HasRun(feed', q)
      BY <2>2, <2>4, <1>2 DEF Met, HasRun
    <3>2. QED
      BY <2>1, <2>2, <2>4, <3>1
  <2>5. CASE q \notin SeenSet(feed) \ SeenSet(feed') /\ ~(q = r /\ ~HasRun(feed, r))
    <3>1. pushed'[q] = pushed[q] + 0 /\ (HasRun(feed, q) => HasRun(feed', q))
      BY <2>5 DEF Met, HasRun
    <3>2. QED
      BY <2>1, <2>2, <3>1
  <2>6. QED
    BY <2>3, <2>4, <2>5
<1>8. SeededOnce'
  BY <1>1, <1>3 DEF SeededOnce
<1>9. History'
  <2>1. \A q \in old : history[q] = "ended"
    BY <1>1 DEF History
  <2>2. ASSUME NEW q \in old, q \notin Excused' PROVE pushed'[q] = 0
    <3>1. q \in Runs /\ q \notin Excused /\ pushed[q] = 0
      BY <2>2, <1>1, <1>5, <1>6 DEF Excused, History
    <3>2. ~(q = r /\ ~HasRun(feed, r) /\ ~pass.seeding)
      BY <3>1 DEF HasRun
    <3>3. QED
      BY <3>1, <3>2 DEF Met
  <2>3. QED
    BY <2>1, <2>2 DEF History
<1>10. QED
  BY <1>2, <1>3, <1>4, <1>5, <1>7, <1>8, <1>9 DEF HasRun

\* And what is filed, once the pass's own progress is settled.
LEMMA MeetingFiles ==
  ASSUME CronInv, NEW r \in Runs, Met(r),
         SeenSet(feed) \cup forgotten \subseteq SeenSet(feed') \cup forgotten',
         HasSeeded(feed)',
         old' = old, spoilt' = spoilt, latest' = latest, pass'.seeding = pass.seeding,
         Behind'
  PROVE  Filed'
<1>1. /\ Steady(feed') /\ feed'.disk \in {feed.disk, feed'.mem}
      /\ feed'.mem.seeded = feed.mem.seeded /\ forgotten \subseteq forgotten'
  BY DEF Met, Adds
<1>2. pass.seeding => ~feed.mem.seeded
  BY DEF CronInv, Filed
<1>3. QED
  BY <1>1, <1>2, WritingFiles

\* The loop goes on to job j: the failed attempt of its record is met first.
LEMMA NextJobKeeps == ASSUME CronInv, NEW j \in Jobs, NextJob(j) PROVE CronInv'
<1> USE CronAssumption
<1> DEFINE a == pass.latest[j]
<1>1. /\ TypeOK /\ Steady(feed) /\ (stopping => restarts > 0) /\ Paid /\ PassOk
      /\ SeededOnce /\ Ahead /\ Behind /\ Filed /\ History
  BY DEF CronInv
<1>2. /\ history' = history /\ latest' = latest /\ stopping' = stopping
      /\ completed' = completed /\ old' = old /\ spoilt' = spoilt /\ restarts' = restarts
      /\ sweep' = sweep /\ timer' = timer /\ dirty' = dirty
      /\ pass.at = "loop" /\ pass.found = {} /\ j \in pass.todo
      /\ ReportFailedExecution(a)
      /\ pass' = [pass EXCEPT !.at = "runs", !.job = j, !.todo = pass.todo \ {j}]
  BY DEF NextJob, gateway, scheduler, ghosts
<1>3. /\ pass'.at = "runs" /\ pass'.listed = pass.listed
      /\ pass'.seeding = pass.seeding /\ pass'.latest = pass.latest
      /\ pass'.todo = pass.todo \ {j} /\ pass'.job = j
      /\ pass'.found = pass.found /\ pass'.run = pass.run
  BY <1>1, <1>2 DEF TypeOK
<1>4. ~pass.seeding => HasSeeded(feed)
  BY <1>1, <1>2 DEF PassOk
<1>5. CASE a = NoRun
  <2>1. feed' = feed /\ pushed' = pushed /\ forgotten' = forgotten
    <3>1. ~(a # NoRun)
      BY <1>5
    <3>2. QED
      BY <1>2, <3>1 DEF ReportFailedExecution, told
  <2>2. TypeOK'
    BY <1>1, <1>2, <2>1 DEF TypeOK
  <2>3. Paid' /\ PassOk' /\ SeededOnce' /\ History' /\ Behind' /\ Filed'
    BY <1>1, <1>2, <1>3, <1>4, <2>1
       DEF Paid, PassOk, SeededOnce, History, Behind, Filed, Covers, Excused
  <2>4. Ahead'
    BY <1>1, <1>2, <1>3, <1>5, <2>1 DEF Ahead, Excused
  <2>5. QED
    BY <1>1, <1>2, <2>1, <2>2, <2>3, <2>4 DEF CronInv
<1>6. CASE a # NoRun
  <2>1. a \in Attempts /\ a \in Runs
    BY <1>1, <1>6 DEF PassOk
  <2>2. Met(a)
    <3>1. CASE Known(a)
      BY <2>1, <3>1, KnownMeets
    <3>2. CASE ~HasRun(feed, a) /\ pass.seeding /\ Adopt(a)
      BY <2>1, <3>2, AdoptMeets
    <3>3. CASE ~HasRun(feed, a) /\ ~pass.seeding /\ Announce(a)
      BY <2>1, <3>3, AnnounceMeets
    <3>4. QED
      BY <1>2, <1>6, <3>1, <3>2, <3>3 DEF ReportFailedExecution
  <2>3. ~pass.seeding /\ a \in old => a \in SeenSet(feed) \cup Excused
    BY <1>1, <1>4 DEF Behind
  <2> HIDE DEF a
  <2>4. /\ Steady(feed)' /\ Paid' /\ SeededOnce' /\ History'
        /\ feed' \in FeedType /\ pushed' \in [Runs -> Nat] /\ forgotten' \subseteq Runs
        /\ HasSeeded(feed)' /\ a \in SeenSet(feed')
        /\ forgotten \subseteq forgotten'
        /\ SeenSet(feed) \cup forgotten \subseteq SeenSet(feed') \cup forgotten'
    BY <1>2, <1>3, <2>1, <2>2, <2>3, MeetingKeeps
  <2>5. TypeOK'
    BY <1>1, <1>2, <2>4 DEF TypeOK
  <2>6. PassOk'
    BY <1>1, <1>2, <1>3, <2>4 DEF PassOk
  <2>7. Behind'
    BY <1>1, <1>2, <1>3, <1>4, <2>4 DEF Behind, Covers, Excused
  <2>8. Ahead'
    BY <1>1, <1>2, <1>3, <2>4 DEF Ahead, Excused, a
  <2>9. Filed'
    BY <1>2, <1>3, <2>1, <2>2, <2>4, <2>7, MeetingFiles
  <2>10. QED
    BY <1>1, <1>2, <2>4, <2>5, <2>6, <2>7, <2>8, <2>9 DEF CronInv
<1>7. QED
  BY <1>5, <1>6

LEMMA TakeRowKeeps == ASSUME CronInv, NEW r \in Runs, TakeRow(r) PROVE CronInv'
<1> USE CronAssumption
<1>1. /\ TypeOK /\ Steady(feed) /\ (stopping => restarts > 0) /\ Paid /\ PassOk
      /\ SeededOnce /\ Ahead /\ Behind /\ Filed /\ History
  BY DEF CronInv
<1>2. /\ history' = history /\ latest' = latest /\ stopping' = stopping
      /\ completed' = completed /\ old' = old /\ spoilt' = spoilt /\ restarts' = restarts
      /\ sweep' = sweep /\ timer' = timer /\ dirty' = dirty
      /\ pass.at = "loop" /\ r \in pass.found
      /\ pass' = [pass EXCEPT !.found = pass.found \ {r}]
  BY DEF TakeRow, gateway, scheduler, ghosts
<1>3. /\ pass'.at = "loop" /\ pass'.listed = pass.listed
      /\ pass'.seeding = pass.seeding /\ pass'.latest = pass.latest
      /\ pass'.todo = pass.todo /\ pass'.job = pass.job
      /\ pass'.found = pass.found \ {r} /\ pass'.run = pass.run
  BY <1>1, <1>2 DEF TypeOK
<1>4. ~pass.seeding => HasSeeded(feed)
  BY <1>1, <1>2 DEF PassOk
<1>5. r \in Runs \ Attempts
  BY <1>1, <1>2 DEF TypeOK
<1>6. Met(r)
  <2>1. CASE Known(r)
    BY <2>1, KnownMeets
  <2>2. CASE ~HasRun(feed, r) /\ pass.seeding /\ Adopt(r)
    BY <2>2, AdoptMeets
  <2>3. CASE ~HasRun(feed, r) /\ ~pass.seeding /\ Announce(r)
    BY <2>3, AnnounceMeets
  <2>4. QED
    BY <2>1, <2>2, <2>3 DEF TakeRow
<1>7. ~pass.seeding /\ r \in old => r \in SeenSet(feed) \cup Excused
  BY <1>1, <1>4, <1>5 DEF Behind, Covers
<1>8. /\ Steady(feed)' /\ Paid' /\ SeededOnce' /\ History'
      /\ feed' \in FeedType /\ pushed' \in [Runs -> Nat] /\ forgotten' \subseteq Runs
      /\ HasSeeded(feed)' /\ r \in SeenSet(feed')
      /\ forgotten \subseteq forgotten'
      /\ SeenSet(feed) \cup forgotten \subseteq SeenSet(feed') \cup forgotten'
  BY <1>2, <1>3, <1>6, <1>7, MeetingKeeps
<1>9. TypeOK'
  BY <1>1, <1>2, <1>8 DEF TypeOK
<1>10. PassOk'
  BY <1>1, <1>2, <1>3, <1>8 DEF PassOk
<1>11. Behind'
  BY <1>1, <1>2, <1>3, <1>4, <1>8 DEF Behind, Covers, Excused
<1>12. Ahead'
  BY <1>1, <1>2, <1>3, <1>8 DEF Ahead, Excused
<1>13. Filed'
  BY <1>2, <1>3, <1>6, <1>8, <1>11, MeetingFiles
<1>14. QED
  BY <1>1, <1>2, <1>8, <1>9, <1>10, <1>11, <1>12, <1>13 DEF CronInv

LEMMA FetchReplyKeeps == ASSUME CronInv, NEW r \in Runs, FetchReply(r) PROVE CronInv'
<1> USE CronAssumption
<1>1. /\ TypeOK /\ Steady(feed) /\ (stopping => restarts > 0) /\ Paid /\ PassOk
      /\ SeededOnce /\ Ahead /\ Behind /\ Filed /\ History
  BY DEF CronInv
<1>2. /\ history' = history /\ latest' = latest /\ stopping' = stopping /\ pushed' = pushed
      /\ completed' = completed /\ forgotten' = forgotten /\ old' = old /\ spoilt' = spoilt
      /\ restarts' = restarts
      /\ sweep' = sweep /\ timer' = timer /\ dirty' = dirty
      /\ pass.at = "loop" /\ r \in pass.found /\ ~HasRun(feed, r) /\ ~pass.seeding
      /\ pass' = [pass EXCEPT !.found = pass.found \ {r}, !.at = "reply", !.run = r]
      /\ feed' = Indexed(feed)
  BY DEF FetchReply, gateway, scheduler, ghosts, told
<1>3. /\ pass'.at = "reply" /\ pass'.listed = pass.listed
      /\ pass'.seeding = pass.seeding /\ pass'.latest = pass.latest
      /\ pass'.todo = pass.todo /\ pass'.job = pass.job
      /\ pass'.found = pass.found \ {r} /\ pass'.run = r
  BY <1>1, <1>2 DEF TypeOK
<1>4. r \in Runs \ Attempts
  BY <1>1, <1>2 DEF TypeOK
<1>5. /\ Steady(feed') /\ feed' \in FeedType /\ SeenSet(feed') = SeenSet(feed)
      /\ feed'.mem = feed.mem /\ feed'.disk = feed.disk
      /\ HasSeeded(feed') <=> HasSeeded(feed)
  BY <1>1, <1>2, IndexedKeeps DEF Keeps, Steady, HasSeeded
<1>6. HasSeeded(feed)
  BY <1>1, <1>2 DEF PassOk
<1>7. TypeOK'
  BY <1>1, <1>2, <1>4, <1>5 DEF TypeOK
<1>8. Paid' /\ PassOk' /\ SeededOnce' /\ History'
  BY <1>1, <1>2, <1>3, <1>4, <1>5, <1>6
     DEF Paid, PassOk, SeededOnce, History, Excused, HasRun
<1>9. Ahead' /\ Behind' /\ Filed'
  BY <1>1, <1>2, <1>3, <1>5, <1>6 DEF Ahead, Behind, Filed, Covers, Excused
<1>10. QED
  BY <1>1, <1>2, <1>5, <1>7, <1>8, <1>9 DEF CronInv

\* hasRun is not asked again behind the await, and need not be.
LEMMA ReplyAnswerKeeps == ASSUME CronInv, ReplyAnswer PROVE CronInv'
<1> USE CronAssumption
<1> DEFINE r == pass.run
<1>1. /\ TypeOK /\ Steady(feed) /\ (stopping => restarts > 0) /\ Paid /\ PassOk
      /\ SeededOnce /\ Ahead /\ Behind /\ Filed /\ History
  BY DEF CronInv
<1>2. /\ history' = history /\ latest' = latest /\ stopping' = stopping
      /\ completed' = completed /\ old' = old /\ spoilt' = spoilt /\ restarts' = restarts
      /\ sweep' = sweep /\ timer' = timer /\ dirty' = dirty
      /\ pass.at = "reply" /\ Announce(r)
      /\ pass' = [pass EXCEPT !.at = "loop", !.run = NoRun]
  BY DEF ReplyAnswer, gateway, scheduler, ghosts
<1>3. /\ pass'.at = "loop" /\ pass'.listed = pass.listed
      /\ pass'.seeding = pass.seeding /\ pass'.latest = pass.latest
      /\ pass'.todo = pass.todo /\ pass'.job = pass.job
      /\ pass'.found = pass.found /\ pass'.run = NoRun
  BY <1>1, <1>2 DEF TypeOK
<1>4. r \in Runs \ Attempts /\ ~HasRun(feed, r) /\ ~pass.seeding /\ HasSeeded(feed)
  BY <1>1, <1>2 DEF PassOk
<1>5. Met(r)
  BY <1>2, <1>4, AnnounceMeets
<1>6. ~pass.seeding /\ r \in old => r \in SeenSet(feed) \cup Excused
  BY <1>1, <1>4 DEF Behind, Covers
<1> HIDE DEF r
<1>7. /\ Steady(feed)' /\ Paid' /\ SeededOnce' /\ History'
      /\ feed' \in FeedType /\ pushed' \in [Runs -> Nat] /\ forgotten' \subseteq Runs
      /\ HasSeeded(feed)' /\ r \in SeenSet(feed')
      /\ forgotten \subseteq forgotten'
      /\ SeenSet(feed) \cup forgotten \subseteq SeenSet(feed') \cup forgotten'
  BY <1>2, <1>3, <1>4, <1>5, <1>6, MeetingKeeps
<1>8. TypeOK'
  BY <1>1, <1>2, <1>7 DEF TypeOK
<1>9. PassOk'
  BY <1>1, <1>2, <1>3, <1>7 DEF PassOk
<1>10. Behind' /\ Ahead'
  BY <1>1, <1>2, <1>3, <1>4, <1>7 DEF Behind, Ahead, Covers, Excused
<1>11. Filed'
  BY <1>2, <1>3, <1>4, <1>5, <1>7, <1>10, MeetingFiles
<1>12. QED
  BY <1>1, <1>2, <1>7, <1>8, <1>9, <1>10, <1>11 DEF CronInv


\* The end of the seeding pass: what was ahead of it is nothing.
LEMMA FinishKeeps == ASSUME CronInv, Finish PROVE CronInv'
<1> USE CronAssumption
<1>1. /\ TypeOK /\ Steady(feed) /\ (stopping => restarts > 0) /\ Paid /\ PassOk
      /\ SeededOnce /\ Ahead /\ Behind /\ Filed /\ History
  BY DEF CronInv
<1>2. /\ history' = history /\ latest' = latest /\ stopping' = stopping /\ pushed' = pushed
      /\ completed' = TRUE /\ forgotten' = forgotten /\ old' = old /\ spoilt' = spoilt
      /\ restarts' = restarts
      /\ sweep' = sweep /\ timer' = (timer \/ dirty) /\ dirty' = FALSE
      /\ pass.at = "loop" /\ pass.found = {} /\ pass.todo = {}
      /\ pass' = Idle
      /\ feed' = IF pass.seeding THEN MarkSeeded(feed, TRUE) ELSE feed
  BY DEF Finish, Leave, gateway, ghosts, told
<1>3. /\ pass'.at = "idle" /\ ~pass'.seeding /\ \A j \in Jobs : pass'.latest[j] = NoRun
      /\ pass'.latest = [j \in Jobs |-> NoRun]
  BY <1>2 DEF Idle
<1>4. /\ Steady(feed') /\ feed' \in FeedType /\ HasSeeded(feed')
      /\ SeenSet(feed') = SeenSet(feed) /\ feed'.disk \in {feed.disk, feed'.mem}
      /\ feed.mem.seeded => feed'.mem.seeded
  <2>1. CASE pass.seeding
    BY <1>1, <1>2, <2>1, MarkSeededSeeds DEF Steady, HasSeeded
  <2>2. CASE ~pass.seeding
    BY <1>1, <1>2, <2>2 DEF PassOk, Steady
  <2>3. QED
    BY <2>1, <2>2
<1>5. TypeOK'
  BY <1>1, <1>2, <1>4 DEF TypeOK, Idle
<1>6. Paid' /\ PassOk' /\ SeededOnce' /\ History'
  BY <1>1, <1>2, <1>3, <1>4 DEF Paid, PassOk, SeededOnce, History, Excused, HasRun
<1>7. NoRun \notin old /\ \A r \in old : r \in Runs /\ JobOf[r] \in Jobs
  BY <1>1, FeedAssumption DEF TypeOK
<1>8. Ahead'
  BY <1>3 DEF Ahead
<1>9. Behind'
  <2>1. Covers(SeenSet(feed))
    BY <1>1, <1>2, <1>7 DEF Ahead, Behind, PassOk, Covers
  <2>2. QED
    BY <1>2, <1>3, <1>4, <1>7, <2>1 DEF Behind, Covers, Excused
<1>10. Filed'
  BY <1>2, <1>3, <1>4, <1>9, WritingFiles
<1>11. QED
  BY <1>1, <1>2, <1>4, <1>5, <1>6, <1>8, <1>9, <1>10 DEF CronInv

\* A step that only writes the store, while the pass stands still.
LEMMA StoreWrites ==
  ASSUME CronInv, Keeps(feed, feed'),
         history' = history, latest' = latest, old' = old, spoilt' = spoilt,
         forgotten' = forgotten, pushed' = pushed, pass' = pass, completed' = completed
  PROVE  /\ feed' \in FeedType /\ Steady(feed)' /\ PassOk' /\ SeededOnce' /\ Ahead' /\ Behind'
         /\ Filed' /\ History' /\ SeenSet(feed') = SeenSet(feed)
<1>1. /\ TypeOK /\ Steady(feed) /\ PassOk /\ SeededOnce /\ Ahead /\ Behind /\ Filed /\ History
  BY DEF CronInv
<1>2. /\ Steady(feed') /\ feed' \in FeedType /\ SeenSet(feed') = SeenSet(feed)
      /\ feed'.mem = feed.mem /\ feed'.disk \in {feed.disk, feed'.mem}
      /\ HasSeeded(feed') <=> HasSeeded(feed)
  BY DEF Keeps, Steady, HasSeeded
<1>3. PassOk' /\ SeededOnce' /\ History'
  BY <1>1, <1>2 DEF PassOk, SeededOnce, History, Excused, HasRun
<1>4. Ahead' /\ Behind'
  BY <1>1, <1>2 DEF Ahead, Behind, Covers, Excused
<1>5. feed.mem.seeded => HasSeeded(feed) /\ ~pass.seeding
  BY <1>1 DEF HasSeeded, Filed
<1>6. pass.seeding => ~feed.mem.seeded
  BY <1>1 DEF Filed
<1>7. Filed'
  BY <1>2, <1>4, <1>5, <1>6, WritingFiles
<1>8. QED
  BY <1>2, <1>3, <1>4, <1>7

\* A timer of the store.
LEMMA CooldownFiresKeeps == ASSUME CronInv, CooldownFires PROVE CronInv'
<1> USE CronAssumption
<1>1. /\ TypeOK /\ Steady(feed) /\ (stopping => restarts > 0) /\ Paid
  BY DEF CronInv
<1>2. /\ history' = history /\ latest' = latest /\ stopping' = stopping /\ pushed' = pushed
      /\ completed' = completed /\ forgotten' = forgotten /\ old' = old /\ spoilt' = spoilt
      /\ restarts' = restarts
      /\ sweep' = sweep /\ timer' = timer /\ dirty' = dirty /\ pass' = pass
      /\ feed' = CooldownEnds(feed, TRUE)
  BY DEF CooldownFires, gateway, scheduler, ghosts, told
<1>3. Keeps(feed, feed')
  BY <1>1, <1>2, CooldownEndsKeeps
<1>4. /\ feed' \in FeedType /\ Steady(feed)' /\ PassOk' /\ SeededOnce' /\ Ahead' /\ Behind'
      /\ Filed' /\ History' /\ SeenSet(feed') = SeenSet(feed)
  BY <1>2, <1>3, StoreWrites
<1>5. TypeOK'
  BY <1>1, <1>2, <1>4 DEF TypeOK
<1>6. Paid'
  BY <1>1, <1>2, <1>4 DEF Paid, HasRun
<1>7. QED
  BY <1>1, <1>2, <1>4, <1>5, <1>6 DEF CronInv

\* The orderly stop: its restart is counted before it happens.
LEMMA ShutdownKeeps == ASSUME CronInv, Shutdown PROVE CronInv'
<1> USE CronAssumption
<1>1. /\ TypeOK /\ Steady(feed) /\ Paid
  BY DEF CronInv
<1>2. /\ history' = history /\ latest' = latest /\ stopping' = TRUE /\ pushed' = pushed
      /\ completed' = completed /\ forgotten' = forgotten /\ old' = old /\ spoilt' = spoilt
      /\ restarts' = restarts + 1
      /\ sweep' = FALSE /\ timer' = FALSE /\ dirty' = dirty /\ pass' = pass
      /\ ~stopping /\ restarts < MaxRestarts
      /\ feed' = Flush(feed, TRUE)
  BY DEF Shutdown, gateway, told
<1>3. Keeps(feed, feed')
  BY <1>1, <1>2, CooldownEndsKeeps
<1>4. /\ feed' \in FeedType /\ Steady(feed)' /\ PassOk' /\ SeededOnce' /\ Ahead' /\ Behind'
      /\ Filed' /\ History' /\ SeenSet(feed') = SeenSet(feed)
  BY <1>2, <1>3, StoreWrites
<1>5. restarts \in Nat /\ restarts' \in 0..MaxRestarts /\ restarts' > 0
  BY <1>1, <1>2 DEF TypeOK
<1>6. TypeOK'
  BY <1>1, <1>2, <1>4, <1>5 DEF TypeOK
<1>7. Paid'
  <2> SUFFICES ASSUME NEW q \in Runs
               PROVE  pushed[q] + 1 <= restarts + 1 + (IF HasRun(feed', q) THEN 1 ELSE 0)
    BY <1>2 DEF Paid
  <2>1. pushed[q] + 0 <= restarts + (IF HasRun(feed, q) THEN 1 ELSE 0)
    BY <1>1, <1>2 DEF Paid
  <2>2. pushed[q] \in Nat
    BY <1>1 DEF TypeOK
  <2>3. HasRun(feed', q) <=> HasRun(feed, q)
    BY <1>4 DEF HasRun
  <2>4. QED
    BY <2>1, <2>2, <2>3, <1>5
<1>8. QED
  BY <1>2, <1>4, <1>5, <1>6, <1>7 DEF CronInv

\* Arithmetic of the next proof: one restart more makes up for what was known.
LEMMA Slack ==
  ASSUME NEW p \in Nat, NEW m \in Nat, NEW n \in Nat, NEW a, NEW b,
         p + (IF a THEN 1 ELSE 0) <= m + (IF b THEN 1 ELSE 0),
         m + 1 <= n + (IF a THEN 1 ELSE 0)
  PROVE  p <= n
  OBVIOUS

\* The next process knows what the file knows.  The restart that took the rest
\* away has been counted: by the stop that announced it, or with the kill.
LEMMA RestartedKeeps ==
  ASSUME CronInv, Restarted,
         restarts' \in 0..MaxRestarts, restarts' > 0,
         restarts + 1 <= restarts' + (IF stopping THEN 1 ELSE 0)
  PROVE  CronInv'
<1> USE CronAssumption
<1>1. /\ TypeOK /\ Steady(feed) /\ Paid /\ Filed /\ History
  BY DEF CronInv
<1>2. /\ history' = history /\ latest' = latest /\ stopping' = FALSE /\ pushed' = pushed
      /\ completed' = (completed /\ HasSeeded(feed')) /\ forgotten' = forgotten /\ old' = old
      /\ spoilt' = (IF feed.disk.seeded THEN spoilt ELSE Runs)
      /\ sweep' = FALSE /\ timer' = FALSE /\ dirty' = FALSE /\ pass' = Idle
      /\ feed' = Loaded(feed.disk)
  BY DEF Restarted, gateway, told
<1>3. /\ Steady(feed') /\ feed' \in FeedType
      /\ feed'.mem = feed.disk /\ feed'.disk = feed.disk
      /\ SeenSet(feed') = Elements(feed.disk.seenRuns)
  BY <1>1, <1>2, LoadedIsSteady DEF Steady
<1>4. /\ pass'.at = "idle" /\ ~pass'.seeding /\ \A j \in Jobs : pass'.latest[j] = NoRun
  BY <1>2 DEF Idle
<1>5. old \subseteq Runs /\ NoRun \notin old /\ spoilt \subseteq spoilt' /\ spoilt' \subseteq Runs
  BY <1>1, <1>2, FeedAssumption DEF TypeOK
<1>6. TypeOK'
  BY <1>1, <1>2, <1>3, <1>5 DEF TypeOK, Idle
<1>7. Paid'
  <2> SUFFICES ASSUME NEW q \in Runs
               PROVE  pushed[q] + 0 <= restarts' + (IF HasRun(feed', q) THEN 1 ELSE 0)
    BY <1>2 DEF Paid
  <2>1. pushed[q] + (IF stopping THEN 1 ELSE 0) <= restarts + (IF HasRun(feed, q) THEN 1 ELSE 0)
    BY <1>1 DEF Paid
  <2>2. pushed[q] \in Nat /\ restarts \in Nat /\ restarts' \in Nat
    BY <1>1 DEF TypeOK
  <2>3. pushed[q] <= restarts'
    BY <2>1, <2>2, Slack
  <2>4. QED
    BY <2>2, <2>3
<1>8. PassOk'
  BY <1>4 DEF PassOk
<1>9. SeededOnce'
  BY <1>2, <1>4 DEF SeededOnce
<1>10. Covers(SeenSet(feed))'
  <2>1. CASE feed.disk.seeded
    BY <1>1, <1>2, <1>3, <2>1 DEF Filed, Covers, Excused
  <2>2. CASE ~feed.disk.seeded
    BY <1>2, <1>5, <2>2 DEF Covers, Excused
  <2>3. QED
    BY <2>1, <2>2
<1>11. Behind' /\ Ahead'
  BY <1>2, <1>4, <1>5, <1>10 DEF Behind, Ahead
<1>12. Filed'
  BY <1>3, <1>4, <1>10 DEF Filed, Covers, Excused
<1>13. History'
  BY <1>1, <1>2, <1>5 DEF History, Excused
<1>14. QED
  BY <1>2, <1>3, <1>6, <1>7, <1>8, <1>9, <1>11, <1>12, <1>13 DEF CronInv

LEMMA ExitKeeps == ASSUME CronInv, Exit PROVE CronInv'
<1>1. stopping /\ restarts' = restarts /\ Restarted
  BY DEF Exit
<1>2. restarts \in 0..MaxRestarts /\ restarts > 0
  BY <1>1 DEF CronInv, TypeOK
<1>3. restarts + 1 <= restarts' + (IF stopping THEN 1 ELSE 0)
  BY <1>1, <1>2
<1>4. QED
  BY <1>1, <1>2, <1>3, RestartedKeeps

\* A kill in the middle of an orderly stop pays for one restart too many.
LEMMA KillKeeps == ASSUME CronInv, Kill PROVE CronInv'
<1>1. restarts' = restarts + 1 /\ restarts < MaxRestarts /\ Restarted
  BY DEF Kill
<1>2. restarts \in 0..MaxRestarts
  BY DEF CronInv, TypeOK
<1>3. restarts' \in 0..MaxRestarts /\ restarts' > 0
  BY <1>1, <1>2, CronAssumption
<1>4. restarts + 1 <= restarts' + (IF stopping THEN 1 ELSE 0)
  <2>1. restarts' = restarts + 1 /\ restarts' \in Nat
    BY <1>1, <1>3, CronAssumption
  <2>2. QED
    BY <2>1
<1>5. QED
  BY <1>1, <1>3, <1>4, RestartedKeeps

\* Nothing happens, as far as this component can see.
LEMMA StutterKeeps == ASSUME CronInv, UNCHANGED vars PROVE CronInv'
<1> USE CronAssumption
<1>1. /\ history' = history /\ latest' = latest /\ stopping' = stopping /\ pushed' = pushed
      /\ completed' = completed /\ old' = old /\ spoilt' = spoilt /\ restarts' = restarts
      /\ forgotten' = forgotten
      /\ sweep' = sweep /\ timer' = timer /\ dirty' = dirty /\ pass' = pass /\ feed' = feed
  BY DEF vars, gateway, scheduler, ghosts, told
<1>2. TypeOK' /\ Steady(feed)' /\ Paid' /\ PassOk' /\ SeededOnce'
  BY <1>1 DEF CronInv, TypeOK, Paid, PassOk, SeededOnce
<1>3. Ahead' /\ Behind' /\ Filed' /\ History'
  BY <1>1 DEF CronInv, Ahead, Behind, Filed, History, Covers, Excused
<1>4. QED
  BY <1>1, <1>2, <1>3 DEF CronInv

LEMMA NextCronInv == CronInv /\ [Next]_vars => CronInv'
<1> SUFFICES ASSUME CronInv, [Next]_vars PROVE CronInv'
  OBVIOUS
<1>1. CASE \E r \in Runs : RunStarts(r) \/ RunEnds(r) \/ AttemptFails(r)
  BY <1>1, GatewayKeeps
<1>2. CASE StartCronSweep \/ CronSignal \/ IntervalElapses
  <2>1. UNCHANGED <<gateway, feed, pass, stopping, ghosts, told, completed>>
    BY <1>2 DEF StartCronSweep, CronSignal, IntervalElapses
  <2>2. sweep' \in BOOLEAN /\ timer' \in BOOLEAN /\ dirty' \in BOOLEAN
    BY <1>2 DEF StartCronSweep, CronSignal, IntervalElapses, Schedule, CronInv, TypeOK
  <2>3. QED
    BY <2>1, <2>2, AskingKeeps
<1>3. CASE TimerFires
  BY <1>3, TimerFiresKeeps
<1>4. ASSUME NEW ok \in AnswerOutcomes, JobsAnswer(ok) \/ SessionsAnswer(ok) \/ RunsAnswer(ok)
      PROVE  CronInv'
  <2>1. ok \in BOOLEAN
    BY CronAssumption
  <2>2. QED
    BY <1>4, <2>1, JobsAnswerKeeps, GivingUpKeeps, SessionsAnswerKeeps, RunsAnswerKeeps
<1>5. CASE \E j \in Jobs : NextJob(j)
  BY <1>5, NextJobKeeps
<1>6. CASE \E r \in Runs : TakeRow(r) \/ FetchReply(r)
  BY <1>6, TakeRowKeeps, FetchReplyKeeps
<1>7. CASE ReplyAnswer
  BY <1>7, ReplyAnswerKeeps
<1>8. CASE Finish
  BY <1>8, FinishKeeps
<1>9. CASE CooldownFires
  BY <1>9, CooldownFiresKeeps
<1>10. CASE Shutdown
  BY <1>10, ShutdownKeeps
<1>11. CASE Exit
  BY <1>11, ExitKeeps
<1>12. CASE Kill
  BY <1>12, KillKeeps
<1>13. CASE UNCHANGED vars
  BY <1>13, StutterKeeps
<1>14. QED
  BY <1>1, <1>2, <1>3, <1>4, <1>5, <1>6, <1>7, <1>8, <1>9, <1>10, <1>11, <1>12, <1>13
     DEF Next, PassStep

-----------------------------------------------------------------------------
(* The theorems. *)

\* The inductive invariant of the cron pass (server/src/push/cron.ts).
THEOREM CronInvariant == Spec => []CronInv
<1>1. CronInv /\ [Next]_vars => CronInv'
  BY NextCronInv
<1>2. QED
  BY <1>1, InitCronInv, PTL DEF Spec

\* The state of the pass, of the feed under it and of the gateway keeps its
\* type (server/src/push/cron.ts, server/src/push/feed.ts).
THEOREM CronTypeCorrect == Spec => []TypeOK
<1>1. CronInv => TypeOK
  BY DEF CronInv
<1>2. QED
  BY <1>1, CronInvariant, PTL

\* However many signals, passes and failed reads: a run is announced once, once
\* more for each restart, and once more each time the feed, which keeps SeenCap
\* runs, has forgotten it (hasRun and appendEntry in reconcile, feed.ts).
THEOREM AnnouncedAtMostOnce == Spec => []AnnouncedOnce
<1>1. CronInv => AnnouncedOnce
  <2> SUFFICES ASSUME CronInv, NEW r \in Runs PROVE pushed[r] <= 1 + restarts
    BY DEF AnnouncedOnce
  <2>1. pushed[r] + (IF stopping THEN 1 ELSE 0) <= restarts + (IF HasRun(feed, r) THEN 1 ELSE 0)
    BY DEF CronInv, Paid
  <2>2. pushed[r] \in Nat /\ restarts \in Nat
    BY CronAssumption DEF CronInv, TypeOK
  <2>3. QED
    BY <2>1, <2>2
<1>2. QED
  BY <1>1, CronInvariant, PTL

\* The first pass adopts history silently: a run that had ended before the install
\* and that the first pass was shown is never announced, then or ever after,
\* whatever fails and whenever the process is restarted once that pass is on disk,
\* as long as newer runs do not push it out (the seeding branch of reconcile).
THEOREM HistoryIsAdopted == Spec => []HistoryStaysSilentIfRead
<1>1. CronInv => HistoryStaysSilentIfRead
  BY DEF CronInv, History, Excused, HistoryStaysSilentIfRead
<1>2. QED
  BY <1>1, CronInvariant, PTL

\* What a step does to the memory of runs, but for what was forgotten before.
Learns == \A q \in Runs \ forgotten :
  q \notin SeenSet(feed) /\ q \in SeenSet(feed') /\ ~pass.seeding
    => pushed'[q] = pushed[q] + 1

LEMMA MeetingLearns == ASSUME CronInv, NEW r \in Runs, Met(r) PROVE Learns
<1> SUFFICES ASSUME NEW q \in Runs, q \notin SeenSet(feed), q \in SeenSet(feed'), ~pass.seeding
             PROVE  pushed'[q] = pushed[q] + 1
  BY DEF Learns
<1>1. q = r /\ ~HasRun(feed, r)
  BY DEF Met, Adds, HasRun
<1>2. QED
  BY <1>1 DEF Met

LEMMA NextLearns == CronInv /\ [Next]_vars => Learns
<1> SUFFICES ASSUME CronInv, [Next]_vars PROVE Learns
  OBVIOUS
<1>1. Steady(feed) /\ TypeOK /\ PassOk /\ Filed
  BY DEF CronInv
<1>2. CASE SeenSet(feed') \subseteq SeenSet(feed) \cup forgotten
  BY <1>2 DEF Learns
<1>3. CASE feed' = feed
  BY <1>2, <1>3
<1>4. CASE \E r \in Runs : RunStarts(r) \/ RunEnds(r) \/ AttemptFails(r)
  BY <1>3, <1>4 DEF RunStarts, RunEnds, AttemptFails
<1>5. CASE StartCronSweep \/ CronSignal \/ IntervalElapses \/ TimerFires
  BY <1>3, <1>5 DEF StartCronSweep, CronSignal, IntervalElapses, TimerFires
<1>6. CASE \E ok \in AnswerOutcomes : JobsAnswer(ok) \/ SessionsAnswer(ok) \/ RunsAnswer(ok)
  BY <1>3, <1>6 DEF JobsAnswer, SessionsAnswer, RunsAnswer
<1>7. ASSUME NEW j \in Jobs, NextJob(j) PROVE Learns
  <2> DEFINE a == pass.latest[j]
  <2>1. ReportFailedExecution(a)
    BY <1>7 DEF NextJob
  <2>2. CASE a = NoRun
    <3>1. ~(a # NoRun)
      BY <2>2
    <3>2. QED
      BY <2>1, <3>1, <1>3 DEF ReportFailedExecution
  <2>3. CASE a # NoRun
    <3>1. a \in Runs
      BY <1>1, <2>3, CronAssumption DEF PassOk
    <3>2. Met(a)
      BY <2>1, <2>3, <3>1, KnownMeets, AdoptMeets, AnnounceMeets DEF ReportFailedExecution
    <3>3. QED
      BY <3>1, <3>2, MeetingLearns
  <2>4. QED
    BY <2>2, <2>3
<1>8. ASSUME NEW r \in Runs, TakeRow(r) PROVE Learns
  <2>1. Met(r)
    BY <1>8, KnownMeets, AdoptMeets, AnnounceMeets DEF TakeRow
  <2>2. QED
    BY <2>1, MeetingLearns
<1>9. ASSUME NEW r \in Runs, FetchReply(r) PROVE Learns
  BY <1>1, <1>2, <1>9, IndexedKeeps DEF FetchReply, Keeps
<1>10. CASE ReplyAnswer
  <2>1. pass.run \in Runs /\ ~HasRun(feed, pass.run) /\ ~pass.seeding /\ Announce(pass.run)
    BY <1>1, <1>10 DEF ReplyAnswer, PassOk
  <2>2. Met(pass.run)
    BY <2>1, AnnounceMeets
  <2>3. QED
    BY <2>1, <2>2, MeetingLearns
<1>11. CASE Finish
  BY <1>1, <1>2, <1>3, <1>11, MarkSeededSeeds DEF Finish
<1>12. CASE CooldownFires \/ Shutdown
  BY <1>1, <1>2, <1>12, CooldownEndsKeeps DEF CooldownFires, Shutdown, Keeps
<1>13. CASE Exit \/ Kill
  BY <1>1, <1>2, <1>13, LoadedIsSteady DEF Exit, Kill, Restarted, Filed
<1>14. CASE UNCHANGED vars
  BY <1>3, <1>14 DEF vars
<1>15. QED
  BY <1>4, <1>5, <1>6, <1>7, <1>8, <1>9, <1>10, <1>11, <1>12, <1>13, <1>14
     DEF Next, PassStep

\* Once a pass has run to its end, no run is remembered without being announced,
\* whatever restarts follow, unless the feed had known and forgotten it (the seeding flag in reconcile, hasSeeded in feed.ts).
THEOREM NothingIsAdoptedLater == Spec => NothingAdoptedLater
<1>1. CronInv /\ [Next]_vars
        => [\A r \in Runs \ forgotten : completed /\ r \notin SeenSet(feed) /\ r \in SeenSet(feed')
              => pushed'[r] = pushed[r] + 1]_vars
  <2> SUFFICES ASSUME CronInv, [Next]_vars, NEW r \in Runs \ forgotten, completed,
                      r \notin SeenSet(feed), r \in SeenSet(feed')
               PROVE  pushed'[r] = pushed[r] + 1
    OBVIOUS
  <2>1. ~pass.seeding
    BY DEF CronInv, SeededOnce
  <2>2. Learns
    BY NextLearns
  <2>3. QED
    BY <2>1, <2>2 DEF Learns
<1>2. QED
  BY <1>1, CronInvariant, PTL DEF Spec, NothingAdoptedLater

-----------------------------------------------------------------------------
(* What the pass promises whoever asks for one. *)

Sweep == INSTANCE Coalescing WITH on <- sweep, owed <- timer \/ dirty, busy <- Running

\* Only a pass leaves the dirty flag up.
DirtyInPass == (dirty => Running) /\ "at" \in DOMAIN pass

\* What the contract sees of each step, which is also why dirty is only up in a pass.
Serves ==
  /\ DirtyInPass'
  /\ Sweep!Next \/ UNCHANGED Sweep!vars

LEMMA Unseen ==
  ASSUME DirtyInPass, sweep' = sweep, timer' = timer, dirty' = dirty,
         Running' <=> Running, "at" \in DOMAIN pass'
  PROVE  Serves
  BY DEF Serves, DirtyInPass, Sweep!vars

LEMMA NextServes == DirtyInPass /\ [Next]_vars => Serves
<1> SUFFICES ASSUME DirtyInPass, [Next]_vars PROVE Serves
  OBVIOUS
<1>1. ASSUME pass' = pass, sweep' = sweep, timer' = timer, dirty' = dirty PROVE Serves
  BY <1>1, Unseen DEF Running, DirtyInPass
<1>2. CASE \E r \in Runs : RunStarts(r) \/ RunEnds(r) \/ AttemptFails(r)
  BY <1>1, <1>2 DEF RunStarts, RunEnds, AttemptFails, scheduler
<1>3. CASE CooldownFires \/ UNCHANGED vars
  BY <1>1, <1>3 DEF CooldownFires, scheduler, vars
<1>4. CASE StartCronSweep
  BY <1>4 DEF StartCronSweep, Serves, DirtyInPass, Running, Sweep!Next, Sweep!Start
<1>5. CASE CronSignal \/ IntervalElapses
  BY <1>5 DEF CronSignal, IntervalElapses, Schedule, Serves, DirtyInPass, Running,
              Sweep!Next, Sweep!Ask
<1>6. CASE TimerFires
  <2>1. pass'.at = "jobs" /\ "at" \in DOMAIN pass'
    BY <1>6 DEF TimerFires, Idle
  <2>2. QED
    BY <1>6, <2>1 DEF TimerFires, Serves, DirtyInPass, Running, Sweep!Next, Sweep!Begin
<1>7. ASSUME Leave, Running, sweep' = sweep PROVE Serves
  <2>1. pass'.at = "idle" /\ "at" \in DOMAIN pass'
    BY <1>7 DEF Leave, Idle
  <2>2. QED
    BY <1>7, <2>1 DEF Leave, Serves, DirtyInPass, Running, Sweep!Next, Sweep!End
<1>8. CASE Finish
  BY <1>7, <1>8 DEF Finish, Running
<1>9. ASSUME sweep' = sweep, timer' = timer, dirty' = dirty, Running,
             DOMAIN pass' = DOMAIN pass, pass'.at # "idle"
      PROVE  Serves
  BY <1>9, Unseen DEF Running, DirtyInPass
<1>10. ASSUME NEW ok \in AnswerOutcomes, JobsAnswer(ok) PROVE Serves
  <2>1. CASE ok
    <3>1. DOMAIN pass' = DOMAIN pass /\ pass'.at = "sessions"
      BY <1>10, <2>1 DEF JobsAnswer, DirtyInPass
    <3>2. QED
      BY <1>9, <1>10, <2>1, <3>1 DEF JobsAnswer, Running
  <2>2. CASE ~ok
    BY <1>7, <1>10, <2>2 DEF JobsAnswer, Running
  <2>3. QED
    BY <2>1, <2>2
<1>11. ASSUME NEW ok \in AnswerOutcomes, SessionsAnswer(ok) \/ RunsAnswer(ok) PROVE Serves
  <2>1. DOMAIN pass' = DOMAIN pass /\ pass'.at = "loop"
    BY <1>11 DEF SessionsAnswer, RunsAnswer, DirtyInPass
  <2>2. QED
    BY <1>9, <1>11, <2>1 DEF SessionsAnswer, RunsAnswer, Running, scheduler
<1>12. ASSUME NEW j \in Jobs, NextJob(j) PROVE Serves
  <2>1. DOMAIN pass' = DOMAIN pass /\ pass'.at = "runs"
    BY <1>12 DEF NextJob, DirtyInPass
  <2>2. QED
    BY <1>9, <1>12, <2>1 DEF NextJob, Running, scheduler
<1>13. ASSUME NEW r \in Runs, TakeRow(r) \/ FetchReply(r) PROVE Serves
  <2>1. DOMAIN pass' = DOMAIN pass /\ pass'.at \in {"loop", "reply"}
    BY <1>13 DEF TakeRow, FetchReply, DirtyInPass
  <2>2. QED
    BY <1>9, <1>13, <2>1 DEF TakeRow, FetchReply, Running, scheduler
<1>14. CASE ReplyAnswer
  <2>1. DOMAIN pass' = DOMAIN pass /\ pass'.at = "loop"
    BY <1>14 DEF ReplyAnswer, DirtyInPass
  <2>2. QED
    BY <1>9, <1>14, <2>1 DEF ReplyAnswer, Running, scheduler
<1>15. CASE Shutdown
  BY <1>15 DEF Shutdown, Serves, DirtyInPass, Running, Sweep!Next, Sweep!Stop
<1>16. CASE Exit \/ Kill
  <2>1. pass'.at = "idle" /\ "at" \in DOMAIN pass'
    BY <1>16 DEF Exit, Kill, Restarted, Idle
  <2>2. QED
    BY <1>16, <2>1 DEF Exit, Kill, Restarted, Serves, DirtyInPass, Running, Sweep!Next, Sweep!Stop
<1>17. QED
  BY <1>2, <1>3, <1>4, <1>5, <1>6, <1>8, <1>10, <1>11, <1>12, <1>13, <1>14, <1>15, <1>16
     DEF Next, PassStep

\* The cron pass keeps the contract of Coalescing, whatever its reads answer: no
\* signal is forgotten but at a stop, and passes do not overlap
\* (scheduleCronReconcile and the running and dirty flags of reconcile).
THEOREM CronCoalesces == Spec => Sweep!Spec
<1>1. Init => Sweep!Init /\ DirtyInPass
  BY DEF Init, Idle, Running, DirtyInPass, Sweep!Init
<1>2. DirtyInPass /\ [Next]_vars => DirtyInPass' /\ [Sweep!Next]_(Sweep!vars)
  BY NextServes DEF Serves
<1>3. QED
  BY <1>1, <1>2, PTL DEF Spec, Sweep!Spec

=============================================================================
