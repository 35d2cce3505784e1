----------------------------- MODULE PushProofs -----------------------------
(***************************************************************************)
(* What holds of the two stores of the server's push directory.            *)
(*                                                                         *)
(* The feed, for every set of runs, topics and watermarks and every pair   *)
(* of caps with SeenCap >= MaxEntries.  The argument:                      *)
(*   - persist() restores the debt relation between memory and disk from   *)
(*     any state, so each mutation only has to keep the rest (PersistKeeps)*)
(*   - a row that reports a run is matched by a position in seenRuns that  *)
(*     is at least as close to its end as the row is to the end of the     *)
(*     rows (Tracked).  The rows are the shorter list, so a run is evicted *)
(*     from the memory only after its row left the window.                 *)
(*                                                                         *)
(* The subscriptions, for every set of devices and identities, any number  *)
(* of fan-outs under way, of failing writes and of kills of the proxy.     *)
(***************************************************************************)
EXTENDS Feed, PushStore, FiniteSetTheorems, SequenceTheorems, WellFoundedInduction, TLAPS

-----------------------------------------------------------------------------
(* The feed. *)

\* Every row's run is remembered, no further from the newest than the row is.
Tracked(file) ==
  /\ Len(file.entries) <= MaxEntries
  /\ Len(file.seenRuns) <= SeenCap
  /\ \A i \in 1..Len(file.entries) :
       file.entries[i].run # NoRun =>
         \E p \in 1..Len(file.seenRuns) :
           /\ file.seenRuns[p] = file.entries[i].run
           /\ Len(file.seenRuns) - p <= Len(file.entries) - i
  /\ \A i, j \in 1..Len(file.entries) :
       file.entries[i].run = file.entries[j].run => i = j \/ file.entries[i].run = NoRun

ShowsNoRun(file) == \A i \in 1..Len(file.entries) : file.entries[i].run = NoRun

Exact(f) == f.seenIndex.built => f.seenIndex.ids = Elements(f.mem.seenRuns)

Owed(f) ==
  /\ f.pending => f.cooldown
  /\ f.mem # f.disk => f.pending \/ f.stale

\* What a mutation must establish before persist() is called.
Sound(f) ==
  /\ f \in FeedType
  /\ Exact(f)
  /\ Tracked(f.mem)
  /\ Tracked(f.disk)
  /\ f.pending => f.cooldown

FeedInv ==
  /\ Sound(feed)
  /\ Owed(feed)
  /\ pass \in {"none", "seeding", "reporting"}
  /\ now \in Nat
  /\ pass = "seeding" => ShowsNoRun(feed.mem)

-----------------------------------------------------------------------------
(* Sequences. *)

LEMMA NewestFacts ==
  ASSUME NEW S, NEW s \in Seq(S), NEW n \in Nat
  PROVE  /\ Newest(s, n) \in Seq(S)
         /\ Len(Newest(s, n)) = IF Len(s) > n THEN n ELSE Len(s)
         /\ \A i \in 1..Len(Newest(s, n)) :
              Newest(s, n)[i] = s[i + (Len(s) - Len(Newest(s, n)))]
<1>1. CASE Len(s) > n
  <2>1. Newest(s, n) = SubSeq(s, Len(s) - n + 1, Len(s))
    BY <1>1 DEF Newest
  <2>2. Len(s) \in Nat /\ Len(s) - n + 1 \in 1..Len(s) + 1
    BY <1>1
  <2>3. QED
    BY <2>1, <2>2, <1>1
<1>2. CASE ~(Len(s) > n)
  <2>1. Newest(s, n) = s
    BY <1>2 DEF Newest
  <2>2. Len(s) \in Nat
    OBVIOUS
  <2>3. QED
    BY <2>1, <2>2, <1>2
<1>3. QED
  BY <1>1, <1>2

LEMMA ElementsOfAppend ==
  ASSUME NEW S, NEW s \in Seq(S), NEW e \in S
  PROVE  Elements(Append(s, e)) = Elements(s) \cup {e}
<1> DEFINE t == Append(s, e)
<1>1. Len(s) \in Nat /\ Len(t) = Len(s) + 1 /\ t[Len(s) + 1] = e
  OBVIOUS
<1>2. \A i \in 1..Len(s) : t[i] = s[i]
  OBVIOUS
<1>3. ASSUME NEW x \in Elements(t) PROVE x \in Elements(s) \cup {e}
  <2>1. PICK i \in 1..Len(t) : x = t[i]
    BY <1>3 DEF Elements
  <2>2. CASE i = Len(s) + 1
    BY <2>1, <2>2, <1>1
  <2>3. CASE i # Len(s) + 1
    <3>1. i \in 1..Len(s)
      BY <2>3, <1>1
    <3>2. QED
      BY <3>1, <2>1, <1>2 DEF Elements
  <2>4. QED
    BY <2>2, <2>3
<1>4. ASSUME NEW x \in Elements(s) \cup {e} PROVE x \in Elements(t)
  <2>1. CASE x = e
    BY <2>1, <1>1 DEF Elements
  <2>2. CASE x \in Elements(s)
    <3>1. PICK i \in 1..Len(s) : x = s[i]
      BY <2>2 DEF Elements
    <3>2. i \in 1..Len(t) /\ x = t[i]
      BY <3>1, <1>1, <1>2
    <3>3. QED
      BY <3>2 DEF Elements
  <2>3. QED
    BY <2>1, <2>2, <1>4
<1>5. QED
  BY <1>3, <1>4

-----------------------------------------------------------------------------
(* Persistence. *)

LEMMA WriteNowKeeps ==
  ASSUME NEW f, Sound(f), NEW ok \in BOOLEAN
  PROVE  /\ Sound(WriteNow(f, ok))
         /\ Owed(WriteNow(f, ok))
         /\ WriteNow(f, ok).mem = f.mem
         /\ WriteNow(f, ok).cooldown = FALSE
         /\ WriteNow(f, ok).pending = FALSE
<1> DEFINE g == WriteNow(f, ok)
<1>1. f \in FeedType
  BY DEF Sound
<1>2. /\ g.mem = f.mem
      /\ g.disk = (IF ok THEN f.mem ELSE f.disk)
      /\ g.seenIndex = f.seenIndex
      /\ g.cooldown = FALSE
      /\ g.pending = FALSE
      /\ g.stale = ~ok
  BY <1>1 DEF WriteNow, FeedType
<1>3. g \in FeedType
  BY <1>1 DEF WriteNow, FeedType
<1>4. QED
  BY <1>2, <1>3 DEF Sound, Owed, Exact

LEMMA PersistKeeps ==
  ASSUME NEW f, Sound(f), NEW ok \in BOOLEAN
  PROVE  /\ Sound(Persist(f, ok))
         /\ Owed(Persist(f, ok))
         /\ Persist(f, ok).mem = f.mem
<1>1. f \in FeedType
  BY DEF Sound
<1>2. CASE f.cooldown
  <2> DEFINE g == Persist(f, ok)
  <2>1. g = [f EXCEPT !.pending = TRUE]
    BY <1>2 DEF Persist
  <2>2. /\ g \in FeedType
        /\ g.mem = f.mem
        /\ g.disk = f.disk
        /\ g.seenIndex = f.seenIndex
        /\ g.cooldown
        /\ g.pending
    BY <2>1, <1>1, <1>2 DEF FeedType
  <2>3. QED
    BY <2>2 DEF Sound, Owed, Exact
<1>3. CASE ~f.cooldown
  <2> DEFINE w == WriteNow(f, ok)
             g == Persist(f, ok)
  <2>1. g = [w EXCEPT !.cooldown = TRUE]
    BY <1>3 DEF Persist
  <2>2. Sound(w) /\ Owed(w) /\ w.mem = f.mem
    BY WriteNowKeeps
  <2>3. w \in FeedType
    BY <2>2 DEF Sound
  <2>4. /\ g \in FeedType
        /\ g.mem = w.mem
        /\ g.disk = w.disk
        /\ g.seenIndex = w.seenIndex
        /\ g.cooldown
        /\ g.pending = w.pending
        /\ g.stale = w.stale
    BY <2>1, <2>3 DEF FeedType
  <2>5. QED
    BY <2>2, <2>4 DEF Sound, Owed, Exact
<1>4. QED
  BY <1>2, <1>3, <1>1 DEF FeedType

LEMMA CooldownEndsKeeps ==
  ASSUME NEW f, Sound(f), Owed(f), NEW ok \in BOOLEAN
  PROVE  /\ Sound(CooldownEnds(f, ok))
         /\ Owed(CooldownEnds(f, ok))
         /\ CooldownEnds(f, ok).mem = f.mem
<1>1. CASE f.pending
  BY <1>1, WriteNowKeeps DEF CooldownEnds
<1>2. CASE ~f.pending
  <2> DEFINE g == [f EXCEPT !.cooldown = FALSE]
  <2>1. f \in FeedType
    BY DEF Sound
  <2>2. /\ g \in FeedType
        /\ g.mem = f.mem /\ g.disk = f.disk /\ g.seenIndex = f.seenIndex
        /\ g.pending = f.pending /\ g.stale = f.stale
    BY <2>1 DEF FeedType
  <2>3. Sound(g) /\ Owed(g)
    BY <2>2, <1>2 DEF Sound, Owed, Exact
  <2>4. CooldownEnds(f, ok) = g
    BY <1>2 DEF CooldownEnds
  <2>5. QED
    BY <2>2, <2>3, <2>4
<1>3. QED
  BY <1>1, <1>2 DEF Sound, FeedType

LEMMA LoadedIsSound ==
  ASSUME NEW file \in FileShape, Tracked(file)
  PROVE  /\ Sound(Loaded(file))
         /\ Owed(Loaded(file))
         /\ Loaded(file).mem = file
<1> DEFINE g == Loaded(file)
<1>1. /\ g \in FeedType
      /\ g.mem = file
      /\ g.disk = file
      /\ g.seenIndex.built = FALSE
      /\ g.pending = FALSE
  BY DEF Loaded, FeedType, Unbuilt, Index
<1>2. QED
  BY <1>1 DEF Sound, Owed, Exact

-----------------------------------------------------------------------------
(* The memory of runs. *)

LEMMA IndexedKeeps ==
  ASSUME NEW f, f \in FeedType, Exact(f)
  PROVE  /\ Indexed(f) \in FeedType
         /\ Exact(Indexed(f))
         /\ Indexed(f).mem = f.mem
         /\ Indexed(f).disk = f.disk
         /\ Indexed(f).cooldown = f.cooldown
         /\ Indexed(f).pending = f.pending
         /\ Indexed(f).stale = f.stale
         /\ Indexed(f).seenIndex.built
         /\ Indexed(f).seenIndex.ids = Elements(f.mem.seenRuns)
<1>1. SeenSet(f) = Elements(f.mem.seenRuns)
  BY DEF SeenSet, Exact
<1>2. Elements(f.mem.seenRuns) \subseteq Runs
  BY DEF FeedType, FileShape, Elements
<1>3. QED
  BY <1>1, <1>2 DEF Indexed, FeedType, Index, Exact

LEMMA HasRunMeans ==
  ASSUME NEW f, Exact(f), NEW run
  PROVE  HasRun(f, run) <=> run \in Elements(f.mem.seenRuns)
  BY DEF HasRun, SeenSet, Exact

\* What markRunSeen does to each field.
LEMMA RememberFacts ==
  ASSUME NEW f, f \in FeedType, Exact(f), NEW run \in Runs,
         Len(f.mem.seenRuns) <= SeenCap
  PROVE  /\ Remember(f, run) \in FeedType
         /\ Exact(Remember(f, run))
         /\ Remember(f, run).disk = f.disk
         /\ Remember(f, run).cooldown = f.cooldown
         /\ Remember(f, run).pending = f.pending
         /\ Remember(f, run).mem.entries = f.mem.entries
         /\ Remember(f, run).mem.seenRuns =
              IF run \in Elements(f.mem.seenRuns)
              THEN f.mem.seenRuns
              ELSE Newest(Append(f.mem.seenRuns, run), SeenCap)
<1> DEFINE g == Indexed(f)
           grown == Append(g.mem.seenRuns, run)
           h == Remember(f, run)
<1>1. /\ g \in FeedType
      /\ Exact(g)
      /\ g.mem = f.mem
      /\ g.disk = f.disk
      /\ g.cooldown = f.cooldown
      /\ g.pending = f.pending
      /\ g.seenIndex.ids = Elements(f.mem.seenRuns)
      /\ g.seenIndex.built
  BY IndexedKeeps
<1>2. /\ f.mem \in FileShape
      /\ f.mem.seenRuns \in Seq(Runs)
      /\ SeenCap \in Nat
      /\ grown \in Seq(Runs)
  BY FeedAssumption, <1>1 DEF FeedType, FileShape
<1>3. CASE run \in g.seenIndex.ids
  <2>1. h = g
    BY <1>3 DEF Remember
  <2>2. QED
    BY <2>1, <1>1, <1>3
<1>4. CASE run \notin g.seenIndex.ids /\ Len(grown) > SeenCap
  <2>1. h = [g EXCEPT !.mem.seenRuns = Newest(grown, SeenCap), !.seenIndex = Unbuilt]
    BY <1>4 DEF Remember
  <2>2. Newest(grown, SeenCap) \in Seq(Runs)
    BY <1>2, NewestFacts
  <2>3. /\ h.mem = [f.mem EXCEPT !.seenRuns = Newest(grown, SeenCap)]
        /\ h.disk = f.disk
        /\ h.cooldown = f.cooldown
        /\ h.pending = f.pending
        /\ h.seenIndex = Unbuilt
    BY <2>1, <1>1 DEF FeedType
  <2>4. /\ h.mem \in FileShape
        /\ h.mem.entries = f.mem.entries
        /\ h.mem.seenRuns = Newest(Append(f.mem.seenRuns, run), SeenCap)
    BY <2>2, <2>3, <1>2, <1>1 DEF FileShape
  <2>5. h \in FeedType
    <3>1. Unbuilt \in Index
      BY DEF Unbuilt, Index
    <3>2. h = [g EXCEPT !.mem = h.mem, !.seenIndex = Unbuilt]
      BY <2>1, <1>1 DEF FeedType
    <3>3. QED
      BY <3>1, <3>2, <2>4, <1>1 DEF FeedType
  <2>6. Exact(h)
    BY <2>3 DEF Exact, Unbuilt
  <2>7. QED
    BY <2>3, <2>4, <2>5, <2>6, <1>4, <1>1
<1>5. CASE run \notin g.seenIndex.ids /\ ~(Len(grown) > SeenCap)
  <2>1. h = [g EXCEPT !.mem.seenRuns = grown, !.seenIndex.ids = g.seenIndex.ids \cup {run}]
    BY <1>5 DEF Remember
  <2>2. Newest(Append(f.mem.seenRuns, run), SeenCap) = grown
    BY <1>5, <1>1 DEF Newest
  <2>3. /\ h.mem = [f.mem EXCEPT !.seenRuns = grown]
        /\ h.disk = f.disk
        /\ h.cooldown = f.cooldown
        /\ h.pending = f.pending
        /\ h.seenIndex = [g.seenIndex EXCEPT !.ids = g.seenIndex.ids \cup {run}]
    BY <2>1, <1>1 DEF FeedType
  <2>4. /\ h.mem \in FileShape
        /\ h.mem.entries = f.mem.entries
        /\ h.mem.seenRuns = grown
    BY <2>3, <1>2, <1>1 DEF FileShape
  <2>5. /\ h.seenIndex \in Index
        /\ h.seenIndex.ids = Elements(f.mem.seenRuns) \cup {run}
    BY <2>3, <1>1 DEF FeedType, Index
  <2>6. h \in FeedType
    <3>1. h = [g EXCEPT !.mem = h.mem, !.seenIndex = h.seenIndex]
      BY <2>1, <1>1 DEF FeedType
    <3>2. QED
      BY <3>1, <2>4, <2>5, <1>1 DEF FeedType
  <2>7. Exact(h)
    <3>1. Elements(grown) = Elements(f.mem.seenRuns) \cup {run}
      BY ElementsOfAppend, <1>2, <1>1
    <3>2. QED
      BY <3>1, <2>4, <2>5 DEF Exact
  <2>8. QED
    BY <2>2, <2>3, <2>4, <2>6, <2>7, <1>5, <1>1
<1>6. QED
  BY <1>3, <1>4, <1>5

\* Adopting a run keeps the file sound while no row reports a run.
LEMMA MarkRunSeenKeeps ==
  ASSUME NEW f, Sound(f), Owed(f), ShowsNoRun(f.mem),
         NEW run \in Runs, NEW ok \in BOOLEAN
  PROVE  /\ Sound(MarkRunSeen(f, run, ok))
         /\ Owed(MarkRunSeen(f, run, ok))
         /\ ShowsNoRun(MarkRunSeen(f, run, ok).mem)
<1>1. f \in FeedType /\ Exact(f) /\ Tracked(f.mem) /\ Tracked(f.disk)
  BY DEF Sound
<1>2. CASE HasRun(f, run)
  <2>1. MarkRunSeen(f, run, ok) = Indexed(f)
    BY <1>2 DEF MarkRunSeen
  <2> DEFINE g == Indexed(f)
  <2>2. /\ g \in FeedType
        /\ Exact(g)
        /\ g.mem = f.mem
        /\ g.disk = f.disk
        /\ g.cooldown = f.cooldown
        /\ g.pending = f.pending
        /\ g.stale = f.stale
    BY <1>1, IndexedKeeps
  <2>3. Sound(g) /\ Owed(g) /\ ShowsNoRun(g.mem)
    BY <2>2, <1>1 DEF Sound, Owed
  <2>4. QED
    BY <2>1, <2>3
<1>3. CASE ~HasRun(f, run)
  <2> DEFINE h == Remember(f, run)
  <2>1. MarkRunSeen(f, run, ok) = Persist(h, ok)
    BY <1>3 DEF MarkRunSeen
  <2>2. /\ h \in FeedType
        /\ Exact(h)
        /\ h.disk = f.disk
        /\ h.cooldown = f.cooldown
        /\ h.pending = f.pending
        /\ h.mem.entries = f.mem.entries
        /\ h.mem.seenRuns = Newest(Append(f.mem.seenRuns, run), SeenCap)
    BY RememberFacts, HasRunMeans, <1>1, <1>3 DEF Tracked
  <2>3. Len(h.mem.seenRuns) <= SeenCap
    <3>1. f.mem.seenRuns \in Seq(Runs) /\ SeenCap \in Nat
      BY <1>1, FeedAssumption DEF FeedType, FileShape
    <3>2. Append(f.mem.seenRuns, run) \in Seq(Runs)
      BY <3>1
    <3>3. Len(Newest(Append(f.mem.seenRuns, run), SeenCap)) <= SeenCap
      <4> DEFINE s == Append(f.mem.seenRuns, run)
      <4>1. Len(Newest(s, SeenCap)) = IF Len(s) > SeenCap THEN SeenCap ELSE Len(s)
        BY <3>1, <3>2, NewestFacts
      <4>2. QED
        BY <4>1, <3>1, <3>2
    <3>4. QED
      BY <3>3, <2>2
  <2>4. ShowsNoRun(h.mem)
    BY <2>2 DEF ShowsNoRun
  <2>5. Tracked(h.mem)
    BY <2>2, <2>3, <2>4, <1>1 DEF Tracked, ShowsNoRun
  <2>6. Sound(h)
    BY <2>2, <2>5, <1>1 DEF Sound
  <2>7. QED
    BY <2>1, <2>6, <2>4, PersistKeeps
<1>4. QED
  BY <1>2, <1>3

-----------------------------------------------------------------------------
(* Rows. *)

\* The arithmetic of the two windows: a row pushed with the run it reports keeps
\* every other row's run inside the memory.
LEMMA PushKeepsTracked ==
  ASSUME NEW old \in FileShape, Tracked(old),
         NEW new \in FileShape,
         NEW row \in Row,
         new.entries = Newest(Append(old.entries, row), MaxEntries),
         \/ row.run = NoRun /\ new.seenRuns = old.seenRuns
         \/ /\ row.run # NoRun
            /\ row.run \notin Elements(old.seenRuns)
            /\ new.seenRuns = Newest(Append(old.seenRuns, row.run), SeenCap)
  PROVE  Tracked(new)
<1> DEFINE n == Len(old.entries)
           m == Len(old.seenRuns)
           rows == Append(old.entries, row)
           N == Len(new.entries)
           M == Len(new.seenRuns)
           d == n + 1 - N
<1>1. /\ old.entries \in Seq(Row) /\ old.seenRuns \in Seq(Runs)
      /\ new.entries \in Seq(Row) /\ new.seenRuns \in Seq(Runs)
      /\ n \in Nat /\ m \in Nat /\ N \in Nat /\ M \in Nat
      /\ MaxEntries \in Nat /\ MaxEntries >= 1 /\ SeenCap \in Nat /\ SeenCap >= MaxEntries
      /\ row.run \in Runs \cup {NoRun}
      /\ n <= MaxEntries /\ m <= SeenCap
  BY FeedAssumption DEF FileShape, Tracked, Row
<1>2. /\ rows \in Seq(Row)
      /\ Len(rows) = n + 1
      /\ rows[n + 1] = row
      /\ \A i \in 1..n : rows[i] = old.entries[i]
  BY <1>1
<1>3. /\ N = IF n + 1 > MaxEntries THEN MaxEntries ELSE n + 1
      /\ \A i \in 1..N : new.entries[i] = rows[i + d]
  <2> HIDE DEF rows
  <2>1. /\ Len(Newest(rows, MaxEntries)) = IF Len(rows) > MaxEntries THEN MaxEntries ELSE Len(rows)
        /\ \A i \in 1..Len(Newest(rows, MaxEntries)) :
             Newest(rows, MaxEntries)[i] = rows[i + (Len(rows) - Len(Newest(rows, MaxEntries)))]
    BY <1>1, <1>2, NewestFacts
  <2>2. new.entries = Newest(rows, MaxEntries)
    BY DEF rows
  <2>3. QED
    BY <1>2, <2>1, <2>2
<1>4. d \in {0, 1} /\ N >= 1 /\ N <= MaxEntries /\ N + d = n + 1
  BY <1>1, <1>3
<1>a. /\ \A i \in 1..n : old.entries[i].run # NoRun =>
           \E p \in 1..m : old.seenRuns[p] = old.entries[i].run /\ m - p <= n - i
      /\ \A i, j \in 1..n :
           old.entries[i].run = old.entries[j].run => i = j \/ old.entries[i].run = NoRun
  BY DEF Tracked
<1>b. CASE /\ N <= MaxEntries
           /\ M <= SeenCap
           /\ \A i \in 1..N : new.entries[i].run # NoRun =>
                \E p \in 1..M : new.seenRuns[p] = new.entries[i].run /\ M - p <= N - i
           /\ \A i, j \in 1..N :
                new.entries[i].run = new.entries[j].run => i = j \/ new.entries[i].run = NoRun
  BY <1>b DEF Tracked
<1>c. Elements(old.seenRuns) = {old.seenRuns[p] : p \in 1..m}
  BY DEF Elements
<1> DEFINE c == m + 1 - M
<1>e. ASSUME new.seenRuns = Newest(Append(old.seenRuns, row.run), SeenCap), row.run # NoRun
      PROVE  /\ c \in {0, 1} /\ M >= 1 /\ M <= SeenCap /\ M + c = m + 1
             /\ c = 1 => m = SeenCap
             /\ new.seenRuns[M] = row.run
             /\ \A p \in 1..M : p + c \in 1..m => new.seenRuns[p] = old.seenRuns[p + c]
  <2> DEFINE ids == Append(old.seenRuns, row.run)
  <2>1. /\ ids \in Seq(Runs)
        /\ Len(ids) = m + 1
        /\ ids[m + 1] = row.run
        /\ \A p \in 1..m : ids[p] = old.seenRuns[p]
    BY <1>1, <1>e
  <2>2. /\ M = IF m + 1 > SeenCap THEN SeenCap ELSE m + 1
        /\ \A p \in 1..M : new.seenRuns[p] = ids[p + (m + 1 - M)]
    <3>1. new.seenRuns = Newest(ids, SeenCap)
      BY <1>e
    <3> HIDE DEF ids
    <3>2. /\ Len(Newest(ids, SeenCap)) = IF Len(ids) > SeenCap THEN SeenCap ELSE Len(ids)
          /\ \A p \in 1..Len(Newest(ids, SeenCap)) :
               Newest(ids, SeenCap)[p] = ids[p + (Len(ids) - Len(Newest(ids, SeenCap)))]
      BY <2>1, <1>1, NewestFacts
    <3>3. QED
      BY <2>1, <3>1, <3>2
  <2> HIDE DEF m, M, ids
  <2>3. c \in {0, 1} /\ M >= 1 /\ M <= SeenCap /\ M + c = m + 1 /\ (c = 1 => m = SeenCap)
    BY <2>2, <1>1
  <2>4. new.seenRuns[M] = row.run
    BY <2>1, <2>2, <2>3, <1>1
  <2>5. ASSUME NEW p \in 1..M, p + c \in 1..m PROVE new.seenRuns[p] = old.seenRuns[p + c]
    BY <2>1, <2>2, <2>5
  <2>6. QED
    BY <2>3, <2>4, <2>5
<1> HIDE DEF n, m, N, M, d, c
<1>5. \A i \in 1..N : \/ i = N /\ new.entries[i] = row
                      \/ /\ i < N
                         /\ i + d \in 1..n
                         /\ new.entries[i] = old.entries[i + d]
  <2> TAKE i \in 1..N
  <2>1. CASE i = N
    <3>1. i + d = n + 1
      BY <2>1, <1>4
    <3>2. QED
      BY <2>1, <3>1, <1>2, <1>3
  <2>2. CASE i < N
    <3>1. i + d \in 1..n
      BY <2>2, <1>1, <1>4
    <3>2. QED
      BY <3>1, <2>2, <1>2, <1>3
  <2>3. QED
    BY <2>1, <2>2, <1>1
<1>7. CASE row.run = NoRun /\ new.seenRuns = old.seenRuns
  <2>1. ASSUME NEW i \in 1..N, new.entries[i].run # NoRun
        PROVE  \E p \in 1..M : new.seenRuns[p] = new.entries[i].run /\ M - p <= N - i
    <3>1. i + d \in 1..n /\ new.entries[i] = old.entries[i + d]
      BY <2>1, <1>5, <1>7
    <3>2. PICK p \in 1..m : old.seenRuns[p] = old.entries[i + d].run /\ m - p <= n - (i + d)
      BY <3>1, <2>1, <1>a
    <3>3. m - p <= N - i
      BY <3>2, <1>1, <1>4
    <3>4. M = m
      BY <1>7 DEF m, M
    <3>5. QED
      BY <3>1, <3>2, <3>3, <3>4, <1>7
  <2>2. ASSUME NEW i \in 1..N, NEW j \in 1..N, new.entries[i].run = new.entries[j].run
        PROVE  i = j \/ new.entries[i].run = NoRun
    <3>1. SUFFICES ASSUME new.entries[i].run # NoRun PROVE i = j
      OBVIOUS
    <3>2. /\ i + d \in 1..n /\ new.entries[i] = old.entries[i + d]
          /\ j + d \in 1..n /\ new.entries[j] = old.entries[j + d]
      BY <2>2, <3>1, <1>5, <1>7
    <3>3. i + d = j + d
      BY <3>1, <3>2, <2>2, <1>a
    <3>4. QED
      BY <3>3, <1>1, <1>4
  <2>3. M <= SeenCap
    BY <1>1, <1>7 DEF m, M
  <2>4. QED
    BY <2>1, <2>2, <2>3, <1>4, <1>b
<1>8. CASE /\ row.run # NoRun
           /\ row.run \notin Elements(old.seenRuns)
           /\ new.seenRuns = Newest(Append(old.seenRuns, row.run), SeenCap)
  <2>1. /\ c \in {0, 1} /\ M >= 1 /\ M <= SeenCap /\ M + c = m + 1
        /\ c = 1 => m = SeenCap
        /\ new.seenRuns[M] = row.run
        /\ \A p \in 1..M : p + c \in 1..m => new.seenRuns[p] = old.seenRuns[p + c]
    BY <1>8, <1>e
  <2>4. ASSUME NEW i \in 1..N, new.entries[i].run # NoRun
        PROVE  \E p \in 1..M : new.seenRuns[p] = new.entries[i].run /\ M - p <= N - i
    <3>1. CASE i = N /\ new.entries[i] = row
      <4>1. M \in 1..M /\ M - M <= N - i
        BY <2>1, <1>1, <3>1
      <4>2. QED
        BY <4>1, <2>1, <3>1
    <3>2. CASE i < N /\ i + d \in 1..n /\ new.entries[i] = old.entries[i + d]
      <4>1. PICK p \in 1..m : old.seenRuns[p] = old.entries[i + d].run /\ m - p <= n - (i + d)
        BY <3>2, <2>4, <1>a
      <4>2. p - c \in 1..M
        <5>1. p # 1 \/ c = 0
          BY <4>1, <3>2, <2>1, <1>1, <1>4
        <5>2. QED
          BY <5>1, <2>1, <1>1
      <4>3. new.seenRuns[p - c] = old.seenRuns[p]
        BY <4>2, <2>1, <1>1
      <4>4. M - (p - c) <= N - i
        BY <4>1, <1>1, <1>4, <2>1
      <4>5. QED
        BY <4>1, <4>2, <4>3, <4>4, <3>2
    <3>3. QED
      BY <3>1, <3>2, <1>5
  <2>5. \A i \in 1..n : old.entries[i].run # row.run
    <3> TAKE i \in 1..n
    <3>1. CASE old.entries[i].run = NoRun
      BY <3>1, <1>8
    <3>2. CASE old.entries[i].run # NoRun
      <4>1. PICK p \in 1..m : old.seenRuns[p] = old.entries[i].run
        BY <3>2, <1>a
      <4>2. QED
        BY <4>1, <1>8, <1>c
    <3>3. QED
      BY <3>1, <3>2
  <2>6. ASSUME NEW i \in 1..N, NEW j \in 1..N, new.entries[i].run = new.entries[j].run
        PROVE  i = j \/ new.entries[i].run = NoRun
    <3>1. CASE i = N \/ j = N
      BY <3>1, <2>5, <2>6, <1>5
    <3>2. CASE i < N /\ j < N
      <4>1. /\ i + d \in 1..n /\ new.entries[i] = old.entries[i + d]
            /\ j + d \in 1..n /\ new.entries[j] = old.entries[j + d]
        BY <3>2, <1>5
      <4>2. i + d = j + d \/ new.entries[i].run = NoRun
        BY <4>1, <2>6, <1>a
      <4>3. QED
        BY <4>1, <4>2, <1>1, <1>4
    <3>3. QED
      BY <3>1, <3>2, <1>1
  <2>7. QED
    BY <2>1, <2>4, <2>6, <1>4, <1>b
<1>9. QED
  BY <1>7, <1>8

LEMMA AppendEntryKeeps ==
  ASSUME NEW f, Sound(f), NEW row \in Row, NEW ok \in BOOLEAN,
         row.run # NoRun => ~HasRun(f, row.run)
  PROVE  /\ Sound(AppendEntry(f, row, ok))
         /\ Owed(AppendEntry(f, row, ok))
         /\ row.run = NoRun /\ ShowsNoRun(f.mem) => ShowsNoRun(AppendEntry(f, row, ok).mem)
<1> DEFINE rows == Append(f.mem.entries, row)
           g == [f EXCEPT !.mem.entries = Newest(rows, MaxEntries)]
           h == IF row.run = NoRun THEN g ELSE Remember(g, row.run)
<1>1. f \in FeedType /\ Exact(f) /\ Tracked(f.mem) /\ Tracked(f.disk)
  BY DEF Sound
<1>2. /\ f.mem \in FileShape
      /\ f.mem.entries \in Seq(Row)
      /\ f.mem.seenRuns \in Seq(Runs)
      /\ MaxEntries \in Nat
      /\ rows \in Seq(Row)
  BY <1>1, FeedAssumption DEF FeedType, FileShape
<1>3. /\ g.mem = [f.mem EXCEPT !.entries = Newest(rows, MaxEntries)]
      /\ g.disk = f.disk
      /\ g.seenIndex = f.seenIndex
      /\ g.cooldown = f.cooldown
      /\ g.pending = f.pending
  BY <1>1 DEF FeedType
<1>4. Newest(rows, MaxEntries) \in Seq(Row)
  BY <1>2, NewestFacts
<1>5. /\ g.mem \in FileShape
      /\ g.mem.entries = Newest(rows, MaxEntries)
      /\ g.mem.seenRuns = f.mem.seenRuns
  BY <1>2, <1>3, <1>4 DEF FileShape
<1>6. g \in FeedType
  <2>1. g = [f EXCEPT !.mem = g.mem]
    BY <1>1, <1>3 DEF FeedType
  <2>2. QED
    BY <2>1, <1>5, <1>1 DEF FeedType
<1>7. Exact(g)
  BY <1>1, <1>3, <1>5 DEF Exact
<1>8. /\ h \in FeedType
      /\ Exact(h)
      /\ h.disk = f.disk
      /\ h.cooldown = f.cooldown
      /\ h.pending = f.pending
      /\ h.mem.entries = Newest(rows, MaxEntries)
      /\ \/ row.run = NoRun /\ h.mem.seenRuns = f.mem.seenRuns
         \/ /\ row.run # NoRun
            /\ row.run \notin Elements(f.mem.seenRuns)
            /\ h.mem.seenRuns = Newest(Append(f.mem.seenRuns, row.run), SeenCap)
  <2>1. CASE row.run = NoRun
    <3>1. h = g
      BY <2>1
    <3>2. QED
      BY <3>1, <2>1, <1>3, <1>5, <1>6, <1>7
  <2>2. CASE row.run # NoRun
    <3>1. h = Remember(g, row.run)
      BY <2>2
    <3>2. row.run \in Runs /\ Len(g.mem.seenRuns) <= SeenCap
      BY <2>2, <1>1, <1>5 DEF Row, Tracked
    <3>3. row.run \notin Elements(f.mem.seenRuns)
      BY <2>2, <1>1, HasRunMeans
    <3>4. /\ h \in FeedType
          /\ Exact(h)
          /\ h.disk = g.disk
          /\ h.cooldown = g.cooldown
          /\ h.pending = g.pending
          /\ h.mem.entries = g.mem.entries
          /\ h.mem.seenRuns = Newest(Append(g.mem.seenRuns, row.run), SeenCap)
      <4> HIDE DEF g
      <4>1. Len(g.mem.seenRuns) <= SeenCap /\ row.run \notin Elements(g.mem.seenRuns)
        BY <3>2, <3>3, <1>5
      <4>2. QED
        BY <4>1, <3>1, <3>2, <1>6, <1>7, RememberFacts
    <3>5. QED
      BY <3>3, <3>4, <2>2, <1>3, <1>5
  <2>3. QED
    BY <2>1, <2>2
<1>9. Tracked(h.mem)
  <2>1. h.mem \in FileShape
    BY <1>8 DEF FeedType
  <2>2. QED
    BY <2>1, <1>1, <1>2, <1>8, PushKeepsTracked
<1>10. Sound(h)
  BY <1>1, <1>8, <1>9 DEF Sound
<1>11. AppendEntry(f, row, ok) = Persist(h, ok)
  BY DEF AppendEntry
<1>12. ASSUME row.run = NoRun, ShowsNoRun(f.mem) PROVE ShowsNoRun(h.mem)
  <2>1. /\ \A i \in 1..Len(rows) : rows[i].run = NoRun
        /\ Len(rows) \in Nat
    BY <1>2, <1>12 DEF ShowsNoRun
  <2> DEFINE left == Newest(rows, MaxEntries)
  <2>2. /\ Len(left) = IF Len(rows) > MaxEntries THEN MaxEntries ELSE Len(rows)
        /\ \A i \in 1..Len(left) : left[i] = rows[i + (Len(rows) - Len(left))]
    BY <1>2, NewestFacts
  <2>3. \A i \in 1..Len(left) : left[i].run = NoRun
    <3> HIDE DEF rows, h, left
    <3> SUFFICES ASSUME NEW i \in 1..Len(left) PROVE left[i].run = NoRun
      OBVIOUS
    <3>1. left[i] = rows[i + (Len(rows) - Len(left))]
      BY <2>2
    <3>2. Len(left) \in Nat /\ Len(left) <= Len(rows)
      BY <2>1, <2>2, <1>2
    <3>3. i + (Len(rows) - Len(left)) \in 1..Len(rows)
      BY <3>2, <2>1
    <3>4. QED
      BY <3>1, <3>3, <2>1
  <2>4. QED
    BY <2>3, <1>8 DEF ShowsNoRun
<1>13. QED
  BY <1>10, <1>11, <1>12, PersistKeeps

\* appendUpdate: the collapsed row reports no run, and the rows before it stay.
LEMMA AppendUpdateKeeps ==
  ASSUME NEW f, Sound(f), NEW row \in Row, row.run = NoRun, NEW ok \in BOOLEAN
  PROVE  /\ Sound(AppendUpdate(f, row, ok))
         /\ Owed(AppendUpdate(f, row, ok))
         /\ ShowsNoRun(f.mem) => ShowsNoRun(AppendUpdate(f, row, ok).mem)
<1> DEFINE n == Len(f.mem.entries)
           rows == [f.mem.entries EXCEPT ![n] = row]
           g == [f EXCEPT !.mem.entries = rows]
<1>1. f \in FeedType /\ Exact(f) /\ Tracked(f.mem) /\ Tracked(f.disk)
  BY DEF Sound
<1>2. /\ f.mem \in FileShape
      /\ f.mem.entries \in Seq(Row)
      /\ n \in Nat
  BY <1>1 DEF FeedType, FileShape
<1>3. CASE Collapses(f, row)
  <2>1. n > 0 /\ AppendUpdate(f, row, ok) = Persist(g, ok)
    BY <1>3 DEF Collapses, AppendUpdate
  <2>2. /\ rows \in Seq(Row)
        /\ Len(rows) = n
        /\ \A i \in 1..n : rows[i] = IF i = n THEN row ELSE f.mem.entries[i]
    BY <1>2, <2>1
  <2>3. /\ g.mem = [f.mem EXCEPT !.entries = rows]
        /\ g.disk = f.disk
        /\ g.seenIndex = f.seenIndex
        /\ g.cooldown = f.cooldown
        /\ g.pending = f.pending
    BY <1>1 DEF FeedType
  <2>4. /\ g.mem \in FileShape
        /\ g.mem.entries = rows
        /\ g.mem.seenRuns = f.mem.seenRuns
    <3> HIDE DEF g, rows
    <3>1. g.mem = [f.mem EXCEPT !.entries = rows] /\ rows \in Seq(Row)
      BY <2>2, <2>3
    <3>2. QED
      BY <1>2, <3>1 DEF FileShape
  <2>5. g \in FeedType
    <3>1. g = [f EXCEPT !.mem = g.mem]
      BY <1>1, <2>3 DEF FeedType
    <3>2. QED
      BY <3>1, <2>4, <1>1 DEF FeedType
  <2> HIDE DEF g, rows
  <2>6. Tracked(g.mem)
    BY <1>1, <2>2, <2>4 DEF Tracked
  <2>7. Sound(g)
    BY <1>1, <2>3, <2>4, <2>5, <2>6 DEF Sound, Exact
  <2>8. ShowsNoRun(f.mem) => ShowsNoRun(g.mem)
    BY <2>2, <2>4 DEF ShowsNoRun
  <2>9. QED
    BY <2>1, <2>7, <2>8, PersistKeeps
<1>4. CASE ~Collapses(f, row)
  <2>1. AppendUpdate(f, row, ok) = AppendEntry(f, row, ok)
    BY <1>4 DEF AppendUpdate
  <2>2. QED
    BY <2>1, AppendEntryKeeps
<1>5. QED
  BY <1>3, <1>4

\* A change of the other stored fields.
LEMMA OtherFieldsKeep ==
  ASSUME NEW f, Sound(f), NEW g, g \in FeedType,
         g.mem.entries = f.mem.entries, g.mem.seenRuns = f.mem.seenRuns,
         g.disk = f.disk, g.seenIndex = f.seenIndex,
         g.cooldown = f.cooldown, g.pending = f.pending,
         NEW ok \in BOOLEAN
  PROVE  /\ Sound(Persist(g, ok))
         /\ Owed(Persist(g, ok))
         /\ ShowsNoRun(f.mem) => ShowsNoRun(Persist(g, ok).mem)
<1>1. Sound(g)
  BY DEF Sound, Exact, Tracked
<1>2. ShowsNoRun(f.mem) => ShowsNoRun(g.mem)
  BY DEF ShowsNoRun
<1>3. QED
  BY <1>1, <1>2, PersistKeeps

LEMMA MarkSeededKeeps ==
  ASSUME NEW f, Sound(f), Owed(f), NEW ok \in BOOLEAN
  PROVE  /\ Sound(MarkSeeded(f, ok))
         /\ Owed(MarkSeeded(f, ok))
         /\ ShowsNoRun(f.mem) => ShowsNoRun(MarkSeeded(f, ok).mem)
<1> DEFINE g == [f EXCEPT !.mem.seeded = TRUE]
<1>1. f \in FeedType
  BY DEF Sound
<1>2. /\ g \in FeedType
      /\ g.mem.entries = f.mem.entries /\ g.mem.seenRuns = f.mem.seenRuns
      /\ g.disk = f.disk /\ g.seenIndex = f.seenIndex
      /\ g.cooldown = f.cooldown /\ g.pending = f.pending
  BY <1>1 DEF FeedType, FileShape
<1> HIDE DEF g
<1>3. QED
  BY <1>2, OtherFieldsKeep DEF MarkSeeded, g

LEMMA SetWatermarkKeeps ==
  ASSUME NEW f, Sound(f), Owed(f), NEW ok \in BOOLEAN,
         NEW key \in Keys, NEW value \in Values \cup {NoMark}
  PROVE  /\ Sound(SetWatermark(f, key, value, ok))
         /\ Owed(SetWatermark(f, key, value, ok))
         /\ ShowsNoRun(f.mem) => ShowsNoRun(SetWatermark(f, key, value, ok).mem)
<1> DEFINE marks == [f.mem.watermarks EXCEPT ![key] = value]
           g == [f EXCEPT !.mem.watermarks = marks]
<1>1. f \in FeedType
  BY DEF Sound
<1>2. marks \in [Keys -> Values \cup {NoMark}]
  BY <1>1 DEF FeedType, FileShape
<1>3. /\ g \in FeedType
      /\ g.mem.entries = f.mem.entries /\ g.mem.seenRuns = f.mem.seenRuns
      /\ g.disk = f.disk /\ g.seenIndex = f.seenIndex
      /\ g.cooldown = f.cooldown /\ g.pending = f.pending
  <2> HIDE DEF marks
  <2>1. QED
    BY <1>1, <1>2 DEF FeedType, FileShape
<1>4. CASE f.mem.watermarks[key] = value
  BY <1>4 DEF SetWatermark
<1>5. CASE f.mem.watermarks[key] # value
  <2>1. SetWatermark(f, key, value, ok) = Persist(g, ok)
    BY <1>5 DEF SetWatermark
  <2> HIDE DEF g
  <2>2. QED
    BY <2>1, <1>3, OtherFieldsKeep
<1>6. QED
  BY <1>4, <1>5

LEMMA PruneWatermarksKeeps ==
  ASSUME NEW f, Sound(f), Owed(f), NEW ok \in BOOLEAN, NEW keys, NEW keep
  PROVE  /\ Sound(PruneWatermarks(f, keys, keep, ok))
         /\ Owed(PruneWatermarks(f, keys, keep, ok))
         /\ ShowsNoRun(f.mem) => ShowsNoRun(PruneWatermarks(f, keys, keep, ok).mem)
<1> DEFINE gone == {k \in keys \ keep : f.mem.watermarks[k] # NoMark}
           kept == [k \in Keys |-> IF k \in gone THEN NoMark ELSE f.mem.watermarks[k]]
           g == [f EXCEPT !.mem.watermarks = kept]
<1>1. f \in FeedType
  BY DEF Sound
<1>2. kept \in [Keys -> Values \cup {NoMark}]
  BY <1>1 DEF FeedType, FileShape
<1>3. /\ g \in FeedType
      /\ g.mem.entries = f.mem.entries /\ g.mem.seenRuns = f.mem.seenRuns
      /\ g.disk = f.disk /\ g.seenIndex = f.seenIndex
      /\ g.cooldown = f.cooldown /\ g.pending = f.pending
  <2> HIDE DEF kept
  <2>1. QED
    BY <1>1, <1>2 DEF FeedType, FileShape
<1>4. CASE gone = {}
  BY <1>4 DEF PruneWatermarks
<1>5. CASE gone # {}
  <2>1. PruneWatermarks(f, keys, keep, ok) = Persist(g, ok)
    BY <1>5 DEF PruneWatermarks
  <2> HIDE DEF g
  <2>2. QED
    BY <2>1, <1>3, OtherFieldsKeep
<1>6. QED
  BY <1>4, <1>5

-----------------------------------------------------------------------------
(* markRead needs the latest row to exist. *)

LEMMA MaxExists ==
  ASSUME NEW S \in SUBSET Nat, IsFiniteSet(S), S # {}
  PROVE  \E a \in S : \A b \in S : b <= a
<1> DEFINE above(b) == {a \in S : a > b}
           T == {above(b) : b \in S}
<1>1. T \subseteq FiniteSubsetsOf(S) /\ T # {}
  <2>1. ASSUME NEW x \in T PROVE x \in SUBSET S /\ IsFiniteSet(x)
    BY FS_Subset
  <2>2. PICK b \in S : TRUE
    OBVIOUS
  <2>3. above(b) \in T
    OBVIOUS
  <2>4. QED
    BY <2>1, <2>3 DEF FiniteSubsetsOf
<1>2. IsWellFoundedOn(StrictSubsetOrdering(S), FiniteSubsetsOf(S))
  BY FS_StrictSubsetOrderingWellFounded
<1>3. PICK x \in T : \A y \in T : <<y, x>> \notin StrictSubsetOrdering(S)
  BY <1>1, <1>2, WFMin
<1>4. PICK a \in S : x = above(a)
  BY <1>3
<1>5. above(a) = {}
  <2>1. SUFFICES ASSUME NEW c \in above(a) PROVE FALSE
    OBVIOUS
  <2>2. above(c) \subseteq above(a) /\ above(c) # above(a)
    <3>1. c \in S /\ c > a /\ a \in Nat /\ c \in Nat
      BY <2>1
    <3>2. ASSUME NEW e \in above(c) PROVE e \in above(a)
      <4>1. e \in S /\ e \in Nat /\ e > c
        OBVIOUS
      <4>2. e > a
        BY <3>1, <4>1
      <4>3. QED
        BY <4>1, <4>2
    <3>3. c \notin above(c)
      BY <3>1
    <3>4. QED
      BY <2>1, <3>2, <3>3
  <2>3. c \in S /\ above(c) \in T
    BY <2>1
  <2>4. <<above(c), above(a)>> \in StrictSubsetOrdering(S)
    BY <2>2 DEF StrictSubsetOrdering
  <2>5. QED
    BY <2>3, <2>4, <1>3, <1>4
<1>6. QED
  BY <1>5

LEMMA NewestAtIsNat ==
  ASSUME NEW f, f \in FeedType
  PROVE  NewestAt(f) \in Nat
<1> DEFINE n == Len(f.mem.entries)
           ats == {f.mem.entries[i].at : i \in 1..n}
<1>1. CASE f.mem.entries = << >>
  BY <1>1 DEF NewestAt
<1>2. CASE f.mem.entries # << >>
  <2>1. f.mem.entries \in Seq(Row) /\ n \in Nat /\ n >= 1
    BY <1>2 DEF FeedType, FileShape
  <2>2. \A i \in 1..n : f.mem.entries[i].at \in Nat
    <3>1. \A i \in 1..n : f.mem.entries[i] \in Row
      BY <2>1
    <3>2. QED
      BY <3>1 DEF Row
  <2>a. ats \in SUBSET Nat /\ ats # {}
    <3>1. 1 \in 1..n
      BY <2>1
    <3>2. f.mem.entries[1].at \in ats
      BY <3>1
    <3>3. QED
      BY <2>2, <3>2
  <2>3. IsFiniteSet(ats)
    <3> DEFINE at == [i \in 1..n |-> f.mem.entries[i].at]
    <3>1. IsFiniteSet(1..n)
      BY <2>1, FS_Interval
    <3>2. at \in Surjection(1..n, ats)
      <4>1. at \in [1..n -> ats]
        OBVIOUS
      <4>2. \A t \in ats : \E i \in 1..n : at[i] = t
        OBVIOUS
      <4>3. QED
        BY <4>1, <4>2 DEF Surjection
    <3> HIDE DEF at, ats
    <3>3. QED
      BY <3>1, <3>2, FS_Surjection
  <2>4. \E a \in ats : \A b \in ats : b <= a
    BY <2>a, <2>3, MaxExists
  <2>5. NewestAt(f) = CHOOSE a \in ats : \A b \in ats : b <= a
    BY <1>2 DEF NewestAt
  <2>6. QED
    BY <2>a, <2>4, <2>5
<1>3. QED
  BY <1>1, <1>2

LEMMA MarkReadKeeps ==
  ASSUME NEW f, Sound(f), Owed(f), NEW ok \in BOOLEAN
  PROVE  /\ Sound(MarkRead(f, ok))
         /\ Owed(MarkRead(f, ok))
         /\ ShowsNoRun(f.mem) => ShowsNoRun(MarkRead(f, ok).mem)
<1> DEFINE g == [f EXCEPT !.mem.lastReadAt = NewestAt(f)]
<1>1. f \in FeedType
  BY DEF Sound
<1>2. NewestAt(f) \in Nat
  BY <1>1, NewestAtIsNat
<1>3. /\ g \in FeedType
      /\ g.mem.entries = f.mem.entries /\ g.mem.seenRuns = f.mem.seenRuns
      /\ g.disk = f.disk /\ g.seenIndex = f.seenIndex
      /\ g.cooldown = f.cooldown /\ g.pending = f.pending
  BY <1>1, <1>2 DEF FeedType, FileShape
<1> HIDE DEF g
<1>4. QED
  BY <1>3, OtherFieldsKeep DEF MarkRead, g

LEMMA ClearEntriesKeeps ==
  ASSUME NEW f, Sound(f), Owed(f), NEW ok \in BOOLEAN
  PROVE  /\ Sound(ClearEntries(f, ok))
         /\ Owed(ClearEntries(f, ok))
         /\ ShowsNoRun(f.mem) => ShowsNoRun(ClearEntries(f, ok).mem)
<1> DEFINE g == [f EXCEPT !.mem.entries = << >>]
<1>1. f \in FeedType /\ Exact(f) /\ Tracked(f.mem) /\ Tracked(f.disk)
  BY DEF Sound
<1>2. /\ g \in FeedType
      /\ g.mem.entries = << >> /\ g.mem.seenRuns = f.mem.seenRuns
      /\ g.disk = f.disk /\ g.seenIndex = f.seenIndex
      /\ g.cooldown = f.cooldown /\ g.pending = f.pending
  <2>1. << >> \in Seq(Row)
    OBVIOUS
  <2>2. g.mem = [f.mem EXCEPT !.entries = << >>]
    BY <1>1 DEF FeedType
  <2>3. g.mem \in FileShape /\ g.mem.entries = << >> /\ g.mem.seenRuns = f.mem.seenRuns
    BY <1>1, <2>1, <2>2 DEF FeedType, FileShape
  <2>4. g = [f EXCEPT !.mem = g.mem]
    BY <1>1, <2>2 DEF FeedType
  <2>5. QED
    BY <1>1, <2>3, <2>4 DEF FeedType
<1>3. Tracked(g.mem) /\ ShowsNoRun(g.mem)
  BY <1>1, <1>2, FeedAssumption DEF Tracked, ShowsNoRun
<1>4. Sound(g)
  BY <1>1, <1>2, <1>3 DEF Sound, Exact
<1> HIDE DEF g
<1>5. QED
  BY <1>3, <1>4, PersistKeeps DEF ClearEntries, g

-----------------------------------------------------------------------------
(* The specification. *)

\* A row's run is a remembered one.
LEMMA TrackedMeans ==
  ASSUME NEW file, Tracked(file), NEW i \in 1..Len(file.entries)
  PROVE  file.entries[i].run = NoRun \/ file.entries[i].run \in Elements(file.seenRuns)
  BY DEF Tracked, Elements

LEMMA InitFeedInv == FeedInit => FeedInv
<1> SUFFICES ASSUME FeedInit PROVE FeedInv
  OBVIOUS
<1>1. EmptyFile \in FileShape
  BY DEF EmptyFile, FileShape
<1>2. Tracked(EmptyFile)
  BY FeedAssumption DEF Tracked, EmptyFile
<1>3. Sound(feed) /\ Owed(feed)
  BY <1>1, <1>2, LoadedIsSound DEF FeedInit
<1>4. QED
  BY <1>3 DEF FeedInit, FeedInv

\* Every step keeps the inductive invariant, an action at a time.
LEMMA NextFeedInv == FeedInv /\ [FeedNext]_feedVars => FeedInv'
<1> SUFFICES ASSUME FeedInv, [FeedNext]_feedVars PROVE FeedInv'
  OBVIOUS
<1>0. /\ Sound(feed) /\ Owed(feed) /\ feed \in FeedType
      /\ pass \in {"none", "seeding", "reporting"}
      /\ now \in Nat
      /\ pass = "seeding" => ShowsNoRun(feed.mem)
      /\ WriteOutcomes \subseteq BOOLEAN
  BY FeedSpecAssumption DEF FeedInv, Sound
<1>1. CASE BeginPass
  <2>1. feed' = feed /\ now' = now
    BY <1>1 DEF BeginPass
  <2>2. pass' = "seeding" => feed.mem.seenRuns = << >>
    BY <1>1 DEF BeginPass, HasSeeded
  <2>3. Elements(<< >>) = {}
    BY DEF Elements
  <2>4. pass' = "seeding" => ShowsNoRun(feed.mem)
    BY <2>2, <2>3, <1>0, TrackedMeans DEF ShowsNoRun, Sound
  <2>5. pass' \in {"none", "seeding", "reporting"}
    BY <1>1 DEF BeginPass
  <2>6. QED
    BY <2>1, <2>4, <2>5, <1>0 DEF FeedInv
<1>2. ASSUME NEW run \in Runs, AdoptRun(run) PROVE FeedInv'
  <2>1. PICK ok \in WriteOutcomes : feed' = MarkRunSeen(feed, run, ok)
    BY <1>2 DEF AdoptRun
  <2>2. ok \in BOOLEAN /\ ShowsNoRun(feed.mem)
    BY <1>0, <1>2 DEF AdoptRun
  <2>3. Sound(feed') /\ Owed(feed') /\ ShowsNoRun(feed'.mem)
    BY <2>1, <2>2, <1>0, MarkRunSeenKeeps
  <2>4. pass' = pass /\ now' = now
    BY <1>2 DEF AdoptRun
  <2>5. QED
    BY <2>3, <2>4, <1>0 DEF FeedInv
<1>3. ASSUME NEW run \in Runs, AnnounceRun(run) PROVE FeedInv'
  <2>1. PICK ok \in WriteOutcomes, at \in 1..now :
          feed' = AppendEntry(feed, [run |-> run, topic |-> NoTopic, at |-> at], ok)
    BY <1>3 DEF AnnounceRun
  <2> DEFINE row == [run |-> run, topic |-> NoTopic, at |-> at]
  <2>2. row \in Row /\ ok \in BOOLEAN /\ row.run = run
    BY <1>0 DEF Row
  <2>3. ~HasRun(feed, run)
    BY <1>3 DEF AnnounceRun
  <2>4. Sound(feed') /\ Owed(feed')
    <3> HIDE DEF row
    <3>1. feed' = AppendEntry(feed, row, ok)
      BY <2>1 DEF row
    <3>2. row.run # NoRun => ~HasRun(feed, row.run)
      BY <2>2, <2>3
    <3>3. QED
      BY <3>1, <3>2, <2>2, <1>0, AppendEntryKeeps
  <2>5. pass = "reporting" /\ pass' = pass /\ now' = now
    BY <1>3 DEF AnnounceRun
  <2>6. QED
    BY <2>4, <2>5, <1>0 DEF FeedInv
<1>4. ASSUME NEW run \in Runs, SkipRun(run) PROVE FeedInv'
  <2>1. feed' = Indexed(feed) /\ pass' = pass /\ now' = now
    BY <1>4 DEF SkipRun
  <2> DEFINE g == Indexed(feed)
  <2>2. /\ g \in FeedType
        /\ Exact(g)
        /\ g.mem = feed.mem
        /\ g.disk = feed.disk
        /\ g.cooldown = feed.cooldown
        /\ g.pending = feed.pending
        /\ g.stale = feed.stale
    BY <1>0, IndexedKeeps DEF Sound
  <2>3. Sound(g) /\ Owed(g) /\ (pass = "seeding" => ShowsNoRun(g.mem))
    BY <2>2, <1>0 DEF Sound, Owed
  <2>4. QED
    BY <2>1, <2>3, <1>0 DEF FeedInv
<1>5. CASE EndPass
  <2>1. feed' = feed \/ \E ok \in WriteOutcomes : feed' = MarkSeeded(feed, ok)
    BY <1>5 DEF EndPass
  <2>2. Sound(feed') /\ Owed(feed')
    BY <2>1, <1>0, MarkSeededKeeps
  <2>3. pass' = "none" /\ now' = now
    BY <1>5 DEF EndPass
  <2>4. QED
    BY <2>2, <2>3, <1>0 DEF FeedInv
<1>6. ASSUME NEW topic \in Topics, ReportUpdate(topic) PROVE FeedInv'
  <2> DEFINE row == [run |-> NoRun, topic |-> topic, at |-> now]
  <2>1. PICK ok \in WriteOutcomes : feed' = AppendUpdate(feed, row, ok)
    BY <1>6 DEF ReportUpdate
  <2>2. row \in Row /\ row.run = NoRun /\ ok \in BOOLEAN
    BY <1>0 DEF Row
  <2>3. pass' = pass /\ now' = now
    BY <1>6 DEF ReportUpdate
  <2> HIDE DEF row
  <2>4. /\ Sound(feed') /\ Owed(feed')
        /\ ShowsNoRun(feed.mem) => ShowsNoRun(feed'.mem)
    BY <2>1, <2>2, <1>0, AppendUpdateKeeps
  <2>5. QED
    BY <2>3, <2>4, <1>0 DEF FeedInv
<1>7. ASSUME NEW key \in Keys, NEW value \in Values, Observe(key, value) PROVE FeedInv'
  <2>1. PICK ok \in WriteOutcomes : feed' = SetWatermark(feed, key, value, ok)
    BY <1>7 DEF Observe
  <2>2. /\ Sound(feed') /\ Owed(feed')
        /\ ShowsNoRun(feed.mem) => ShowsNoRun(feed'.mem)
    BY <2>1, <1>0, SetWatermarkKeeps
  <2>3. pass' = pass /\ now' = now
    BY <1>7 DEF Observe
  <2>4. QED
    BY <2>2, <2>3, <1>0 DEF FeedInv
<1>8. ASSUME NEW keep \in SUBSET Keys, Prune(keep) PROVE FeedInv'
  <2>1. PICK ok \in WriteOutcomes : feed' = PruneWatermarks(feed, Keys, keep, ok)
    BY <1>8 DEF Prune
  <2>2. /\ Sound(feed') /\ Owed(feed')
        /\ ShowsNoRun(feed.mem) => ShowsNoRun(feed'.mem)
    BY <2>1, <1>0, PruneWatermarksKeeps
  <2>3. pass' = pass /\ now' = now
    BY <1>8 DEF Prune
  <2>4. QED
    BY <2>2, <2>3, <1>0 DEF FeedInv
<1>9. CASE OpenScreen
  <2>1. PICK ok \in WriteOutcomes : feed' = MarkRead(feed, ok)
    BY <1>9 DEF OpenScreen
  <2>2. /\ Sound(feed') /\ Owed(feed')
        /\ ShowsNoRun(feed.mem) => ShowsNoRun(feed'.mem)
    BY <2>1, <1>0, MarkReadKeeps
  <2>3. pass' = pass /\ now' = now
    BY <1>9 DEF OpenScreen
  <2>4. QED
    BY <2>2, <2>3, <1>0 DEF FeedInv
<1>10. CASE ClearScreen
  <2>1. PICK ok \in WriteOutcomes : feed' = ClearEntries(feed, ok)
    BY <1>10 DEF ClearScreen
  <2>2. /\ Sound(feed') /\ Owed(feed')
        /\ ShowsNoRun(feed.mem) => ShowsNoRun(feed'.mem)
    BY <2>1, <1>0, ClearEntriesKeeps
  <2>3. pass' = pass /\ now' = now
    BY <1>10 DEF ClearScreen
  <2>4. QED
    BY <2>2, <2>3, <1>0 DEF FeedInv
<1>11. CASE CooldownFires
  <2>1. PICK ok \in WriteOutcomes : feed' = CooldownEnds(feed, ok)
    BY <1>11 DEF CooldownFires
  <2>2. ok \in BOOLEAN
    BY <1>0
  <2>3. Sound(feed') /\ Owed(feed') /\ feed'.mem = feed.mem
    BY <2>1, <2>2, <1>0, CooldownEndsKeeps
  <2>4. pass' = pass /\ now' = now
    BY <1>11 DEF CooldownFires
  <2>5. QED
    BY <2>3, <2>4, <1>0 DEF FeedInv
<1>12. CASE Tick
  <2>1. feed' = feed /\ pass' = pass /\ now' \in Nat
    BY <1>12, <1>0 DEF Tick
  <2>2. QED
    BY <2>1, <1>0 DEF FeedInv
<1>13. CASE Shutdown
  <2>1. PICK ok \in WriteOutcomes : feed' = Flush(feed, ok)
    BY <1>13 DEF Shutdown
  <2>2. ok \in BOOLEAN
    BY <1>0
  <2>3. Flush(feed, ok) = CooldownEnds(feed, ok)
    BY DEF Flush, CooldownEnds
  <2>4. Sound(feed') /\ Owed(feed') /\ feed'.mem = feed.mem
    BY <2>1, <2>2, <2>3, <1>0, CooldownEndsKeeps
  <2>5. pass' = pass /\ now' = now
    BY <1>13 DEF Shutdown
  <2>6. QED
    BY <2>4, <2>5, <1>0 DEF FeedInv
<1>14. CASE Crash
  <2>1. feed' = Loaded(feed.disk) /\ pass' = "none" /\ now' = now
    BY <1>14 DEF Crash
  <2>2. Sound(feed') /\ Owed(feed')
    BY <2>1, <1>0, LoadedIsSound DEF Sound, FeedType
  <2>3. QED
    BY <2>1, <2>2, <1>0 DEF FeedInv
<1>15. CASE UNCHANGED feedVars
  BY <1>15, <1>0 DEF feedVars, FeedInv
<1>16. QED
  BY <1>1, <1>2, <1>3, <1>4, <1>5, <1>6, <1>7, <1>8, <1>9, <1>10, <1>11, <1>12, <1>13,
     <1>14, <1>15 DEF FeedNext

\* The inductive invariant holds throughout, for every value of the constants.
THEOREM FeedInvariant == FeedSpec => []FeedInv
  BY InitFeedInv, NextFeedInv, PTL DEF FeedSpec

\* The rows, the memory of runs and the file keep their shapes and both caps.
THEOREM FeedTypeCorrect == FeedSpec => []FeedTypeOK
<1>1. FeedInv => FeedTypeOK
  BY DEF FeedInv, FeedTypeOK, Sound, Tracked
<1>2. QED
  BY <1>1, FeedInvariant, PTL

\* What memory holds and the disk does not is owed to an armed timer.
THEOREM FeedIsOwed == FeedSpec => []NothingUnowed
<1>1. FeedInv => NothingUnowed
  BY DEF FeedInv, Owed, NothingUnowed
<1>2. QED
  BY <1>1, FeedInvariant, PTL

\* The index over seenRuns never disagrees with the array.
THEOREM FeedIndexIsExact == FeedSpec => []IndexIsExact
<1>1. FeedInv => IndexIsExact
  BY DEF FeedInv, Sound, Exact, IndexIsExact
<1>2. QED
  BY <1>1, FeedInvariant, PTL

\* A run shown is a run remembered, in memory and on disk.
THEOREM FeedSeenOutlivesEntries == FeedSpec => []SeenOutlivesEntries
<1>1. FeedInv => SeenOutlivesEntries
  BY TrackedMeans DEF FeedInv, Sound, SeenOutlivesEntries
<1>2. QED
  BY <1>1, FeedInvariant, PTL

\* No run is ever shown by two rows.
THEOREM FeedNoRunTwice == FeedSpec => []NoRunTwice
<1>1. FeedInv => NoRunTwice
  BY DEF FeedInv, Sound, Tracked, NoRunTwice
<1>2. QED
  BY <1>1, FeedInvariant, PTL

\* Clearing the screen makes no run news again.
THEOREM FeedClearingForgetsNoRun == FeedSpec => ClearingForgetsNoRun
<1>1. ASSUME FeedInv, ClearScreen, NEW run \in Runs, HasRun(feed, run)
      PROVE  HasRun(feed', run)
  <2>1. PICK ok \in WriteOutcomes : feed' = ClearEntries(feed, ok)
    BY <1>1 DEF ClearScreen
  <2>2. CASE feed.mem.entries = << >>
    BY <2>1, <2>2, <1>1 DEF ClearEntries
  <2>3. CASE feed.mem.entries # << >>
    <3> DEFINE g == [feed EXCEPT !.mem.entries = << >>]
    <3>1. feed' = Persist(g, ok)
      BY <2>1, <2>3 DEF ClearEntries
    <3>2. feed \in FeedType
      BY <1>1 DEF FeedInv, Sound
    <3>3. g.seenIndex = feed.seenIndex /\ g.mem.seenRuns = feed.mem.seenRuns
      BY <3>2 DEF FeedType, FileShape
    <3>4. Persist(g, ok).seenIndex = g.seenIndex /\ Persist(g, ok).mem = g.mem
      BY <3>2 DEF Persist, WriteNow, FeedType
    <3>5. QED
      BY <3>1, <3>3, <3>4, <1>1 DEF HasRun, SeenSet
  <2>4. QED
    BY <2>2, <2>3
<1>2. FeedInv /\ [FeedNext]_feedVars =>
        [ClearScreen => \A run \in Runs : HasRun(feed, run) => HasRun(feed', run)]_feedVars
  BY <1>1
<1>3. QED
  BY <1>2, FeedInvariant, PTL DEF FeedSpec, ClearingForgetsNoRun

-----------------------------------------------------------------------------
(* The subscriptions: the invariant. *)

\* Whoever waits for an answer has one request on its way.
PageWaits ==
  /\ ~page.open => page.at = "idle"
  /\ \A r \in wire : r.who = "page" =>
       /\ page.at = (IF r.op = "save" THEN "saving" ELSE "dropping")
       /\ \A q \in wire : q.who = "page" => q = r
WorkerWaits ==
  \A r \in wire : r.who = "worker" =>
    /\ worker.at = (IF r.op = "save" THEN "saving" ELSE "retiring")
    /\ \A q \in wire : q.who = "worker" => q = r
NothingToDrop == toggled = "off" => sub = None /\ worker = Asleep /\ page.at # "subscribe"
DropsItsOwn ==
  page.at = "dropping" /\ toggled # "crossed" =>
    /\ worker = Asleep
    /\ \A r \in wire : r.who = "page" => r.end = sub
PhoneInv == PageWaits /\ WorkerWaits /\ NothingToDrop /\ DropsItsOwn

SameIdentity ==
  /\ disk.vapid \in {None, state.vapid}
  /\ sub # None => unsaved \/ madeFor = state.vapid
KnownOrAsked ==
  /\ served => sub # None
  /\ served /\ missed = "no" =>
       sub \in Registered(state) \/ \E r \in wire : r.op = "save" /\ r.end = sub
KnownInv == SameIdentity /\ KnownOrAsked

Truthful(s) == \A e \in Registered(s) : s.rows[e].lastError <=> s.rows[e].failures > 0
Once(send) ==
  /\ send.open \cap (send.delivered \cup send.failed) = {}
  /\ send.delivered \cap send.failed = {}
Delivering(e) == {i \in Sends : e \in sends[i].delivered}
Failing(e) == {i \in Sends : e \in sends[i].failed}
\* The refusals no success came after.
Counting(e) == {r \in Failing(e) : \A d \in Delivering(e) : <<e, d, r>> \in older}
Cap(n) == IF n < MaxFailures THEN n ELSE MaxFailures
\* What the row will count once the answers held are written in their order.
Due(e) ==
  /\ \A d \in Delivering(e), r \in Failing(e) : <<e, d, r>> \in older \/ <<e, r, d>> \in older
  /\ truth[e] = Cap((IF Delivering(e) = {} THEN state.rows[e].failures ELSE 0) + Cardinality(Counting(e)))
HealthInv ==
  /\ Truthful(state) /\ Truthful(disk)
  /\ \A i \in Sends : Once(sends[i])
  /\ \A e \in Endpoints \ Registered(state) : truth[e] = 0
  /\ \A e \in Endpoints, i, j \in Sends : <<e, i, j>> \in older => Disagree(sends[i], sends[j], e)
  /\ \A e \in Registered(state) \ amiss : Due(e)

PushInv == TypeOK /\ PhoneInv /\ KnownInv /\ HealthInv

-----------------------------------------------------------------------------
(* The operators of the store. *)

LEMMA RowTypes ==
  /\ NewRow \in DeviceRow /\ NewRow.failures = 0 /\ NewRow.lastError = FALSE
  /\ \A n \in 0..MaxFailures : OneMore(n) \in 0..MaxFailures /\ OneMore(n) > 0
  /\ 0 \in 0..MaxFailures
BY PushAssumption DEF NewRow, DeviceRow, OneMore

LEMMA StoreFields ==
  ASSUME NEW s \in Store
  PROVE  /\ Registered(s) \subseteq Endpoints /\ s.vapid \in Identities \cup {None}
         /\ \A e \in Registered(s) : s.rows[e] \in DeviceRow /\ s.rows[e].failures \in 0..MaxFailures
BY DEF Store, Registered, DeviceRow

LEMMA WithRows ==
  ASSUME NEW s \in Store, NEW D \in SUBSET Endpoints, NEW f \in [D -> DeviceRow]
  PROVE  /\ [s EXCEPT !.rows = f] \in Store
         /\ [s EXCEPT !.rows = f].vapid = s.vapid /\ [s EXCEPT !.rows = f].rows = f
         /\ Registered([s EXCEPT !.rows = f]) = D
<1>1. f \in UNION {[C -> DeviceRow] : C \in SUBSET Endpoints} /\ DOMAIN f = D
  OBVIOUS
<1>2. [s EXCEPT !.rows = f] \in Store
  BY <1>1 DEF Store
<1>3. [s EXCEPT !.rows = f].vapid = s.vapid /\ [s EXCEPT !.rows = f].rows = f
  BY DEF Store
<1>4. QED
  BY <1>1, <1>2, <1>3 DEF Registered

\* What a write of the store may do: the identity stays, no row lies.
Writes(s) == {t \in Store : t.vapid = s.vapid /\ (Truthful(s) => Truthful(t))}

LEMMA SaveIs ==
  ASSUME NEW s \in Store, NEW e \in Endpoints
  PROVE  /\ SaveSubscription(s, e) \in Writes(s)
         /\ Registered(SaveSubscription(s, e)) = Registered(s) \cup {e}
         /\ \A d \in Registered(s) \cup {e} :
              SaveSubscription(s, e).rows[d] = IF d \in Registered(s) THEN s.rows[d] ELSE NewRow
<1> DEFINE D == Registered(s) \cup {e}
           f == [d \in D |-> IF d \in Registered(s) THEN s.rows[d] ELSE NewRow]
<1>1. D \in SUBSET Endpoints /\ f \in [D -> DeviceRow] /\ SaveSubscription(s, e) = [s EXCEPT !.rows = f]
  BY StoreFields, RowTypes DEF SaveSubscription
<1>2. \A d \in D : f[d] = IF d \in Registered(s) THEN s.rows[d] ELSE NewRow
  OBVIOUS
<1> HIDE DEF D, f
<1>3. /\ SaveSubscription(s, e) \in Store /\ SaveSubscription(s, e).vapid = s.vapid
      /\ SaveSubscription(s, e).rows = f /\ Registered(SaveSubscription(s, e)) = D
  BY <1>1, WithRows
<1>4. Truthful(s) => Truthful(SaveSubscription(s, e))
  BY <1>2, <1>3, RowTypes DEF Truthful, D
<1>5. QED
  BY <1>2, <1>3, <1>4 DEF Writes, D

LEMMA RemoveIs ==
  ASSUME NEW s \in Store, NEW e
  PROVE  /\ RemoveSubscription(s, e) \in Writes(s)
         /\ Registered(RemoveSubscription(s, e)) = Registered(s) \ {e}
         /\ \A d \in Registered(s) \ {e} : RemoveSubscription(s, e).rows[d] = s.rows[d]
<1> DEFINE D == Registered(s) \ {e}
           f == [d \in D |-> s.rows[d]]
<1>1. D \in SUBSET Endpoints /\ f \in [D -> DeviceRow] /\ RemoveSubscription(s, e) = [s EXCEPT !.rows = f]
  BY StoreFields DEF RemoveSubscription, Restrict
<1>2. \A d \in D : f[d] = s.rows[d]
  OBVIOUS
<1> HIDE DEF D, f
<1>3. /\ RemoveSubscription(s, e) \in Store /\ RemoveSubscription(s, e).vapid = s.vapid
      /\ RemoveSubscription(s, e).rows = f /\ Registered(RemoveSubscription(s, e)) = D
  BY <1>1, WithRows
<1>4. Truthful(s) => Truthful(RemoveSubscription(s, e))
  BY <1>2, <1>3 DEF Truthful, D
<1>5. QED
  BY <1>2, <1>3, <1>4 DEF Writes, D

LEMMA MarkSentIs ==
  ASSUME NEW s \in Store, NEW S
  PROVE  /\ MarkSent(s, S) \in Writes(s) /\ Registered(MarkSent(s, S)) = Registered(s)
         /\ \A d \in Registered(s) : MarkSent(s, S).rows[d] = IF d \in S THEN NewRow ELSE s.rows[d]
<1> DEFINE D == Registered(s)
           f == [d \in D |-> IF d \in S THEN NewRow ELSE s.rows[d]]
<1>1. D \in SUBSET Endpoints /\ f \in [D -> DeviceRow] /\ MarkSent(s, S) = [s EXCEPT !.rows = f]
  BY StoreFields, RowTypes DEF MarkSent
<1>2. \A d \in D : f[d] = IF d \in S THEN NewRow ELSE s.rows[d]
  OBVIOUS
<1> HIDE DEF D, f
<1>3. /\ MarkSent(s, S) \in Store /\ MarkSent(s, S).vapid = s.vapid
      /\ MarkSent(s, S).rows = f /\ Registered(MarkSent(s, S)) = D
  BY <1>1, WithRows
<1>4. Truthful(s) => Truthful(MarkSent(s, S))
  BY <1>2, <1>3, RowTypes DEF Truthful, D
<1>5. QED
  BY <1>2, <1>3, <1>4 DEF Writes, D

LEMMA MarkFailedIs ==
  ASSUME NEW s \in Store, NEW S
  PROVE  /\ MarkFailed(s, S) \in Writes(s) /\ Registered(MarkFailed(s, S)) = Registered(s)
         /\ \A d \in Registered(s) :
              /\ d \in S => MarkFailed(s, S).rows[d].failures = OneMore(s.rows[d].failures)
              /\ d \notin S => MarkFailed(s, S).rows[d] = s.rows[d]
<1> DEFINE D == Registered(s)
           more(d) == [failures |-> OneMore(s.rows[d].failures), lastError |-> TRUE]
           f == [d \in D |-> IF d \in S THEN more(d) ELSE s.rows[d]]
<1>1. \A d \in D : more(d) \in DeviceRow /\ more(d).failures > 0
  BY StoreFields, RowTypes DEF DeviceRow
<1>2. D \in SUBSET Endpoints /\ f \in [D -> DeviceRow] /\ MarkFailed(s, S) = [s EXCEPT !.rows = f]
  BY <1>1, StoreFields DEF MarkFailed
<1>3. \A d \in D : f[d] = IF d \in S THEN more(d) ELSE s.rows[d]
  OBVIOUS
<1>4. \A d \in D : more(d).lastError = TRUE /\ more(d).failures = OneMore(s.rows[d].failures)
  OBVIOUS
<1> HIDE DEF D, f, more
<1>5. /\ MarkFailed(s, S) \in Store /\ MarkFailed(s, S).vapid = s.vapid
      /\ MarkFailed(s, S).rows = f /\ Registered(MarkFailed(s, S)) = D
  BY <1>2, WithRows
<1>6. Truthful(s) => Truthful(MarkFailed(s, S))
  BY <1>1, <1>3, <1>4, <1>5 DEF Truthful, D
<1>7. QED
  BY <1>3, <1>4, <1>5, <1>6 DEF Writes, D

LEMMA WritesOnward ==
  ASSUME NEW s \in Store, NEW t \in Writes(s)
  PROVE  s \in Writes(s) /\ t \in Store /\ Writes(t) \subseteq Writes(s)
BY DEF Writes

LEMMA LastOfConcat ==
  ASSUME NEW S, NEW a \in Seq(S), NEW b \in Seq(S), b # <<>>
  PROVE  a \o b \in Seq(S) /\ a \o b # <<>> /\ Last(a \o b) = Last(b)
<1>1. Len(a) \in Nat /\ Len(b) \in Nat \ {0}
  BY EmptySeq, LenProperties
<1>2. /\ a \o b \in Seq(S) /\ Len(a \o b) = Len(a) + Len(b)
      /\ \A i \in 1..(Len(a) + Len(b)) : (a \o b)[i] = IF i <= Len(a) THEN a[i] ELSE b[i - Len(a)]
  BY ConcatProperties
<1>3. a \o b # <<>>
  BY <1>1, <1>2, EmptySeq
<1>4. (a \o b)[Len(a) + Len(b)] = b[Len(b)]
  BY <1>1, <1>2
<1>5. QED
  BY <1>2, <1>3, <1>4 DEF Last

\* What the marks of a send that is over make of the rows.
Marked(s, send, t) ==
  \A d \in Registered(s) :
    /\ d \in send.delivered => t.rows[d] = NewRow
    /\ d \in send.failed => t.rows[d].failures = OneMore(s.rows[d].failures)
    /\ d \notin send.delivered \cup send.failed => t.rows[d] = s.rows[d]

LEMMA MarksAre ==
  ASSUME NEW s \in Store, NEW send, send.delivered \cap send.failed = {}
  PROVE  /\ Marks(s, send) \in Seq({t \in Writes(s) : Registered(t) = Registered(s)})
         /\ Marks(s, send) = <<>> => send.delivered = {} /\ send.failed = {}
         /\ Marks(s, send) # <<>> => Marked(s, send, Last(Marks(s, send)))
<1> DEFINE sent == MarkSent(s, send.delivered)
           both == MarkFailed(sent, send.failed)
           Kept == {t \in Writes(s) : Registered(t) = Registered(s)}
<1>1. /\ sent \in Writes(s) /\ sent \in Store /\ Registered(sent) = Registered(s)
      /\ \A d \in Registered(s) : sent.rows[d] = IF d \in send.delivered THEN NewRow ELSE s.rows[d]
  BY MarkSentIs DEF Writes
<1>2. /\ both \in Writes(sent) /\ Registered(both) = Registered(sent)
      /\ \A d \in Registered(sent) :
           /\ d \in send.failed => both.rows[d].failures = OneMore(sent.rows[d].failures)
           /\ d \notin send.failed => both.rows[d] = sent.rows[d]
  BY <1>1, MarkFailedIs
<1>3. Marks(s, send) = (IF send.delivered = {} THEN <<>> ELSE <<sent>>) \o (IF send.failed = {} THEN <<>> ELSE <<both>>)
  BY DEF Marks
<1>4. sent \in Kept /\ both \in Kept
  BY <1>1, <1>2, WritesOnward
<1>5. \A d \in Registered(s) :
        /\ d \in send.delivered => both.rows[d] = NewRow
        /\ d \in send.failed => both.rows[d].failures = OneMore(s.rows[d].failures)
        /\ d \notin send.delivered \cup send.failed => both.rows[d] = s.rows[d]
  BY <1>1, <1>2
<1> HIDE DEF sent, both, Kept
<1>6. <<sent>> \in Seq(Kept) /\ <<both>> \in Seq(Kept) /\ <<sent, both>> \in Seq(Kept) /\ <<>> \in Seq(Kept)
  BY <1>4
<1>7. CASE send.delivered = {} /\ send.failed = {}
  <2>1. Marks(s, send) = <<>>
    BY <1>3, <1>7
  <2>2. QED
    BY <1>6, <1>7, <2>1 DEF Kept
<1>8. CASE send.delivered # {} /\ send.failed = {}
  <2>1. Marks(s, send) = <<sent>>
    BY <1>3, <1>6, <1>8
  <2>2. Last(<<sent>>) = sent
    BY DEF Last
  <2>3. QED
    BY <1>1, <1>6, <1>8, <2>1, <2>2 DEF Kept, Marked
<1>9. CASE send.failed # {}
  <2> DEFINE first == IF send.delivered = {} THEN <<>> ELSE <<sent>>
         last == <<both>>
  <2>1. first \in Seq(Kept) /\ last \in Seq(Kept) /\ Marks(s, send) = first \o last
    BY <1>3, <1>6, <1>9
  <2>2. last # <<>> /\ Last(last) = both
    BY DEF Last
  <2> HIDE DEF first, last
  <2>3. Marks(s, send) \in Seq(Kept) /\ Marks(s, send) # <<>> /\ Last(Marks(s, send)) = both
    BY <2>1, <2>2, LastOfConcat
  <2>4. QED
    BY <1>5, <1>9, <2>3 DEF Kept, Marked
<1>10. QED
  BY <1>7, <1>8, <1>9

\* Writing stages one after the other.
LEMMA CommitIs ==
  ASSUME NEW S, NEW stages \in Seq(S), Commit(stages), badWrites \in 0..(MaxBadWrites + 1)
  PROVE  /\ stages = <<>> => state' = state
         /\ stages # <<>> => state' = Last(stages) /\ state' \in S
         /\ disk' \in S \cup {disk}
         /\ badWrites' \in 0..(MaxBadWrites + 1)
<1>1. CASE stages = <<>>
  BY <1>1 DEF Commit
<1>2. CASE stages # <<>>
  <2>1. state' = Last(stages) /\ PersistStore(stages)
    BY <1>2 DEF Commit
  <2>2. Len(stages) \in Nat \ {0} /\ \A i \in 1..Len(stages) : stages[i] \in S
    BY <1>2, EmptySeq, ElementOfSeq
  <2>3. Last(stages) \in S
    BY <2>2 DEF Last
  <2>4. ToSet(Front(stages)) \subseteq S
    <3>1. \A i \in 1..(Len(stages) - 1) : stages[i] \in S
      BY <2>2
    <3>2. Front(stages) \in Seq(S)
      BY <2>2, <3>1, SubSeqProperties DEF Front
    <3>3. QED
      BY <3>2, LenProperties DEF ToSet
  <2>5. QED
    BY <1>2, <2>1, <2>3, <2>4, PushAssumption DEF PersistStore
<1>3. QED
  BY <1>1, <1>2

-----------------------------------------------------------------------------
(* What an answer of the push service changes. *)

Over(i, e, how) == Tallied(sends[i], e, how).open = {}
\* What becomes of the ghosts.
Order(i, e, how) == older \cup Older(Tallied(sends[i], e, how), i, e)
Overtaken(i, e, how) == {d \in Registered(state') : \E j \in Sends : <<d, j, i>> \in Order(i, e, how)}
Settled(i, e, how) ==
  {d \in Tallied(sends[i], e, how).delivered : truth'[d] = 0 /\ \A j \in Sends \ {i} : d \notin sends[j].failed}
Judges(i, e, how) ==
  /\ \A t : t \in older' <=> /\ t \in Order(i, e, how) /\ t[1] \in Registered(state')
                             /\ Over(i, e, how) => i \notin {t[2], t[3]}
  /\ \A d : d \in amiss' <=> /\ d \in (Registered(state') \cap amiss) \/ (Over(i, e, how) /\ d \in Overtaken(i, e, how))
                             /\ Over(i, e, how) => d \notin Settled(i, e, how)

AnswerIs(i, e, how) ==
  /\ how \in Outcomes(e) /\ e \in sends[i].open
  /\ state' \in Writes(state) /\ disk' \in Writes(state) \cup {disk} /\ badWrites' \in 0..(MaxBadWrites + 1)
  /\ Registered(state') = (IF how = "gone" THEN Registered(state) \ {e} ELSE Registered(state))
  /\ \A d \in Registered(state') :
       IF Over(i, e, how)
       THEN /\ d \in Tallied(sends[i], e, how).delivered => state'.rows[d] = NewRow
            /\ d \in Tallied(sends[i], e, how).failed =>
                 state'.rows[d].failures = OneMore(state.rows[d].failures)
            /\ d \notin Tallied(sends[i], e, how).delivered \cup Tallied(sends[i], e, how).failed =>
                 state'.rows[d] = state.rows[d]
       ELSE state'.rows[d] = state.rows[d]
  /\ sends' = [sends EXCEPT ![i] = IF Over(i, e, how) THEN Quiet ELSE Tallied(sends[i], e, how)]
  /\ truth' = [truth EXCEPT ![e] = IF how = "refused" /\ e \in Registered(state') THEN OneMore(@) ELSE 0]
  /\ Judges(i, e, how)
  /\ UNCHANGED <<phone, wire, unsaved, missed, toggled, kills>>

LEMMA TalliedIs ==
  ASSUME TypeOK, NEW i \in Sends, NEW e \in sends[i].open, NEW how, Once(sends[i])
  PROVE  /\ Once(Tallied(sends[i], e, how))
         /\ Tallied(sends[i], e, how) \in
              [open : SUBSET Endpoints, delivered : SUBSET Endpoints, failed : SUBSET Endpoints]
         /\ Tallied(sends[i], e, how).open = sends[i].open \ {e}
         /\ Tallied(sends[i], e, how).delivered = sends[i].delivered \cup (IF how = "accepted" THEN {e} ELSE {})
         /\ Tallied(sends[i], e, how).failed = sends[i].failed \cup (IF how = "refused" THEN {e} ELSE {})
         /\ e \in Endpoints
<1>1. /\ sends[i].open \subseteq Endpoints /\ sends[i].delivered \subseteq Endpoints
      /\ sends[i].failed \subseteq Endpoints
  BY DEF TypeOK
<1>2. QED
  BY <1>1 DEF Once, Tallied

LEMMA AnsweredIs ==
  ASSUME TypeOK, NEW i \in Sends, NEW e \in Endpoints, Answered(i, e), Once(sends[i])
  PROVE  \E how \in Outcomes(e) : AnswerIs(i, e, how)
<1>0. e \in sends[i].open
  BY DEF Answered
<1>1. PICK how \in Outcomes(e) :
        LET send == Tallied(sends[i], e, how)
            last == send.open = {}
            rest == Dropped(state, e, how)
        IN  /\ Commit((IF rest = state THEN <<>> ELSE <<rest>>)
                      \o (IF last THEN Marks(rest, send) ELSE <<>>))
            /\ sends' = [sends EXCEPT ![i] = IF last THEN Quiet ELSE send]
            /\ truth' = [truth EXCEPT ![e] = IF how = "refused" /\ e \in Registered(rest) THEN OneMore(@) ELSE 0]
            /\ Judged(i, e, send, last, rest)
  BY DEF Answered
<1> DEFINE send == Tallied(sends[i], e, how)
           rest == Dropped(state, e, how)
           S == {t \in Writes(state) : Registered(t) = Registered(rest)}
           a == IF rest = state THEN <<>> ELSE <<rest>>
           b == IF Over(i, e, how) THEN Marks(rest, send) ELSE <<>>
<1>2. /\ rest \in Writes(state) /\ rest \in Store
      /\ Registered(rest) = (IF how = "gone" THEN Registered(state) \ {e} ELSE Registered(state))
      /\ \A d \in Registered(rest) : rest.rows[d] = state.rows[d]
  <2>1. state \in Store /\ state \in Writes(state)
    BY DEF TypeOK, Writes
  <2>2. CASE how = "gone"
    <3>1. rest = RemoveSubscription(state, e)
      BY <2>2 DEF Dropped
    <3> HIDE DEF rest
    <3>2. QED
      BY <2>1, <2>2, <3>1, RemoveIs DEF Writes
  <2>3. CASE how # "gone"
    <3>1. rest = state
      BY <2>3 DEF Dropped
    <3>2. QED
      BY <2>1, <2>3, <3>1
  <2>4. QED
    BY <2>2, <2>3
<1>3. Commit(a \o b)
  BY <1>1 DEF Over
<1>4. send.delivered \cap send.failed = {}
  BY <1>0, TalliedIs DEF Once
<1>5. a \in Seq(S)
  <2>1. rest \in S
    BY <1>2
  <2> HIDE DEF rest, S
  <2>2. <<rest>> \in Seq(S) /\ <<>> \in Seq(S)
    BY <2>1
  <2>3. QED
    BY <2>2
<1>6. /\ b \in Seq(S)
      /\ b = <<>> => ~Over(i, e, how) \/ (send.delivered = {} /\ send.failed = {})
      /\ b # <<>> => Over(i, e, how) /\ Marked(rest, send, Last(b))
  <2>1. CASE ~Over(i, e, how)
    BY <2>1, EmptySeq
  <2>2. CASE Over(i, e, how)
    <3>1. b = Marks(rest, send)
      BY <2>2
    <3>2. {t \in Writes(rest) : Registered(t) = Registered(rest)} \subseteq S
      BY <1>2, WritesOnward DEF TypeOK
    <3>3. Marks(rest, send) \in Seq({t \in Writes(rest) : Registered(t) = Registered(rest)})
      BY <1>2, <1>4, MarksAre
    <3> HIDE DEF send, rest, S, b
    <3>4. b \in Seq(S)
      BY <3>1, <3>2, <3>3, SeqMonotonic
    <3>5. /\ b = <<>> => send.delivered = {} /\ send.failed = {}
          /\ b # <<>> => Marked(rest, send, Last(b))
      BY <1>2, <1>4, <3>1, MarksAre
    <3>6. QED
      BY <2>2, <3>4, <3>5
  <2>3. QED
    BY <2>1, <2>2
<1>7. a = <<>> \/ (a # <<>> /\ Last(a) = rest)
  BY DEF Last
<1>8. a = <<>> => rest = state
  OBVIOUS
<1> HIDE DEF a, b, S
<1>9. /\ state' = (IF b # <<>> THEN Last(b) ELSE rest) /\ state' \in S
      /\ disk' \in S \cup {disk} /\ badWrites' \in 0..(MaxBadWrites + 1)
  <2>1. a \o b \in Seq(S)
    BY <1>5, <1>6, ConcatProperties
  <2>2. badWrites \in 0..(MaxBadWrites + 1)
    BY DEF TypeOK
  <2>3. /\ disk' \in S \cup {disk} /\ badWrites' \in 0..(MaxBadWrites + 1)
        /\ a \o b = <<>> => state' = state
        /\ a \o b # <<>> => state' = Last(a \o b) /\ state' \in S
    BY <1>3, <2>1, <2>2, CommitIs
  <2>4. CASE b # <<>>
    <3>1. a \o b # <<>> /\ Last(a \o b) = Last(b)
      BY <1>5, <1>6, <2>4, LastOfConcat
    <3>2. QED
      BY <2>3, <2>4, <3>1
  <2>5. CASE b = <<>>
    <3>1. a \o b = a
      BY <1>5, <2>5, ConcatEmptySeq
    <3>2. rest \in S
      BY <1>2 DEF S
    <3>3. QED
      BY <1>7, <1>8, <2>3, <2>5, <3>1, <3>2
  <2>6. QED
    BY <2>4, <2>5
<1>10. /\ state' \in Writes(state) /\ disk' \in Writes(state) \cup {disk}
       /\ Registered(state') = Registered(rest)
  BY <1>9 DEF S
<1>11. /\ Over(i, e, how) <=> send.open = {}
       /\ UNCHANGED <<phone, wire, unsaved, missed, toggled, kills>>
  BY DEF Over, Answered
<1>12. \A d \in Registered(state') :
         IF Over(i, e, how)
         THEN /\ d \in send.delivered => state'.rows[d] = NewRow
              /\ d \in send.failed => state'.rows[d].failures = OneMore(state.rows[d].failures)
              /\ d \notin send.delivered \cup send.failed => state'.rows[d] = state.rows[d]
         ELSE state'.rows[d] = state.rows[d]
  <2> HIDE DEF send, rest
  <2>1. CASE b # <<>>
    BY <1>2, <1>6, <1>9, <1>10, <2>1 DEF Marked
  <2>2. CASE b = <<>>
    BY <1>2, <1>6, <1>9, <1>10, <2>2
  <2>3. QED
    BY <2>1, <2>2
<1>13. Judges(i, e, how)
  <2>1. Judged(i, e, send, Over(i, e, how), rest)
    BY <1>1 DEF Over
  <2>2. Registered(rest) = Registered(state')
    BY <1>10
  <2> DEFINE order == older \cup Older(send, i, e)
             overtaken == {d \in Registered(rest) : \E j \in Sends : <<d, j, i>> \in order}
             settled == {d \in send.delivered : truth'[d] = 0 /\ \A j \in Sends \ {i} : d \notin sends[j].failed}
             known == {t \in order : t[1] \in Registered(rest)}
  <2>3. IF Over(i, e, how)
        THEN /\ older' = {t \in known : i \notin {t[2], t[3]}}
             /\ amiss' = ((Registered(rest) \cap amiss) \cup overtaken) \ settled
        ELSE older' = known /\ amiss' = Registered(rest) \cap amiss
    BY <2>1 DEF Judged
  <2>4. order = Order(i, e, how) /\ overtaken = Overtaken(i, e, how) /\ settled = Settled(i, e, how)
    BY <2>2 DEF Order, Overtaken, Settled
  <2> HIDE DEF order, overtaken, settled, send, rest
  <2>5. QED
    BY <2>2, <2>3, <2>4 DEF Judges
<1>14. AnswerIs(i, e, how)
  BY <1>0, <1>1, <1>2, <1>9, <1>10, <1>11, <1>12, <1>13 DEF AnswerIs, Over
<1>15. QED
  BY <1>14

-----------------------------------------------------------------------------
(* The phone. *)

Phones == [open : BOOLEAN, at : {"idle", "subscribe", "saving", "dropping"}, shown : {"on", "off"}]
Workers == [at : {"subscribe", "saving", "retiring"}, old : Endpoints] \cup {Asleep}
Requests == [op : {"save", "drop"}, end : Endpoints, who : {"page", "worker", "nobody"}]

PhoneType ==
  /\ sub \in Endpoints \cup {None} /\ madeFor \in Identities \cup {None} /\ served \in BOOLEAN
  /\ page \in Phones /\ worker \in Workers /\ wire \subseteq Requests
  /\ toggled \in {"on", "off", "crossed"}

StoreType ==
  /\ state \in Store /\ disk \in Store /\ state.vapid # None
  /\ sends \in [Sends -> [open : SUBSET Endpoints, delivered : SUBSET Endpoints, failed : SUBSET Endpoints]]
  /\ truth \in [Endpoints -> 0..MaxFailures] /\ older \subseteq Endpoints \X Sends \X Sends /\ amiss \subseteq Endpoints
  /\ unsaved \in BOOLEAN /\ missed \in {"no", "lost", "revoked"}
  /\ badWrites \in 0..(MaxBadWrites + 1) /\ kills \in 0..MaxKills

LEMMA Types == TypeOK <=> PhoneType /\ StoreType
BY DEF TypeOK, PhoneType, StoreType, Phones, Workers, Requests

LEMMA PhoneFacts ==
  ASSUME PhoneType
  PROVE  /\ Asleep.at = "idle" /\ Closed.at = "idle" /\ Closed \in Phones /\ None \notin Endpoints
         /\ worker # Asleep => worker.old \in Endpoints /\ worker.at # "idle"
         /\ worker = Asleep <=> worker.at = "idle"
         /\ \A e \in Endpoints, o \in {"save", "drop"}, w \in {"page", "worker", "nobody"} :
              /\ Request(o, e, w) \in Requests
              /\ Request(o, e, w).op = o /\ Request(o, e, w).end = e /\ Request(o, e, w).who = w
BY PushAssumption DEF PhoneType, Asleep, Closed, Phones, Workers, Requests, Request

\* Steps of the phone that neither subscribe nor ask anything.
LEMMA PhoneAlone ==
  ASSUME PhoneType, PhoneInv,
         OpenSettings \/ CloseApp \/ ToggleOn \/ EnableEnds \/ WorkerGivesUp \/ Expires \/ Rotates
  PROVE  PhoneType' /\ PhoneInv'
<1>1. CASE OpenSettings
  <2>1. /\ page' \in Phones /\ page'.at = "idle" /\ page'.open /\ page.at = "idle"
        /\ UNCHANGED <<sub, madeFor, served, worker, wire, toggled>>
    BY <1>1 DEF OpenSettings, Phones, Closed, PhoneInv, PageWaits, held
  <2>2. QED
    BY <2>1, PhoneFacts DEF PhoneType, PhoneInv, PageWaits, WorkerWaits, NothingToDrop, DropsItsOwn
<1>2. CASE CloseApp
  <2>1. /\ page' = Closed /\ Closed.at = "idle" /\ Closed \in Phones
        /\ wire' = {IF r.who = "page" THEN [r EXCEPT !.who = "nobody"] ELSE r : r \in wire}
        /\ UNCHANGED <<sub, madeFor, served, worker, toggled>>
    BY <1>2, PhoneFacts DEF CloseApp, held
  <2>2. wire' \subseteq Requests
    BY <2>1 DEF PhoneType, Requests
  <2>3. \A r \in wire' : r.who # "page" /\ (r.who = "worker" => r \in wire)
    BY <2>1 DEF PhoneType, Requests
  <2>4. PageWaits' /\ WorkerWaits'
    BY <2>1, <2>3 DEF PhoneInv, PageWaits, WorkerWaits
  <2>5. QED
    BY <2>1, <2>2, <2>4 DEF PhoneType, PhoneInv, NothingToDrop, DropsItsOwn
<1>3. CASE ToggleOn \/ EnableEnds
  <2>1. /\ page' \in Phones /\ page'.at \in {"idle", "subscribe"} /\ page.at \in {"idle", "subscribe"}
        /\ ~page'.open => page'.at = "idle"
        /\ UNCHANGED <<sub, madeFor, served, worker, wire>>
        /\ toggled' \in {"on", toggled} /\ (page'.at = "subscribe" => toggled' = "on")
    BY <1>3, PhoneFacts DEF ToggleOn, EnableEnds, PhoneType, Phones, held
  <2>2. QED
    BY <2>1 DEF PhoneType, PhoneInv, PageWaits, WorkerWaits, NothingToDrop, DropsItsOwn
<1>4. CASE WorkerGivesUp
  <2>1. worker' = Asleep /\ worker.at = "subscribe" /\ UNCHANGED <<sub, madeFor, served, page, wire, toggled>>
    BY <1>4 DEF WorkerGivesUp, held
  <2>2. QED
    BY <2>1 DEF PhoneType, Workers, PhoneInv, PageWaits, WorkerWaits, NothingToDrop, DropsItsOwn
<1>5. CASE Expires
  <2>1. served' = FALSE /\ UNCHANGED <<sub, madeFor, worker, page, wire, toggled>>
    BY <1>5 DEF Expires
  <2>2. QED
    BY <2>1 DEF PhoneType, PhoneInv, PageWaits, WorkerWaits, NothingToDrop, DropsItsOwn
<1>6. CASE Rotates
  <2>1. /\ sub # None /\ worker = Asleep /\ worker' = [at |-> "subscribe", old |-> sub]
        /\ sub' = None /\ madeFor' = None /\ served' = FALSE
        /\ UNCHANGED <<page, wire>>
        /\ toggled' = IF page.at = "dropping" THEN "crossed" ELSE toggled
    BY <1>6 DEF Rotates, NoSubscription
  <2>2. toggled # "off"
    BY <2>1 DEF PhoneInv, NothingToDrop
  <2>3. PhoneType'
    BY <2>1 DEF PhoneType, Workers
  <2>4. WorkerWaits'
    BY <2>1, PhoneFacts DEF PhoneInv, WorkerWaits
  <2>5. QED
    BY <2>1, <2>2, <2>3, <2>4 DEF PhoneInv, PageWaits, NothingToDrop, DropsItsOwn
<1>7. QED
  BY <1>1, <1>2, <1>3, <1>4, <1>5, <1>6

\* Steps that subscribe, or ask for something.
LEMMA PhoneAsks ==
  ASSUME PhoneType, PhoneInv, state \in Store, EnableSubscribes \/ WorkerSubscribes \/ ToggleOff
  PROVE  PhoneType' /\ PhoneInv'
<1>1. ASSUME NEW e \in Endpoints, Subscribe(e)
      PROVE  sub' = e /\ madeFor' \in Identities \cup {None} /\ served' \in BOOLEAN
  BY <1>1, StoreFields DEF Subscribe, PhoneType, held
<1>2. CASE EnableSubscribes
  <2>1. PICK e \in Endpoints : Subscribe(e) /\ wire' = wire \cup {Request("save", e, "page")}
    BY <1>2 DEF EnableSubscribes
  <2>2. /\ page.at = "subscribe" /\ page' = [page EXCEPT !.at = "saving"]
        /\ UNCHANGED <<worker, toggled>>
    BY <1>2 DEF EnableSubscribes
  <2>3. page' \in Phones /\ page'.at = "saving" /\ page'.open = page.open
    BY <2>2 DEF PhoneType, Phones
  <2>4. PhoneType'
    BY <1>1, <2>1, <2>2, <2>3, PhoneFacts DEF PhoneType
  <2>5. /\ Request("save", e, "page").op = "save" /\ Request("save", e, "page").who = "page"
        /\ \A r \in wire : r.who # "page"
    BY <2>2, PhoneFacts DEF PhoneInv, PageWaits
  <2>6. PageWaits' /\ WorkerWaits'
    BY <2>1, <2>2, <2>3, <2>5 DEF PhoneInv, PageWaits, WorkerWaits
  <2>7. NothingToDrop' /\ DropsItsOwn'
    BY <2>2, <2>3 DEF PhoneInv, NothingToDrop, DropsItsOwn
  <2>8. QED
    BY <2>4, <2>6, <2>7 DEF PhoneInv
<1>3. CASE WorkerSubscribes
  <2>1. PICK e \in Endpoints : Subscribe(e) /\ wire' = wire \cup {Request("save", e, "worker")}
    BY <1>3 DEF WorkerSubscribes
  <2>2. /\ worker.at = "subscribe" /\ worker' = [worker EXCEPT !.at = "saving"]
        /\ UNCHANGED <<page, toggled>>
    BY <1>3 DEF WorkerSubscribes
  <2>3. worker' \in Workers /\ worker'.at = "saving" /\ worker # Asleep
    BY <2>2, PhoneFacts DEF PhoneType, Workers
  <2>4. PhoneType'
    BY <1>1, <2>1, <2>2, <2>3, PhoneFacts DEF PhoneType
  <2>5. /\ Request("save", e, "worker").op = "save" /\ Request("save", e, "worker").who = "worker"
        /\ \A r \in wire : r.who # "worker"
    BY <2>2, PhoneFacts DEF PhoneInv, WorkerWaits
  <2>6. PageWaits' /\ WorkerWaits'
    BY <2>1, <2>2, <2>3, <2>5 DEF PhoneInv, PageWaits, WorkerWaits
  <2>7. NothingToDrop' /\ DropsItsOwn'
    BY <2>2, <2>3 DEF PhoneInv, NothingToDrop, DropsItsOwn
  <2>8. QED
    BY <2>4, <2>6, <2>7 DEF PhoneInv
<1>4. CASE ToggleOff
  <2>1. page.open /\ page.at = "idle" /\ UNCHANGED <<sub, madeFor, served, worker>>
    BY <1>4 DEF ToggleOff, held
  <2>2. CASE sub = None
    <3>1. /\ page' = [page EXCEPT !.shown = "off"] /\ wire' = wire
          /\ toggled' = IF worker = Asleep THEN "off" ELSE "on"
      BY <1>4, <2>2 DEF ToggleOff
    <3>2. page' \in Phones /\ page'.at = "idle" /\ page'.open
      BY <2>1, <3>1 DEF PhoneType, Phones
    <3>3. PhoneType'
      BY <2>1, <3>1, <3>2 DEF PhoneType
    <3>4. QED
      BY <2>1, <2>2, <3>1, <3>2, <3>3 DEF PhoneInv, PageWaits, WorkerWaits, NothingToDrop, DropsItsOwn
  <2>3. CASE sub # None
    <3>1. /\ page' = [page EXCEPT !.at = "dropping"] /\ wire' = wire \cup {Request("drop", sub, "page")}
          /\ toggled' = IF worker = Asleep THEN "on" ELSE "crossed"
      BY <1>4, <2>3 DEF ToggleOff
    <3>2. page' \in Phones /\ page'.at = "dropping" /\ page'.open
      BY <2>1, <3>1 DEF PhoneType, Phones
    <3>3. /\ sub \in Endpoints
          /\ Request("drop", sub, "page") \in Requests /\ Request("drop", sub, "page").op = "drop"
          /\ Request("drop", sub, "page").who = "page" /\ Request("drop", sub, "page").end = sub
          /\ \A r \in wire : r.who # "page"
      BY <2>1, <2>3, PhoneFacts DEF PhoneType, PhoneInv, PageWaits
    <3>4. PhoneType'
      BY <2>1, <3>1, <3>2, <3>3 DEF PhoneType
    <3>5. PageWaits' /\ WorkerWaits'
      BY <2>1, <3>1, <3>2, <3>3 DEF PhoneInv, PageWaits, WorkerWaits
    <3>6. NothingToDrop' /\ DropsItsOwn'
      BY <2>1, <3>1, <3>2, <3>3 DEF PhoneInv, NothingToDrop, DropsItsOwn
    <3>7. QED
      BY <3>4, <3>5, <3>6 DEF PhoneInv
  <2>4. QED
    BY <2>2, <2>3
<1>5. QED
  BY <1>2, <1>3, <1>4

\* A request comes back, however it went.
LEMMA PhoneGoesOn ==
  ASSUME PhoneType, PhoneInv, NEW r \in wire, NEW how, GoesOn(r, how)
  PROVE  /\ PhoneType' /\ PhoneInv' /\ wire \ {r} \subseteq wire'
         /\ UNCHANGED held \/ NoSubscription
<1>1. r \in Requests /\ \A q \in wire : q \in Requests
  BY DEF PhoneType
<1>2. CASE r.who = "nobody" /\ wire' = wire \ {r} /\ UNCHANGED <<phone, toggled>>
  <2>1. UNCHANGED <<sub, madeFor, served, page, worker, toggled>> /\ wire' = wire \ {r}
    BY <1>2 DEF phone, held
  <2>2. QED
    BY <2>1 DEF PhoneType, PhoneInv, PageWaits, WorkerWaits, NothingToDrop, DropsItsOwn, held
<1>3. CASE WorkerGoesOn(r, how, wire \ {r})
  <2>1. r.who = "worker" /\ UNCHANGED <<page, sub, madeFor, served, toggled>>
    BY <1>3 DEF WorkerGoesOn, held
  <2>2. /\ worker.at \in {"saving", "retiring"} /\ worker # Asleep /\ worker.old \in Endpoints
        /\ \A q \in wire \ {r} : q.who # "worker"
    BY <2>1, PhoneFacts DEF PhoneInv, WorkerWaits
  <2>3. CASE worker' = Asleep /\ wire' = wire \ {r}
    <3>1. PhoneType'
      BY <2>1, <2>3 DEF PhoneType, Workers
    <3>2. QED
      BY <2>1, <2>2, <2>3, <3>1 DEF PhoneInv, PageWaits, WorkerWaits, NothingToDrop, DropsItsOwn, held
  <2>4. CASE worker' = [worker EXCEPT !.at = "retiring"] /\ wire' = (wire \ {r}) \cup {Request("drop", worker.old, "worker")}
    <3>1. worker' \in Workers /\ worker'.at = "retiring"
      BY <2>2, <2>4 DEF PhoneType, Workers
    <3>2. /\ Request("drop", worker.old, "worker") \in Requests /\ Request("drop", worker.old, "worker").op = "drop"
          /\ Request("drop", worker.old, "worker").who = "worker"
      BY <2>2, PhoneFacts
    <3>3. PhoneType'
      BY <2>1, <2>4, <3>1, <3>2 DEF PhoneType
    <3>4. PageWaits' /\ WorkerWaits'
      BY <2>1, <2>2, <2>4, <3>1, <3>2 DEF PhoneInv, PageWaits, WorkerWaits
    <3>5. NothingToDrop' /\ DropsItsOwn'
      BY <2>1, <2>2 DEF PhoneInv, NothingToDrop, DropsItsOwn
    <3>6. QED
      BY <2>1, <2>4, <3>3, <3>4, <3>5 DEF PhoneInv, held
  <2>5. QED
    BY <1>3, <2>3, <2>4 DEF WorkerGoesOn
<1>4. CASE PageGoesOn(r, how, wire \ {r})
  <2>1. r.who = "page" /\ wire' = wire \ {r} /\ worker' = worker
    BY <1>4 DEF PageGoesOn
  <2>2. /\ page.at = (IF r.op = "save" THEN "saving" ELSE "dropping") /\ page.open
        /\ \A q \in wire \ {r} : q.who # "page"
    BY <2>1 DEF PhoneInv, PageWaits
  <2>3. CASE r.op # "drop"
    <3>1. UNCHANGED <<sub, madeFor, served, toggled>>
          /\ page' = [page EXCEPT !.at = "idle", !.shown = IF how = "ok" THEN "on" ELSE @]
      BY <1>4, <2>3 DEF PageGoesOn, held
    <3>2. page' \in Phones /\ page'.at = "idle"
      BY <3>1 DEF PhoneType, Phones
    <3>3. PhoneType'
      BY <2>1, <3>1, <3>2 DEF PhoneType
    <3>4. QED
      BY <2>1, <2>2, <3>1, <3>2, <3>3 DEF PhoneInv, PageWaits, WorkerWaits, NothingToDrop, DropsItsOwn, held
  <2>4. CASE r.op = "drop"
    <3>1. PageUnsubscribes(r.end) /\ page.at = "dropping"
      BY <1>4, <2>2, <2>4 DEF PageGoesOn
    <3>2. page' \in Phones /\ page'.at = "idle"
      BY <3>1 DEF PageUnsubscribes, PhoneType, Phones
    <3>3. \/ NoSubscription /\ sub = r.end
          \/ UNCHANGED <<sub, madeFor, served>> /\ (toggled' = "on" \/ sub # r.end)
      BY <3>1 DEF PageUnsubscribes, held
    <3>4. toggled' \in {"on", "off"} /\ (toggled' = "off" => toggled # "crossed")
      BY <3>1 DEF PageUnsubscribes
    <3>5. toggled' = "off" => worker = Asleep /\ NoSubscription
      BY <2>1, <3>1, <3>3, <3>4 DEF PhoneInv, DropsItsOwn
    <3>6. PhoneType'
      BY <2>1, <3>2, <3>3, <3>4 DEF PhoneType, NoSubscription
    <3>7. PageWaits' /\ WorkerWaits'
      BY <2>1, <2>2, <3>2 DEF PhoneInv, PageWaits, WorkerWaits
    <3>8. NothingToDrop' /\ DropsItsOwn'
      BY <2>1, <3>2, <3>5 DEF PhoneInv, NothingToDrop, DropsItsOwn, NoSubscription
    <3>9. QED
      BY <2>1, <3>3, <3>6, <3>7, <3>8 DEF PhoneInv, held
  <2>5. QED
    BY <2>3, <2>4
<1>5. QED
  BY <1>2, <1>3, <1>4 DEF GoesOn

-----------------------------------------------------------------------------
(* What the proxy knows of the phone. *)

\* The store is written, and the identity stays.
Written ==
  /\ state' \in Writes(state) /\ disk' \in Writes(state) \cup {disk} /\ badWrites' \in 0..(MaxBadWrites + 1)

LEMMA WrittenIs ==
  ASSUME TypeOK, Written
  PROVE  /\ state' \in Store /\ disk' \in Store /\ state'.vapid = state.vapid
         /\ disk'.vapid \in {disk.vapid, state.vapid}
         /\ Truthful(state) /\ Truthful(disk) => Truthful(state)' /\ Truthful(disk)'
BY DEF Written, Writes, TypeOK, Truthful, Registered

LEMMA WrittenOnce ==
  ASSUME TypeOK, NEW t \in Writes(state), Commit(<<t>>)
  PROVE  Written /\ state' = t
<1> DEFINE S == Writes(state)
           stages == <<t>>
<1>1. stages \in Seq(S) /\ stages # <<>> /\ Last(stages) = t
  BY DEF Last
<1>2. Commit(stages) /\ badWrites \in 0..(MaxBadWrites + 1)
  BY DEF TypeOK
<1> HIDE DEF S, stages
<1>3. state' = Last(stages) /\ state' \in S /\ disk' \in S \cup {disk} /\ badWrites' \in 0..(MaxBadWrites + 1)
  BY <1>1, <1>2, CommitIs
<1>4. QED
  BY <1>1, <1>3 DEF Written, S

LEMMA RemovedIs ==
  ASSUME TypeOK, NEW e, Commit(<<RemoveSubscription(state, e)>>)
  PROVE  Written /\ state' = RemoveSubscription(state, e)
<1>1. RemoveSubscription(state, e) \in Writes(state)
  BY RemoveIs DEF TypeOK
<1>2. QED
  BY <1>1, WrittenOnce

\* What a restarted proxy has.
RestartIs(k) ==
  /\ state' \in Store /\ disk' \in {disk, state'} /\ badWrites' \in 0..(MaxBadWrites + 1)
  /\ state'.rows = disk.rows /\ Registered(state') = Registered(disk)
  /\ state'.vapid = (IF disk.vapid = None THEN k ELSE disk.vapid)
  /\ state'.vapid # None

LEMMA RestartedIs ==
  ASSUME disk \in Store, badWrites \in 0..(MaxBadWrites + 1), NEW k \in Identities, state' = Generated(disk, k),
         IF state' = disk THEN UNCHANGED <<disk, badWrites>> ELSE PersistStore(<<state'>>)
  PROVE  RestartIs(k)
<1>1. /\ state' \in Store /\ state'.rows = disk.rows /\ Registered(state') = Registered(disk)
      /\ state'.vapid = (IF disk.vapid = None THEN k ELSE disk.vapid)
  BY DEF Generated, Store, Registered
<1>2. disk' \in {disk, state'} /\ badWrites' \in 0..(MaxBadWrites + 1)
  <2>1. CASE state' = disk
    BY <2>1
  <2>2. CASE state' # disk
    <3>1. PersistStore(<<state'>>) /\ Last(<<state'>>) = state' /\ ToSet(Front(<<state'>>)) = {}
      <4>1. Front(<<state'>>) = <<>>
        BY SubSeqEmpty DEF Front
      <4>2. QED
        BY <2>2, <4>1 DEF Last, ToSet
    <3>2. QED
      BY <3>1, PushAssumption DEF PersistStore
  <2>3. QED
    BY <2>1, <2>2
<1>3. QED
  BY <1>1, <1>2, PushAssumption DEF RestartIs

LEMMA PhoneKnows ==
  ASSUME TypeOK, KnownInv, PhoneNext \/ Expires \/ Rotates
  PROVE  StoreType' /\ KnownInv' /\ UNCHANGED <<state, disk, sends, truth, older, amiss>>
<1>1. UNCHANGED <<state, disk, sends, truth, older, amiss, unsaved, badWrites, kills>>
  BY DEF PhoneNext, OpenSettings, CloseApp, ToggleOn, EnableSubscribes, EnableEnds, ToggleOff, WorkerSubscribes,
         WorkerGivesUp, Expires, Rotates, proxy, health, bounds
<1>2. missed' \in {missed, "no"}
  BY DEF PhoneNext, OpenSettings, CloseApp, ToggleOn, EnableSubscribes, EnableEnds, ToggleOff, WorkerSubscribes,
         WorkerGivesUp, Expires, Rotates, Subscribe
<1>3. StoreType'
  BY <1>1, <1>2 DEF TypeOK, StoreType
<1>4. PhoneType
  BY Types
<1>5. CASE OpenSettings \/ ToggleOn \/ EnableEnds \/ ToggleOff \/ WorkerGivesUp \/ CloseApp
  <2>1. UNCHANGED <<sub, madeFor, served, missed>>
    BY <1>5 DEF OpenSettings, ToggleOn, EnableEnds, ToggleOff, WorkerGivesUp, CloseApp, held
  <2>2. \A r \in wire : \E q \in wire' : q.op = r.op /\ q.end = r.end
    <3>1. CASE CloseApp
      <4>1. \A r \in wire : LET q == IF r.who = "page" THEN [r EXCEPT !.who = "nobody"] ELSE r
                            IN  q \in wire' /\ q.op = r.op /\ q.end = r.end
        BY <1>4, <3>1 DEF CloseApp, PhoneType, Requests
      <4>2. QED
        BY <4>1
    <3>2. CASE OpenSettings \/ ToggleOn \/ EnableEnds \/ ToggleOff \/ WorkerGivesUp
      BY <3>2 DEF OpenSettings, ToggleOn, EnableEnds, ToggleOff, WorkerGivesUp
    <3>3. QED
      BY <1>5, <3>1, <3>2
  <2>3. QED
    BY <1>1, <1>3, <2>1, <2>2 DEF KnownInv, SameIdentity, KnownOrAsked
<1>6. CASE EnableSubscribes \/ WorkerSubscribes
  <2>1. PICK e \in Endpoints, w \in {"page", "worker"} : Subscribe(e) /\ wire' = wire \cup {Request("save", e, w)}
    BY <1>6 DEF EnableSubscribes, WorkerSubscribes
  <2>2. Request("save", e, w).op = "save" /\ Request("save", e, w).end = e
    BY DEF Request
  <2>3. sub' = e /\ (UNCHANGED <<sub, madeFor, served, missed>> \/ madeFor' = state.vapid)
    BY <2>1 DEF Subscribe, held
  <2>4. e # None
    BY PushAssumption
  <2>5. QED
    BY <1>1, <1>3, <2>1, <2>2, <2>3, <2>4 DEF KnownInv, SameIdentity, KnownOrAsked
<1>7. CASE Expires \/ Rotates
  <2>1. served' = FALSE /\ (UNCHANGED <<sub, madeFor>> \/ sub' = None)
    BY <1>7 DEF Expires, Rotates, NoSubscription
  <2>2. QED
    BY <1>1, <1>3, <2>1 DEF KnownInv, SameIdentity, KnownOrAsked
<1>8. QED
  BY <1>5, <1>6, <1>7 DEF PhoneNext

LEMMA ProxyKnows ==
  ASSUME TypeOK, KnownInv, HealthInv, ProxyNext
  PROVE  StoreType' /\ KnownInv' /\ UNCHANGED <<phone, wire, toggled>>
<1>1. UNCHANGED <<phone, wire, toggled>>
  BY DEF ProxyNext, SendPush, Answered, RemoveDevice, Kill
<1>2. UNCHANGED <<sub, madeFor, served, wire>>
  BY <1>1 DEF phone, held
<1>3. ASSUME NEW i \in Sends, SendPush(i) PROVE StoreType' /\ KnownInv'
  <2>1. UNCHANGED <<state, disk, truth, unsaved, missed, badWrites, kills>>
    BY <1>3 DEF SendPush, health, bounds
  <2>2. UNCHANGED <<older, amiss>>
    BY <1>3 DEF SendPush, health
  <2>3. sends' \in [Sends -> [open : SUBSET Endpoints, delivered : SUBSET Endpoints, failed : SUBSET Endpoints]]
    BY <1>3, StoreFields DEF SendPush, TypeOK
  <2>4. QED
    BY <1>2, <2>1, <2>2, <2>3 DEF StoreType, TypeOK, KnownInv, SameIdentity, KnownOrAsked
<1>4. ASSUME NEW i \in Sends, NEW e \in Endpoints, Answered(i, e) PROVE StoreType' /\ KnownInv'
  <2>1. PICK how \in Outcomes(e) : AnswerIs(i, e, how)
    BY <1>4, AnsweredIs DEF HealthInv
  <2>2. /\ state' \in Store /\ disk' \in Store /\ state'.vapid = state.vapid
        /\ disk'.vapid \in {disk.vapid, state.vapid}
    BY <2>1, WrittenIs DEF Written, AnswerIs
  <2>3. Tallied(sends[i], e, how) \in
          [open : SUBSET Endpoints, delivered : SUBSET Endpoints, failed : SUBSET Endpoints]
    BY <2>1, TalliedIs DEF AnswerIs, HealthInv
  <2>4. Quiet \in [open : SUBSET Endpoints, delivered : SUBSET Endpoints, failed : SUBSET Endpoints]
    BY DEF Quiet
  <2>5. sends' \in [Sends -> [open : SUBSET Endpoints, delivered : SUBSET Endpoints, failed : SUBSET Endpoints]]
    <3>1. sends' = [sends EXCEPT ![i] = IF Over(i, e, how) THEN Quiet ELSE Tallied(sends[i], e, how)]
      BY <2>1 DEF AnswerIs
    <3>2. QED
      BY <2>3, <2>4, <3>1 DEF TypeOK
  <2>6. truth' \in [Endpoints -> 0..MaxFailures]
    <3>1. truth[e] \in 0..MaxFailures /\ OneMore(truth[e]) \in 0..MaxFailures /\ 0 \in 0..MaxFailures
      BY RowTypes DEF TypeOK
    <3>2. truth' = [truth EXCEPT ![e] = IF how = "refused" /\ e \in Registered(state') THEN OneMore(@) ELSE 0]
      BY <2>1 DEF AnswerIs
    <3>3. QED
      BY <3>1, <3>2 DEF TypeOK
  <2>12. older' \subseteq Endpoints \X Sends \X Sends /\ amiss' \subseteq Endpoints
    <3>1. Order(i, e, how) \subseteq Endpoints \X Sends \X Sends
      BY DEF Order, Older, TypeOK
    <3>2. Registered(state') \subseteq Endpoints
      BY <2>2, StoreFields
    <3>3. QED
      BY <2>1, <3>1, <3>2 DEF AnswerIs, Judges, Overtaken
  <2>7. UNCHANGED <<unsaved, missed, kills>> /\ badWrites' \in 0..(MaxBadWrites + 1)
    BY <2>1 DEF AnswerIs, TypeOK
  <2>8. StoreType'
    BY <2>2, <2>5, <2>6, <2>7, <2>12 DEF StoreType, TypeOK
  <2>9. served /\ e = sub => how # "gone"
    BY <2>1 DEF AnswerIs, Outcomes
  <2>10. served /\ sub \in Registered(state) => sub \in Registered(state')
    BY <2>1, <2>9 DEF AnswerIs
  <2>11. QED
    BY <1>2, <2>2, <2>7, <2>8, <2>10 DEF KnownInv, SameIdentity, KnownOrAsked
<1>5. ASSUME NEW e \in Endpoints, RemoveDevice(e) PROVE StoreType' /\ KnownInv'
  <2>1. Written /\ state' = RemoveSubscription(state, e)
    BY <1>5, RemovedIs DEF RemoveDevice
  <2>2. Registered(state') = Registered(state) \ {e}
    BY <2>1, RemoveIs DEF TypeOK
  <2>3. /\ state' \in Store /\ disk' \in Store /\ state'.vapid = state.vapid
        /\ disk'.vapid \in {disk.vapid, state.vapid} /\ badWrites' \in 0..(MaxBadWrites + 1)
    BY <2>1, WrittenIs DEF Written
  <2>4. /\ truth' = [truth EXCEPT ![e] = 0] /\ UNCHANGED <<sends, unsaved, kills>>
        /\ older' \subseteq older /\ amiss' \subseteq amiss
        /\ missed' = IF sub' = None THEN "no" ELSE IF e = sub' THEN "revoked" ELSE missed
    BY <1>5 DEF RemoveDevice, Misses, NothingCounted
  <2>5. StoreType'
    BY <2>3, <2>4, RowTypes DEF StoreType, TypeOK
  <2>6. QED
    BY <1>2, <2>2, <2>3, <2>4, <2>5 DEF KnownInv, SameIdentity, KnownOrAsked
<1>6. ASSUME Kill PROVE StoreType' /\ KnownInv'
  <2>1. PICK k \in Identities :
          /\ state' = Generated(disk, k)
          /\ IF state' = disk THEN UNCHANGED <<disk, badWrites>> ELSE PersistStore(<<state'>>)
    BY <1>6 DEF Kill
  <2>2. RestartIs(k)
    BY <2>1, RestartedIs DEF TypeOK
  <2>3. /\ truth' = [e \in Endpoints |-> IF e \in Registered(disk) THEN disk.rows[e].failures ELSE 0]
        /\ sends' = [i \in Sends |-> Quiet] /\ older' = {} /\ amiss' = {} /\ kills' \in 0..MaxKills
        /\ missed' = IF sub \in Registered(state) \ Registered(disk) THEN "revoked" ELSE missed
        /\ unsaved' = (unsaved \/ disk.vapid = None)
    BY <1>6, PushAssumption DEF Kill, TypeOK
  <2>4. truth' \in [Endpoints -> 0..MaxFailures]
    BY <2>3, StoreFields, RowTypes DEF TypeOK
  <2>5. StoreType'
    BY <2>2, <2>3, <2>4 DEF StoreType, TypeOK, RestartIs, Quiet
  <2>6. SameIdentity'
    BY <1>2, <2>2, <2>3 DEF KnownInv, SameIdentity, RestartIs
  <2>7. KnownOrAsked'
    BY <1>2, <2>2, <2>3 DEF KnownInv, KnownOrAsked, RestartIs
  <2>8. QED
    BY <2>5, <2>6, <2>7 DEF KnownInv
<1>7. QED
  BY <1>1, <1>3, <1>4, <1>5, <1>6 DEF ProxyNext

\* What the two requests make of the store.
Saves(e) ==
  /\ Written /\ Registered(state') = Registered(state) \cup {e}
  /\ \A d \in Registered(state') : state'.rows[d] = IF d \in Registered(state) THEN state.rows[d] ELSE NewRow
  /\ amiss' = IF e \notin Registered(state) /\ Failing(e) # {} THEN amiss \cup {e} ELSE amiss
  /\ UNCHANGED <<truth, older>>

Forgets(e) ==
  /\ Written /\ Registered(state') = Registered(state) \ {e}
  /\ \A d \in Registered(state') : state'.rows[d] = state.rows[d]
  /\ NothingCounted(e)

LEMMA SubscribedIs ==
  ASSUME TypeOK, NEW r \in wire, Subscribed(r)
  PROVE  Saves(r.end)
<1>1. r.end \in Endpoints
  BY DEF TypeOK
<1>2. SaveSubscription(state, r.end) \in Writes(state) /\ state \in Store
  BY <1>1, SaveIs DEF TypeOK
<1>3. Written /\ state' = SaveSubscription(state, r.end)
  BY <1>2, WrittenOnce DEF Subscribed
<1>4. QED
  BY <1>1, <1>2, <1>3, SaveIs DEF Subscribed, Saves, Failing

LEMMA UnsubscribedIs ==
  ASSUME TypeOK, NEW r \in wire, Unsubscribed(r)
  PROVE  Forgets(r.end)
<1>1. state \in Store /\ state \in Writes(state) /\ badWrites \in 0..(MaxBadWrites + 1)
  BY DEF TypeOK, Writes
<1>2. CASE r.end \in Registered(state)
  <2>1. Written /\ state' = RemoveSubscription(state, r.end)
    BY <1>2, RemovedIs DEF Unsubscribed
  <2>2. QED
    BY <1>1, <2>1, RemoveIs DEF Unsubscribed, Forgets
<1>3. CASE r.end \notin Registered(state)
  <2>1. UNCHANGED <<state, disk, badWrites>>
    BY <1>3 DEF Unsubscribed, Commit
  <2>2. QED
    BY <1>1, <1>3, <2>1 DEF Unsubscribed, Forgets, Written
<1>4. QED
  BY <1>2, <1>3

LEMMA WireKnows ==
  ASSUME TypeOK, PhoneInv, KnownInv, NEW r \in wire, Served(r) \/ NotServed(r)
  PROVE  /\ PhoneType' /\ PhoneInv' /\ StoreType' /\ KnownInv' /\ UNCHANGED sends
         /\ \/ UNCHANGED <<state, disk, truth, older, amiss>>
            \/ Saves(r.end) \/ Forgets(r.end)
<1>1. PhoneType /\ r.end \in Endpoints /\ r.op \in {"save", "drop"} /\ None \notin Endpoints
  BY Types, PushAssumption DEF TypeOK
<1>2. \E how \in {"ok", "thrown", "error"} : GoesOn(r, how)
  BY DEF Served, NotServed
<1>3. /\ PhoneType' /\ PhoneInv' /\ wire \ {r} \subseteq wire'
      /\ UNCHANGED held \/ NoSubscription
  BY <1>1, <1>2, PhoneGoesOn
<1>4. UNCHANGED <<sub, madeFor, served>> \/ (sub' = None /\ served' = FALSE)
  BY <1>3 DEF held, NoSubscription
<1>5. ASSUME Served(r), Subscribed(r) PROVE StoreType' /\ KnownInv' /\ UNCHANGED sends /\ Saves(r.end)
  <2>1. Saves(r.end)
    BY <1>5, SubscribedIs
  <2>2. /\ state' \in Store /\ disk' \in Store /\ state'.vapid = state.vapid
        /\ disk'.vapid \in {disk.vapid, state.vapid} /\ badWrites' \in 0..(MaxBadWrites + 1)
    BY <2>1, WrittenIs DEF Saves, Written
  <2>3. /\ UNCHANGED <<sends, unsaved, kills>> /\ missed' \in {"no", missed}
    BY <1>5 DEF Served, Subscribed, Misses
  <2>4. StoreType'
    BY <1>1, <2>1, <2>2, <2>3 DEF StoreType, TypeOK, Saves
  <2>5. \A d \in Registered(state) : d \in Registered(state')
    BY <2>1 DEF Saves
  <2>6. r.end \in Registered(state') /\ (sub' # None /\ missed' # missed => r.end = sub')
    BY <1>4, <1>5, <2>1 DEF Subscribed, Misses, Saves
  <2>7. KnownOrAsked'
    <3>1. SUFFICES ASSUME served', missed' = "no"
                   PROVE  /\ sub' # None
                          /\ sub' \in Registered(state') \/ \E q \in wire' : q.op = "save" /\ q.end = sub'
      BY <1>4 DEF KnownInv, KnownOrAsked
    <3>2. UNCHANGED <<sub, served>> /\ sub # None
      BY <1>4, <3>1 DEF KnownInv, KnownOrAsked
    <3>3. CASE r.end = sub
      BY <2>6, <3>2, <3>3
    <3>4. CASE r.end # sub
      <4>1. missed = "no"
        BY <2>6, <3>1, <3>2, <3>4
      <4>2. sub \in Registered(state) \/ \E q \in wire : q.op = "save" /\ q.end = sub
        BY <3>1, <3>2, <4>1 DEF KnownInv, KnownOrAsked
      <4>3. \A q \in wire : q.end = sub => q \in wire'
        BY <1>3, <3>4
      <4>4. QED
        BY <2>5, <3>2, <4>2, <4>3
    <3>5. QED
      BY <3>3, <3>4
  <2>8. SameIdentity'
    BY <1>4, <2>2, <2>3 DEF KnownInv, SameIdentity
  <2>9. QED
    BY <2>1, <2>3, <2>4, <2>7, <2>8 DEF KnownInv
<1>6. ASSUME Served(r), Unsubscribed(r) PROVE StoreType' /\ KnownInv' /\ UNCHANGED sends /\ Forgets(r.end)
  <2>1. Forgets(r.end) /\ r.op = "drop"
    BY <1>6, UnsubscribedIs DEF Unsubscribed
  <2>2. /\ state' \in Store /\ disk' \in Store /\ state'.vapid = state.vapid
        /\ disk'.vapid \in {disk.vapid, state.vapid} /\ badWrites' \in 0..(MaxBadWrites + 1)
    BY <2>1, WrittenIs DEF Forgets, Written
  <2>3. /\ UNCHANGED <<sends, unsaved, kills>>
        /\ missed' = IF sub' = None THEN "no" ELSE IF r.end = sub' THEN "revoked" ELSE missed
    BY <1>6 DEF Served, Unsubscribed, Misses
  <2>4. StoreType'
    BY <1>1, <2>1, <2>2, <2>3, RowTypes DEF StoreType, TypeOK, Forgets, NothingCounted
  <2>5. \A d \in Registered(state) : d # r.end => d \in Registered(state')
    BY <2>1 DEF Forgets
  <2>6. \A q \in wire : q.op = "save" => q \in wire'
    BY <1>3, <2>1
  <2>7. KnownOrAsked'
    BY <1>4, <2>3, <2>5, <2>6 DEF KnownInv, KnownOrAsked
  <2>8. SameIdentity'
    BY <1>4, <2>2, <2>3 DEF KnownInv, SameIdentity
  <2>9. QED
    BY <2>1, <2>3, <2>4, <2>7, <2>8 DEF KnownInv
<1>7. ASSUME NotServed(r) PROVE StoreType' /\ KnownInv' /\ UNCHANGED <<sends, state, disk, truth, older, amiss>>
  <2>1. UNCHANGED <<state, disk, sends, truth, older, amiss, unsaved, badWrites, kills>>
    BY <1>7 DEF NotServed, proxy, health, bounds
  <2> DEFINE lost == IF r.op = "save" /\ r.end \notin Registered(state) THEN r.end ELSE None
  <2>2. missed' = IF sub' = None THEN "no" ELSE IF lost = sub' THEN "lost" ELSE missed
    BY <1>7 DEF NotServed, Misses
  <2>3. StoreType'
    BY <2>1, <2>2 DEF StoreType, TypeOK
  <2>4. KnownOrAsked'
    <3>1. SUFFICES ASSUME served', missed' = "no"
                   PROVE  /\ sub' # None
                          /\ sub' \in Registered(state') \/ \E q \in wire' : q.op = "save" /\ q.end = sub'
      BY <1>4 DEF KnownInv, KnownOrAsked
    <3>2. UNCHANGED <<sub, served>> /\ sub # None
      BY <1>4, <3>1 DEF KnownInv, KnownOrAsked
    <3>3. lost # sub /\ missed = "no"
      BY <2>2, <3>1, <3>2
    <3>4. sub \in Registered(state) \/ \E q \in wire : q.op = "save" /\ q.end = sub
      BY <3>1, <3>2, <3>3 DEF KnownInv, KnownOrAsked
    <3>5. \A q \in wire : q.op = "save" /\ q.end = sub => q \in wire' \/ sub \in Registered(state)
      BY <1>3, <3>3
    <3>6. QED
      BY <2>1, <3>2, <3>4, <3>5
  <2>5. SameIdentity'
    BY <1>4, <2>1 DEF KnownInv, SameIdentity
  <2>6. QED
    BY <2>1, <2>3, <2>4, <2>5 DEF KnownInv
<1>8. QED
  BY <1>3, <1>5, <1>6, <1>7 DEF Served

-----------------------------------------------------------------------------
(* The health of a device. *)

LEMMA HealthStays ==
  ASSUME HealthInv, UNCHANGED <<state, disk, sends, truth, older, amiss>>
  PROVE  HealthInv'
BY DEF HealthInv, Truthful, Once, Due, Delivering, Failing, Counting, Registered

LEMMA CapIs ==
  /\ \A n \in Nat : Cap(n) \in 0..MaxFailures /\ OneMore(Cap(n)) = Cap(n + 1)
  /\ Cap(0) = 0
  /\ \A n \in 0..MaxFailures, k \in Nat : k > 0 => Cap(OneMore(n) + (k - 1)) = Cap(n + k)
  /\ \A n \in 0..MaxFailures : OneMore(n) \in 0..MaxFailures
BY PushAssumption DEF Cap, OneMore

LEMMA CountingIs ==
  ASSUME NEW e
  PROVE  /\ Counting(e) \subseteq Failing(e) /\ Failing(e) \subseteq Sends
         /\ IsFiniteSet(Failing(e)) /\ IsFiniteSet(Counting(e))
         /\ Cardinality(Counting(e)) \in Nat
<1>1. Counting(e) \subseteq Failing(e) /\ Failing(e) \subseteq Sends
  BY DEF Counting, Failing
<1>2. IsFiniteSet(Failing(e)) /\ IsFiniteSet(Counting(e))
  BY <1>1, PushAssumption, FS_Subset
<1>3. QED
  BY <1>1, <1>2, FS_CardinalityType

\* A device none of whose answers, marks or rows a step touches owes what it did.
LEMMA DueStays ==
  ASSUME NEW e, Due(e), truth'[e] = truth[e], state'.rows[e].failures = state.rows[e].failures,
         Delivering(e)' = Delivering(e), Failing(e)' = Failing(e),
         \A i, j : <<e, i, j>> \in older <=> <<e, i, j>> \in older'
  PROVE  Due(e)'
<1>1. Counting(e)' = Counting(e)
  BY DEF Counting
<1>2. QED
  BY <1>1 DEF Due

\* A row with no refusal held owes nothing.
LEMMA DueAnew ==
  ASSUME NEW e, truth'[e] = 0, state'.rows[e].failures = 0, Failing(e)' = {}
  PROVE  Due(e)'
<1>1. Counting(e)' = {}
  BY DEF Counting
<1>2. Cardinality(Counting(e))' = 0
  BY <1>1, FS_EmptySet
<1>3. QED
  BY <1>2, CapIs DEF Due

LEMMA SaveKeepsHealth ==
  ASSUME TypeOK, HealthInv, NEW e \in Endpoints, Saves(e), UNCHANGED sends
  PROVE  HealthInv'
<1>1. Truthful(state)' /\ Truthful(disk)'
  BY WrittenIs DEF Saves, HealthInv
<1>2. /\ (\A i \in Sends : Once(sends[i]))'
      /\ (\A d \in Endpoints, i, j \in Sends : <<d, i, j>> \in older => Disagree(sends[i], sends[j], d))'
  BY DEF HealthInv, Once, Saves, Disagree
<1>3. (\A d \in Endpoints \ Registered(state) : truth[d] = 0)'
  BY DEF Saves, HealthInv
<1>4. \A d : Delivering(d)' = Delivering(d) /\ Failing(d)' = Failing(d)
  BY DEF Delivering, Failing
<1>5. ASSUME NEW d \in Registered(state'), d \notin amiss' PROVE Due(d)'
  <2>1. CASE d \in Registered(state)
    BY <1>4, <1>5, <2>1, DueStays DEF Saves, HealthInv
  <2>2. CASE d \notin Registered(state)
    <3>1. d = e /\ Failing(d) = {} /\ state'.rows[d] = NewRow /\ truth'[d] = 0
      BY <1>5, <2>2 DEF Saves, HealthInv
    <3>2. QED
      BY <1>4, <3>1, RowTypes, DueAnew
  <2>3. QED
    BY <2>1, <2>2
<1>6. QED
  BY <1>1, <1>2, <1>3, <1>5 DEF HealthInv

LEMMA ForgetKeepsHealth ==
  ASSUME TypeOK, HealthInv, NEW e \in Endpoints, Forgets(e), UNCHANGED sends
  PROVE  HealthInv'
<1>1. Truthful(state)' /\ Truthful(disk)'
  BY WrittenIs DEF Forgets, HealthInv
<1>2. older' = {t \in older : t[1] # e} /\ amiss' = amiss \ {e}
  BY DEF Forgets, NothingCounted
<1>3. \A d, i, j : <<d, i, j>> \in older' <=> <<d, i, j>> \in older /\ d # e
  BY <1>2
<1>4. /\ (\A i \in Sends : Once(sends[i]))'
      /\ (\A d \in Endpoints, i, j \in Sends : <<d, i, j>> \in older => Disagree(sends[i], sends[j], d))'
  BY <1>3 DEF HealthInv, Once, Disagree
<1>5. \A d \in Endpoints : truth'[d] = IF d = e THEN 0 ELSE truth[d]
  BY DEF Forgets, NothingCounted, TypeOK
<1>6. (\A d \in Endpoints \ Registered(state) : truth[d] = 0)'
  BY <1>5 DEF Forgets, HealthInv
<1>7. ASSUME NEW d \in Registered(state'), d \notin amiss' PROVE Due(d)'
  <2>1. d \in Registered(state) /\ d # e /\ d \in Endpoints
    BY <1>7, StoreFields DEF Forgets, TypeOK
  <2>2. truth'[d] = truth[d] /\ state'.rows[d] = state.rows[d] /\ Due(d)
    BY <1>2, <1>5, <1>7, <2>1 DEF Forgets, HealthInv
  <2>3. Delivering(d)' = Delivering(d) /\ Failing(d)' = Failing(d)
    BY DEF Delivering, Failing
  <2>4. QED
    BY <1>3, <2>1, <2>2, <2>3, DueStays
<1>8. QED
  BY <1>1, <1>4, <1>6, <1>7 DEF HealthInv

LEMMA SendKeepsHealth ==
  ASSUME TypeOK, HealthInv, NEW i \in Sends, SendPush(i)
  PROVE  HealthInv'
<1>1. UNCHANGED <<state, disk, truth, older, amiss>>
  BY DEF SendPush, health
<1>2. /\ sends[i].delivered = {} /\ sends[i].failed = {} /\ \A j \in Sends \ {i} : sends'[j] = sends[j]
      /\ sends'[i].delivered = {} /\ sends'[i].failed = {}
  BY DEF SendPush, TypeOK, Quiet
<1>3. \A j \in Sends : sends'[j].delivered = sends[j].delivered /\ sends'[j].failed = sends[j].failed
  BY <1>2
<1>4. Truthful(state)' /\ Truthful(disk)' /\ (\A d \in Endpoints \ Registered(state) : truth[d] = 0)'
  BY <1>1 DEF HealthInv, Truthful, Registered
<1>5. ASSUME NEW j \in Sends PROVE Once(sends[j])'
  BY <1>2 DEF HealthInv, Once
<1>6. (\A d \in Endpoints, j, k \in Sends : <<d, j, k>> \in older => Disagree(sends[j], sends[k], d))'
  BY <1>1, <1>3 DEF HealthInv, Disagree
<1>7. ASSUME NEW d \in Registered(state'), d \notin amiss' PROVE Due(d)'
  <2>1. Delivering(d)' = Delivering(d) /\ Failing(d)' = Failing(d)
    BY <1>3 DEF Delivering, Failing
  <2>2. Due(d)
    BY <1>1, <1>7 DEF HealthInv, Registered
  <2>3. QED
    BY <1>1, <2>1, <2>2, DueStays
<1>8. QED
  BY <1>4, <1>5, <1>6, <1>7 DEF HealthInv

\* What an answer does to the answers held for a device.
LEMMA HeldAfter ==
  ASSUME TypeOK, HealthInv, NEW i \in Sends, NEW e \in Endpoints, NEW how, AnswerIs(i, e, how), NEW d \in Endpoints
  PROVE  /\ Over(i, e, how) => /\ Delivering(d)' = Delivering(d) \ {i} /\ Failing(d)' = Failing(d) \ {i}
         /\ ~Over(i, e, how) /\ d # e => Delivering(d)' = Delivering(d) /\ Failing(d)' = Failing(d)
         /\ ~Over(i, e, how) =>
              /\ Delivering(e)' = Delivering(e) \cup (IF how = "accepted" THEN {i} ELSE {})
              /\ Failing(e)' = Failing(e) \cup (IF how = "refused" THEN {i} ELSE {})
         /\ i \notin Delivering(e) \cup Failing(e)
         /\ i \notin Delivering(d) \cap Failing(d)
<1> DEFINE send == Tallied(sends[i], e, how)
<1>1. /\ send.delivered = sends[i].delivered \cup (IF how = "accepted" THEN {e} ELSE {})
      /\ send.failed = sends[i].failed \cup (IF how = "refused" THEN {e} ELSE {})
      /\ e \in sends[i].open /\ Once(sends[i])
  BY TalliedIs DEF AnswerIs, HealthInv
<1>2. /\ sends'[i] = (IF Over(i, e, how) THEN Quiet ELSE send) /\ \A j \in Sends \ {i} : sends'[j] = sends[j]
  BY DEF AnswerIs, TypeOK
<1>3. Quiet.delivered = {} /\ Quiet.failed = {}
  BY DEF Quiet
<1> HIDE DEF send
<1>4. i \notin Delivering(e) \cup Failing(e) /\ i \notin Delivering(d) \cap Failing(d)
  BY <1>1 DEF Once, Delivering, Failing
<1>5. CASE Over(i, e, how)
  BY <1>2, <1>3, <1>4, <1>5 DEF Delivering, Failing
<1>6. CASE ~Over(i, e, how)
  <2>1. /\ Delivering(e)' = Delivering(e) \cup (IF how = "accepted" THEN {i} ELSE {})
        /\ Failing(e)' = Failing(e) \cup (IF how = "refused" THEN {i} ELSE {})
    BY <1>1, <1>2, <1>6 DEF Delivering, Failing
  <2>2. d # e => Delivering(d)' = Delivering(d) /\ Failing(d)' = Failing(d)
    BY <1>1, <1>2, <1>6 DEF Delivering, Failing
  <2>3. QED
    BY <1>4, <1>6, <2>1, <2>2
<1>7. QED
  BY <1>5, <1>6

\* ... and to their order.
LEMMA OrderAfter ==
  ASSUME TypeOK, HealthInv, NEW i \in Sends, NEW e \in Endpoints, NEW how, AnswerIs(i, e, how)
  PROVE  /\ \A d \in Registered(state'), j, k \in Sends :
              <<d, j, k>> \in Order(i, e, how) <=>
                \/ <<d, j, k>> \in older
                \/ /\ d = e /\ k = i /\ j # i
                   /\ (how = "accepted" /\ j \in Failing(e)) \/ (how = "refused" /\ j \in Delivering(e))
         /\ \A d \in Registered(state'), j, k \in Sends :
              <<d, j, k>> \in older' <=> <<d, j, k>> \in Order(i, e, how) /\ (Over(i, e, how) => i \notin {j, k})
         /\ \A d, j, k : <<d, j, k>> \in older' => d \in Registered(state')
         /\ \A j \in Sends : <<e, i, j>> \notin older /\ <<e, j, i>> \notin older
<1> DEFINE send == Tallied(sends[i], e, how)
<1>0. e \in sends[i].open
  BY DEF AnswerIs
<1>1. /\ send.delivered = sends[i].delivered \cup (IF how = "accepted" THEN {e} ELSE {})
      /\ send.failed = sends[i].failed \cup (IF how = "refused" THEN {e} ELSE {})
      /\ e \in sends[i].open /\ Once(sends[i])
  BY <1>0, TalliedIs DEF HealthInv
<1>2. \A j \in Sends : Disagree(send, sends[j], e) <=>
        (how = "accepted" /\ j \in Failing(e)) \/ (how = "refused" /\ j \in Delivering(e))
  BY <1>1 DEF Disagree, Once, Failing, Delivering
<1>3. \A j \in Sends : <<e, i, j>> \notin older /\ <<e, j, i>> \notin older
  BY <1>1 DEF HealthInv, Disagree, Once
<1>4. \A d, j, k : <<d, j, k>> \in Older(send, i, e) <=> d = e /\ k = i /\ j \in Sends \ {i} /\ Disagree(send, sends[j], e)
  BY DEF Older
<1> HIDE DEF send
<1>5. \A d, j, k : <<d, j, k>> \in Order(i, e, how) <=> <<d, j, k>> \in older \/ <<d, j, k>> \in Older(send, i, e)
  BY DEF Order, send
<1>6. ASSUME NEW d, NEW j, NEW k
      PROVE  /\ <<d, j, k>> \in older' => <<d, j, k>> \in Order(i, e, how) /\ d \in Registered(state')
             /\ <<d, j, k>> \in older' => (Over(i, e, how) => i # j /\ i # k)
             /\ <<d, j, k>> \in Order(i, e, how) /\ d \in Registered(state') /\ (Over(i, e, how) => i # j /\ i # k)
                  => <<d, j, k>> \in older'
  <2>1. PICK t : t = <<d, j, k>>
    OBVIOUS
  <2>2. t[1] = d /\ t[2] = j /\ t[3] = k
    BY <2>1
  <2>3. t \in older' <=> /\ t \in Order(i, e, how) /\ t[1] \in Registered(state')
                         /\ Over(i, e, how) => i \notin {t[2], t[3]}
    BY DEF AnswerIs, Judges
  <2>4. /\ t \in older' => t \in Order(i, e, how) /\ d \in Registered(state')
        /\ t \in older' => (Over(i, e, how) => i # j /\ i # k)
        /\ t \in Order(i, e, how) /\ d \in Registered(state') /\ (Over(i, e, how) => i # j /\ i # k) => t \in older'
    BY <2>2, <2>3
  <2>5. QED
    BY <2>1, <2>4, Zenon
<1>7. \A d \in Registered(state'), j, k \in Sends :
        <<d, j, k>> \in Order(i, e, how) <=>
          \/ <<d, j, k>> \in older
          \/ /\ d = e /\ k = i /\ j # i
             /\ (how = "accepted" /\ j \in Failing(e)) \/ (how = "refused" /\ j \in Delivering(e))
  <2>1. ASSUME NEW d \in Registered(state'), NEW j \in Sends, NEW k \in Sends
        PROVE  <<d, j, k>> \in Order(i, e, how) <=>
                 \/ <<d, j, k>> \in older
                 \/ /\ d = e /\ k = i /\ j # i
                    /\ (how = "accepted" /\ j \in Failing(e)) \/ (how = "refused" /\ j \in Delivering(e))
    <3>1. <<d, j, k>> \in Order(i, e, how) <=> <<d, j, k>> \in older \/ <<d, j, k>> \in Older(send, i, e)
      BY <1>5
    <3>2. <<d, j, k>> \in Older(send, i, e) <=> d = e /\ k = i /\ j # i /\ Disagree(send, sends[j], e)
      BY <1>4
    <3>3. QED
      BY <1>2, <3>1, <3>2
  <2>2. QED
    BY <2>1
<1>8. \A d \in Registered(state'), j, k \in Sends :
        <<d, j, k>> \in older' <=> <<d, j, k>> \in Order(i, e, how) /\ (Over(i, e, how) => i \notin {j, k})
  <2>1. ASSUME NEW d \in Registered(state'), NEW j \in Sends, NEW k \in Sends
        PROVE  <<d, j, k>> \in older' <=> <<d, j, k>> \in Order(i, e, how) /\ (Over(i, e, how) => i \notin {j, k})
    BY <1>6, Zenon
  <2>2. QED
    BY <2>1
<1>9. \A d, j, k : <<d, j, k>> \in older' => d \in Registered(state')
  BY <1>6, Zenon
<1>10. QED
  BY <1>3, <1>7, <1>8, <1>9

LEMMA AnswerKeepsHealth ==
  ASSUME TypeOK, HealthInv, NEW i \in Sends, NEW e \in Endpoints, Answered(i, e)
  PROVE  HealthInv'
<1>1. PICK how \in Outcomes(e) : AnswerIs(i, e, how)
  BY AnsweredIs DEF HealthInv
<1> DEFINE send == Tallied(sends[i], e, how)
           over == Over(i, e, how)
<1>2. /\ Once(send) /\ send.open = sends[i].open \ {e}
      /\ send.delivered = sends[i].delivered \cup (IF how = "accepted" THEN {e} ELSE {})
      /\ send.failed = sends[i].failed \cup (IF how = "refused" THEN {e} ELSE {})
      /\ e \in sends[i].open /\ Once(sends[i])
  BY <1>1, TalliedIs DEF AnswerIs, HealthInv
<1>3. how \in {"gone", "refused", "accepted"}
  BY DEF Outcomes
<1>4. /\ sends'[i] = (IF over THEN Quiet ELSE send) /\ \A j \in Sends \ {i} : sends'[j] = sends[j]
      /\ Registered(state') = (IF how = "gone" THEN Registered(state) \ {e} ELSE Registered(state))
      /\ Registered(state) \subseteq Endpoints
  BY <1>1, StoreFields DEF AnswerIs, TypeOK
<1>5. \A d \in Registered(state') :
        IF over
        THEN /\ d \in send.delivered => state'.rows[d] = NewRow
             /\ d \in send.failed => state'.rows[d].failures = OneMore(state.rows[d].failures)
             /\ d \notin send.delivered \cup send.failed => state'.rows[d] = state.rows[d]
        ELSE state'.rows[d] = state.rows[d]
  BY <1>1 DEF AnswerIs
<1>6. \A d \in Endpoints :
        /\ truth'[d] \in Nat
        /\ truth'[d] = IF d # e THEN truth[d]
                       ELSE IF how = "refused" /\ e \in Registered(state') THEN OneMore(truth[e]) ELSE 0
  <2>1. truth' = [truth EXCEPT ![e] = IF how = "refused" /\ e \in Registered(state') THEN OneMore(@) ELSE 0]
    BY <1>1 DEF AnswerIs
  <2>2. OneMore(truth[e]) \in Nat /\ \A d \in Endpoints : truth[d] \in Nat
    BY RowTypes, PushAssumption DEF TypeOK
  <2>3. QED
    BY <2>1, <2>2 DEF TypeOK
<1>7. Truthful(state)' /\ Truthful(disk)'
  BY <1>1, WrittenIs DEF AnswerIs, Written, HealthInv
<1> HIDE DEF send, over
<1>8. ASSUME NEW j \in Sends PROVE Once(sends[j])'
  BY <1>2, <1>4 DEF HealthInv, Once, Quiet
<1>9. ASSUME NEW d \in Endpoints, d \notin Registered(state') PROVE truth'[d] = 0
  BY <1>4, <1>6, <1>9 DEF HealthInv
<1>10. ASSUME NEW d \in Endpoints, NEW j \in Sends, NEW k \in Sends, <<d, j, k>> \in older'
       PROVE  Disagree(sends'[j], sends'[k], d)
  <2>1. d \in Registered(state') /\ <<d, j, k>> \in Order(i, e, how) /\ (over => i \notin {j, k})
    BY <1>1, <1>10, OrderAfter DEF over
  <2>2. CASE <<d, j, k>> \in older
    <3>1. Disagree(sends[j], sends[k], d)
      BY <2>2 DEF HealthInv
    <3>2. ASSUME NEW l \in {j, k}
          PROVE  (d \in sends[l].delivered => d \in sends'[l].delivered) /\ (d \in sends[l].failed => d \in sends'[l].failed)
      BY <1>2, <1>4, <2>1
    <3>3. QED
      BY <3>1, <3>2 DEF Disagree
  <2>3. CASE <<d, j, k>> \notin older
    <3>1. /\ d = e /\ k = i /\ j # i /\ ~over
          /\ (how = "accepted" /\ j \in Failing(e)) \/ (how = "refused" /\ j \in Delivering(e))
      BY <1>1, <2>1, <2>3, OrderAfter
    <3>2. QED
      BY <1>2, <1>4, <3>1 DEF Disagree, Failing, Delivering
  <2>4. QED
    BY <2>2, <2>3
<1>13. ASSUME NEW d \in Endpoints
       PROVE  /\ over => Delivering(d)' = Delivering(d) \ {i} /\ Failing(d)' = Failing(d) \ {i}
              /\ ~over /\ d # e => Delivering(d)' = Delivering(d) /\ Failing(d)' = Failing(d)
              /\ ~over /\ d = e =>
                   /\ Delivering(d)' = Delivering(d) \cup (IF how = "accepted" THEN {i} ELSE {})
                   /\ Failing(d)' = Failing(d) \cup (IF how = "refused" THEN {i} ELSE {})
              /\ d = e => i \notin Delivering(d) \cup Failing(d)
              /\ i \notin Delivering(d) \cap Failing(d)
  BY <1>1, HeldAfter DEF over
<1>11. ASSUME NEW d \in Registered(state'), d \notin amiss' PROVE Due(d)'
  <2>1. d \in Registered(state) /\ d \in Endpoints /\ state.rows[d].failures \in 0..MaxFailures
    BY <1>4, StoreFields DEF TypeOK
  <2>2. \/ over /\ d \in Settled(i, e, how)
        \/ /\ d \notin amiss
           /\ over => \A j \in Sends : <<d, j, i>> \notin Order(i, e, how)
    BY <1>1, <1>11 DEF AnswerIs, Judges, Overtaken, over
  <2>3. CASE over /\ d \in Settled(i, e, how)
    <3>1. d \in send.delivered /\ truth'[d] = 0 /\ \A j \in Sends \ {i} : j \notin Failing(d)
      BY <2>3 DEF Settled, send, Failing
    <3>2. Failing(d)' = {}
      <4>1. Failing(d)' = Failing(d) \ {i} /\ Failing(d) \subseteq Sends
        BY <1>13, <2>1, <2>3, CountingIs
      <4>2. QED
        BY <3>1, <4>1
    <3>3. state'.rows[d].failures = 0
      BY <1>5, <1>11, <2>3, <3>1, RowTypes
    <3>4. QED
      BY <3>1, <3>2, <3>3, DueAnew
  <2>4. ASSUME d \notin amiss, over => \A j \in Sends : <<d, j, i>> \notin Order(i, e, how)
        PROVE  Due(d)'
    <3> DEFINE D == Delivering(d)
               R == Failing(d)
               C == Counting(d)
               n == state.rows[d].failures
    <3>1. /\ \A a \in D, r \in R : <<d, a, r>> \in older \/ <<d, r, a>> \in older
          /\ truth[d] = Cap((IF D = {} THEN n ELSE 0) + Cardinality(C))
          /\ C = {r \in R : \A a \in D : <<d, a, r>> \in older}
      BY <2>1, <2>4 DEF HealthInv, Due, Counting
    <3>2. /\ C \subseteq R /\ R \subseteq Sends /\ D \subseteq Sends /\ IsFiniteSet(C)
          /\ Cardinality(C) \in Nat
      BY CountingIs DEF Delivering
    <3>3. Counting(d)' = {r \in Failing(d)' : \A a \in Delivering(d)' : <<d, a, r>> \in older'}
      BY DEF Counting
    <3>4. /\ Due(d)' <=>
               /\ \A a \in Delivering(d)', r \in Failing(d)' : <<d, a, r>> \in older' \/ <<d, r, a>> \in older'
               /\ truth'[d] = Cap((IF Delivering(d)' = {} THEN state'.rows[d].failures ELSE 0) + Cardinality(Counting(d)'))
      BY DEF Due
    <3>5. n \in 0..MaxFailures
      BY <2>1
    <3>6. CASE d # e /\ ~(over /\ i \in D \cup R)
      <4>1. Delivering(d)' = D /\ Failing(d)' = R
        BY <1>13, <2>1, <3>6
      <4>2. state'.rows[d] = state.rows[d] /\ truth'[d] = truth[d]
        BY <1>2, <1>5, <1>6, <1>11, <2>1, <3>6 DEF Delivering, Failing
      <4>3. \A j, k \in Sends : <<d, j, k>> \in older' <=> <<d, j, k>> \in older
        <5>1. \A j, k \in Sends : <<d, j, k>> \in older => Disagree(sends[j], sends[k], d)
          BY <2>1 DEF HealthInv
        <5>2. \A j, k \in Sends : <<d, j, k>> \in older => {j, k} \subseteq D \cup R
          BY <5>1 DEF Disagree, Delivering, Failing
        <5>3. QED
          BY <1>1, <1>11, <3>6, <5>2, OrderAfter DEF over
      <4>4. Counting(d)' = C
        BY <3>1, <3>2, <3>3, <4>1, <4>3
      <4>5. QED
        BY <3>1, <3>2, <3>4, <4>1, <4>2, <4>3, <4>4
    <3>7. CASE over /\ i \in R /\ d # e
      <4>1. i \notin D /\ Delivering(d)' = D /\ Failing(d)' = R \ {i}
        BY <1>13, <2>1, <3>7
      <4>2. state'.rows[d].failures = OneMore(n) /\ truth'[d] = truth[d]
        BY <1>2, <1>5, <1>6, <1>11, <2>1, <3>7 DEF Failing
      <4>3. \A j, k \in Sends \ {i} : <<d, j, k>> \in older' <=> <<d, j, k>> \in older
        BY <1>1, <1>11, <3>7, OrderAfter DEF over
      <4>4. \A a \in D : <<d, a, i>> \notin older
        BY <1>1, <1>11, <2>4, <3>2, <3>7, OrderAfter
      <4>5. \A a \in Delivering(d)', r \in Failing(d)' : <<d, a, r>> \in older' \/ <<d, r, a>> \in older'
        BY <3>1, <3>2, <4>1, <4>3
      <4>6. CASE D = {}
        <5>1. C = R /\ Counting(d)' = C \ {i}
          BY <3>1, <3>3, <4>1, <4>6
        <5>2. Cardinality(Counting(d)') = Cardinality(C) - 1
          <6>1. i \in C
            BY <3>7, <5>1
          <6> HIDE DEF C
          <6>2. Cardinality(C \ {i}) = Cardinality(C) - 1
            BY <3>2, <6>1, FS_RemoveElement
          <6>3. QED
            BY <5>1, <6>2
        <5>3. Cardinality(C) > 0
          <6>1. C # {}
            BY <3>7, <5>1
          <6>2. QED
            BY <3>2, <6>1, FS_EmptySet
        <5>4. Cap(OneMore(n) + (Cardinality(C) - 1)) = Cap(n + Cardinality(C))
          BY <3>2, <3>5, <5>3, CapIs
        <5>5. QED
          BY <3>1, <3>4, <4>1, <4>2, <4>5, <4>6, <5>2, <5>4
      <4>7. CASE D # {}
        <5>1. i \notin C
          BY <3>1, <4>4, <4>7
        <5>2. Counting(d)' = C
          BY <3>1, <3>2, <3>3, <4>1, <4>3, <5>1
        <5>3. QED
          BY <3>1, <3>4, <4>1, <4>2, <4>5, <4>7, <5>2
      <4>8. QED
        BY <4>6, <4>7
    <3>8. CASE over /\ i \in D /\ d # e
      <4>1. i \notin R /\ Delivering(d)' = D \ {i} /\ Failing(d)' = R
        BY <1>13, <2>1, <3>8
      <4>2. state'.rows[d].failures = 0 /\ truth'[d] = truth[d]
        BY <1>2, <1>5, <1>6, <1>11, <2>1, <3>8, RowTypes DEF Delivering
      <4>3. \A j, k \in Sends \ {i} : <<d, j, k>> \in older' <=> <<d, j, k>> \in older
        BY <1>1, <1>11, <3>8, OrderAfter DEF over
      <4>4. \A r \in R : <<d, i, r>> \in older
        <5>1. \A r \in R : <<d, r, i>> \notin older
          BY <1>1, <1>11, <2>4, <3>2, <3>8, OrderAfter
        <5>2. QED
          BY <3>1, <3>8, <5>1
      <4>5. \A a \in Delivering(d)', r \in Failing(d)' : <<d, a, r>> \in older' \/ <<d, r, a>> \in older'
        BY <3>1, <3>2, <4>1, <4>3
      <4>6. Counting(d)' = C
        BY <3>1, <3>2, <3>3, <4>1, <4>3, <4>4
      <4>7. QED
        BY <3>1, <3>4, <3>8, <4>1, <4>2, <4>5, <4>6
    <3>9. CASE d = e
      <4>1. /\ i \notin D /\ i \notin R /\ how # "gone"
            /\ \A j \in Sends : <<d, i, j>> \notin older /\ <<d, j, i>> \notin older
        BY <1>1, <1>4, <1>11, <1>13, <2>1, <3>9, OrderAfter
      <4>2. \A j, k \in Sends \ {i} : <<d, j, k>> \in older' <=> <<d, j, k>> \in older
        BY <1>1, <1>11, OrderAfter
      <4>3. CASE over
        <5>1. Delivering(d)' = D /\ Failing(d)' = R
          BY <1>13, <2>1, <4>1, <4>3
        <5>2. (how = "accepted" => R = {}) /\ (how = "refused" => D = {})
          <6>1. \A j \in Sends : <<d, j, i>> \notin Order(i, e, how)
            BY <2>4, <4>3
          <6>2. ASSUME NEW j \in Sends, j # i, (how = "accepted" /\ j \in R) \/ (how = "refused" /\ j \in D)
                PROVE  FALSE
            <7>1. <<d, j, i>> \in Order(i, e, how)
              BY <1>1, <1>11, <3>9, <6>2, OrderAfter
            <7>2. QED
              BY <6>1, <7>1
          <6>3. QED
            BY <3>2, <4>1, <6>2
        <5>3. CASE how = "accepted"
          BY <1>2, <1>5, <1>6, <1>11, <2>1, <3>9, <4>3, <5>1, <5>2, <5>3, RowTypes, DueAnew
        <5>4. CASE how = "refused"
          <6>1. /\ truth'[d] = OneMore(truth[d]) /\ state'.rows[d].failures = OneMore(n)
            BY <1>2, <1>5, <1>6, <1>11, <2>1, <3>9, <4>3, <5>4
          <6>2. Counting(d)' = C /\ D = {}
            BY <3>1, <3>3, <5>1, <5>2, <5>4
          <6>3. Cap(OneMore(n) + Cardinality(C)) = OneMore(Cap(n + Cardinality(C)))
            BY <3>2, <3>5, PushAssumption DEF Cap, OneMore
          <6>4. QED
            BY <3>1, <3>4, <5>1, <6>1, <6>2, <6>3
        <5>5. QED
          BY <1>3, <4>1, <5>3, <5>4
      <4>4. CASE ~over /\ how = "accepted"
        <5>1. Delivering(d)' = D \cup {i} /\ Failing(d)' = R
          BY <1>13, <2>1, <3>9, <4>4
        <5>2. \A r \in R : <<d, r, i>> \in older' /\ <<d, i, r>> \notin older'
          BY <1>1, <1>11, <3>2, <3>9, <4>1, <4>4, OrderAfter DEF over
        <5>3. Counting(d)' = {}
          BY <3>3, <5>1, <5>2
        <5>4. \A a \in Delivering(d)', r \in Failing(d)' : <<d, a, r>> \in older' \/ <<d, r, a>> \in older'
          BY <3>1, <3>2, <4>1, <4>2, <5>1, <5>2
        <5>5. truth'[d] = 0 /\ Delivering(d)' # {}
          BY <1>6, <2>1, <3>9, <4>4, <5>1
        <5>6. QED
          BY <3>4, <5>3, <5>4, <5>5, FS_EmptySet, CapIs
      <4>5. CASE ~over /\ how = "refused"
        <5>1. Delivering(d)' = D /\ Failing(d)' = R \cup {i}
          BY <1>13, <2>1, <3>9, <4>5
        <5>2. \A a \in D : <<d, a, i>> \in older'
          BY <1>1, <1>11, <3>2, <3>9, <4>1, <4>5, OrderAfter DEF over
        <5>3. \A a \in Delivering(d)', r \in Failing(d)' : <<d, a, r>> \in older' \/ <<d, r, a>> \in older'
          BY <3>1, <3>2, <4>1, <4>2, <5>1, <5>2
        <5>4. Counting(d)' = C \cup {i}
          BY <3>1, <3>2, <3>3, <4>1, <4>2, <5>1, <5>2
        <5>5. Cardinality(Counting(d)') = Cardinality(C) + 1
          BY <3>2, <4>1, <5>4, FS_AddElement
        <5>6. truth'[d] = OneMore(truth[d]) /\ state'.rows[d] = state.rows[d]
          BY <1>5, <1>6, <1>11, <2>1, <3>9, <4>5
        <5>7. QED
          BY <3>1, <3>2, <3>4, <3>5, <5>1, <5>3, <5>5, <5>6, PushAssumption DEF Cap, OneMore
      <4>6. QED
        BY <1>3, <4>1, <4>3, <4>4, <4>5
    <3>10. QED
      BY <3>6, <3>7, <3>8, <3>9
  <2>5. QED
    BY <2>2, <2>3, <2>4
<1>12. QED
  BY <1>7, <1>8, <1>9, <1>10, <1>11 DEF HealthInv

LEMMA KillKeepsHealth ==
  ASSUME TypeOK, HealthInv, Kill
  PROVE  HealthInv'
<1>1. PICK k \in Identities :
        /\ state' = Generated(disk, k)
        /\ IF state' = disk THEN UNCHANGED <<disk, badWrites>> ELSE PersistStore(<<state'>>)
  BY DEF Kill
<1>2. RestartIs(k)
  BY <1>1, RestartedIs DEF TypeOK
<1>3. /\ truth' = [e \in Endpoints |-> IF e \in Registered(disk) THEN disk.rows[e].failures ELSE 0]
      /\ sends' = [i \in Sends |-> Quiet] /\ older' = {}
  BY DEF Kill
<1>4. Truthful(state)' /\ Truthful(disk)'
  BY <1>2 DEF RestartIs, HealthInv, Truthful, Registered
<1>5. \A i \in Sends : Once(sends'[i]) /\ sends'[i].delivered = {} /\ sends'[i].failed = {}
  BY <1>3 DEF Once, Quiet
<1>6. /\ Registered(state') = Registered(disk) /\ state'.rows = disk.rows /\ Registered(disk) \subseteq Endpoints
      /\ \A e \in Registered(disk) : disk.rows[e].failures \in 0..MaxFailures
  BY <1>2, StoreFields DEF RestartIs, TypeOK
<1>7. (\A e \in Endpoints \ Registered(state) : truth[e] = 0)'
  BY <1>3, <1>6
<1>8. ASSUME NEW e \in Registered(state') PROVE Due(e)'
  <2>1. truth'[e] = state'.rows[e].failures /\ state'.rows[e].failures \in 0..MaxFailures
    BY <1>3, <1>6, <1>8
  <2>2. Delivering(e)' = {} /\ Failing(e)' = {}
    BY <1>5 DEF Delivering, Failing
  <2>3. Cardinality(Counting(e))' = 0
    BY <2>2, FS_EmptySet DEF Counting
  <2>4. QED
    BY <2>1, <2>2, <2>3, PushAssumption DEF Due, Cap
<1>9. QED
  BY <1>3, <1>4, <1>5, <1>7, <1>8 DEF HealthInv

-----------------------------------------------------------------------------

LEMMA PushInvInit == Init => PushInv
<1> SUFFICES ASSUME Init PROVE PushInv
  OBVIOUS
<1>1. PICK k \in Identities : state = Generated([vapid |-> None, rows |-> <<>>], k)
  BY DEF Init
<1>2. /\ state = [vapid |-> k, rows |-> <<>>]
      /\ disk \in {state, [vapid |-> None, rows |-> <<>>]}
  BY <1>1 DEF Init, Generated
<1>3. <<>> \in [{} -> DeviceRow] /\ DOMAIN <<>> = {}
  OBVIOUS
<1>4. state \in Store /\ disk \in Store /\ Registered(state) = {} /\ Registered(disk) = {}
  <2>1. ASSUME NEW v \in Identities \cup {None}
        PROVE  [vapid |-> v, rows |-> <<>>] \in Store /\ Registered([vapid |-> v, rows |-> <<>>]) = {}
    <3> DEFINE no == <<>>
    <3>1. no \in UNION {[D -> DeviceRow] : D \in SUBSET Endpoints} /\ DOMAIN no = {}
      BY <1>3
    <3> HIDE DEF no
    <3>2. [vapid |-> v, rows |-> no] \in Store /\ Registered([vapid |-> v, rows |-> no]) = {}
      BY <3>1 DEF Store, Registered
    <3>3. QED
      BY <3>2 DEF no
  <2>2. QED
    BY <1>2, <2>1
<1>5. sends \in [Sends -> [open : SUBSET Endpoints, delivered : SUBSET Endpoints, failed : SUBSET Endpoints]]
  BY DEF Init, Quiet
<1>6. StoreType
  <2>1. state.vapid # None
    BY <1>2, PushAssumption
  <2>2. truth \in [Endpoints -> 0..MaxFailures] /\ older = {} /\ amiss = {} /\ unsaved = FALSE /\ missed = "no"
    BY RowTypes DEF Init
  <2>3. badWrites \in 0..(MaxBadWrites + 1) /\ kills \in 0..MaxKills
    BY PushAssumption DEF Init
  <2>4. QED
    BY <1>4, <1>5, <2>1, <2>2, <2>3 DEF StoreType
<1>7. PhoneType
  BY DEF Init, PhoneType, Phones, Workers, Closed
<1>8. PhoneInv
  BY DEF Init, PhoneInv, PageWaits, WorkerWaits, NothingToDrop, DropsItsOwn, Closed
<1>9. KnownInv
  BY <1>2 DEF Init, KnownInv, SameIdentity, KnownOrAsked
<1>10. HealthInv
  BY <1>4 DEF Init, HealthInv, Truthful, Once, Quiet
<1>11. QED
  BY <1>6, <1>7, <1>8, <1>9, <1>10, Types DEF PushInv

LEMMA PushInvStep == PushInv /\ [Next]_vars => PushInv'
<1> SUFFICES ASSUME PushInv, [Next]_vars PROVE PushInv'
  OBVIOUS
<1>1. TypeOK /\ PhoneType /\ StoreType /\ PhoneInv /\ KnownInv /\ HealthInv
  BY Types DEF PushInv
<1>2. TypeOK' <=> PhoneType' /\ StoreType'
  BY DEF TypeOK, PhoneType, StoreType, Phones, Workers, Requests
<1>3. CASE PhoneNext \/ Expires \/ Rotates
  <2>1. PhoneType' /\ PhoneInv'
    BY <1>1, <1>3, PhoneAlone, PhoneAsks DEF PhoneNext, StoreType
  <2>2. StoreType' /\ KnownInv' /\ HealthInv'
    BY <1>1, <1>3, PhoneKnows, HealthStays
  <2>3. QED
    BY <1>2, <2>1, <2>2 DEF PushInv
<1>4. CASE ProxyNext
  <2>1. StoreType' /\ KnownInv' /\ UNCHANGED <<phone, wire, toggled>>
    BY <1>1, <1>4, ProxyKnows
  <2>2. PhoneType' /\ PhoneInv'
    BY <1>1, <2>1 DEF phone, held, PhoneType, PhoneInv, PageWaits, WorkerWaits, NothingToDrop, DropsItsOwn
  <2>3. ASSUME NEW e \in Endpoints, RemoveDevice(e) PROVE HealthInv'
    <3>1. Written /\ state' = RemoveSubscription(state, e)
      BY <1>1, <2>3, RemovedIs DEF RemoveDevice
    <3>2. Forgets(e) /\ UNCHANGED sends
      BY <1>1, <2>3, <3>1, RemoveIs DEF RemoveDevice, Forgets, TypeOK
    <3>3. QED
      BY <1>1, <3>2, ForgetKeepsHealth
  <2>4. HealthInv'
    BY <1>1, <1>4, <2>3, SendKeepsHealth, AnswerKeepsHealth, KillKeepsHealth DEF ProxyNext
  <2>5. QED
    BY <1>2, <2>1, <2>2, <2>4 DEF PushInv
<1>5. ASSUME NEW r \in wire, Served(r) \/ NotServed(r) PROVE PushInv'
  <2>1. /\ PhoneType' /\ PhoneInv' /\ StoreType' /\ KnownInv' /\ UNCHANGED sends
        /\ \/ UNCHANGED <<state, disk, truth, older, amiss>>
           \/ Saves(r.end) \/ Forgets(r.end)
    BY <1>1, <1>5, WireKnows
  <2>2. r.end \in Endpoints
    BY <1>1 DEF TypeOK
  <2>3. HealthInv'
    BY <1>1, <2>1, <2>2, HealthStays, SaveKeepsHealth, ForgetKeepsHealth
  <2>4. QED
    BY <1>2, <2>1, <2>3 DEF PushInv
<1>6. CASE UNCHANGED vars
  <2>1. UNCHANGED <<state, disk, sends, sub, madeFor, served, page, worker, wire, truth, older, amiss, unsaved, missed,
                    toggled, badWrites, kills>>
    BY <1>6 DEF vars, proxy, phone, held, health, bounds
  <2>2. PhoneType' /\ StoreType'
    BY <1>1, <2>1 DEF PhoneType, StoreType
  <2>3. PhoneInv' /\ KnownInv'
    BY <1>1, <2>1 DEF PhoneInv, PageWaits, WorkerWaits, NothingToDrop, DropsItsOwn, KnownInv, SameIdentity,
                      KnownOrAsked
  <2>4. HealthInv'
    BY <1>1, <2>1, HealthStays
  <2>5. QED
    BY <1>2, <2>2, <2>3, <2>4 DEF PushInv
<1>7. QED
  BY <1>3, <1>4, <1>5, <1>6 DEF Next

\* What the phone and the proxy know of each other, in every reachable state.
THEOREM PushInvariant == Spec => []PushInv
BY PushInvInit, PushInvStep, PTL DEF Spec

\* disablePush (web/src/lib/push.ts) gives the browser's subscription up whatever
\* became of its request: once the switch is off, no banner can arrive.
THEOREM PushOffIsOff == Spec => []OffIsOff
<1>1. PushInv => OffIsOff
  BY DEF PushInv, PhoneInv, NothingToDrop, OffIsOff
<1>2. QED
  BY <1>1, PushInvariant, PTL

\* A phone whose switch shows on is a device of the proxy (push/store.ts), for
\* the identity it subscribed under: only a lost registration, a removal by hand
\* or a kill after a failed write comes between them.
THEOREM PushKnownUnlessMissed == Spec => []KnownUnlessMissed
<1>1. PushInv => KnownUnlessMissed
  <2> SUFFICES ASSUME PushInv, CalledOn, missed = "no"
               PROVE  sub \in Registered(state) /\ (unsaved \/ madeFor = state.vapid)
    BY DEF KnownUnlessMissed
  <2>1. wire = {} /\ served /\ sub # None
    BY DEF CalledOn, AtRest, PushInv, KnownInv, KnownOrAsked
  <2>2. QED
    BY <2>1 DEF PushInv, KnownInv, SameIdentity, KnownOrAsked
<1>2. QED
  BY <1>1, PushInvariant, PTL

\* markSent and markFailed (push/store.ts) are written after the last answer of a
\* fan-out, over rows that may have gone or come back, and by fan-outs that
\* overlap: what a row counts is what the push service answered, in the order in
\* which it did, unless two answers that disagree were written the other way round.
THEOREM PushHealthIsTrue == Spec => []HealthIsTrueUnlessCrossed
<1>1. PushInv => HealthIsTrueUnlessCrossed
  <2> SUFFICES ASSUME PushInv, NEW e \in Registered(state) \ (amiss \cup Held)
               PROVE  state.rows[e] = [failures |-> truth[e], lastError |-> truth[e] > 0]
    BY DEF HealthIsTrueUnlessCrossed
  <2>1. state.rows[e] \in DeviceRow /\ state.rows[e].failures \in 0..MaxFailures
    BY StoreFields DEF PushInv, TypeOK
  <2>2. Delivering(e) = {} /\ Failing(e) = {}
    BY DEF Delivering, Failing, Held, HeldOf
  <2>3. Cardinality(Counting(e)) = 0
    BY <2>2, FS_EmptySet DEF Counting
  <2>4. truth[e] = state.rows[e].failures
    BY <2>1, <2>2, <2>3, PushAssumption DEF PushInv, HealthInv, Due, Cap
  <2>5. state.rows[e].lastError <=> state.rows[e].failures > 0
    BY DEF PushInv, HealthInv, Truthful
  <2>6. state.rows[e] = [failures |-> state.rows[e].failures, lastError |-> state.rows[e].lastError]
    BY <2>1 DEF DeviceRow
  <2>7. state.rows[e].lastError = (truth[e] > 0)
    BY <2>1, <2>4, <2>5 DEF DeviceRow
  <2>8. QED
    BY <2>4, <2>6, <2>7
<1>2. QED
  BY <1>1, PushInvariant, PTL

=============================================================================
