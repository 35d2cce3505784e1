------------------------- MODULE SessionSweepProofs -------------------------
(***************************************************************************)
(* What holds of the session sweep for every set of sessions, any number   *)
(* of turns and any number of stops and kills of the proxy.                *)
(*                                                                         *)
(* Each invariant about replies is stated of two watermarks, the one in    *)
(* memory and the one in the file: the second becomes the first when the   *)
(* process is cut short.                                                   *)
(***************************************************************************)
EXTENDS SessionSweep, TLAPS

\* The store keeps its shape, and the file has the old marks or those of memory.
Follows(f, g) ==
  /\ g \in FeedType
  /\ g.disk.watermarks \in {f.disk.watermarks, g.mem.watermarks}

-----------------------------------------------------------------------------
(* Banners. *)

\* The banners of sessions that are not in the list are coming down.
Leaving == pass.at = "gone" \/ (pass.at = "retract" /\ pass.then = "gone")

\* What was announced was last seen waiting, and so is what is about to be.
AnnouncedWait ==
  /\ \A s \in announced : marks[s].status = "waiting" \/ (Leaving /\ s \notin Seen)
  /\ pass.at = "detail" => \A s \in pass.who : marks[s].status = "waiting"

\* The process knows of every banner that is not lost.
BannersKnown ==
  \A s \in banner : s \in lost \/ s \in announced \/ (pass.at = "retract" /\ s \in pass.who)

\* A question that has been open since before the pass is open in its list, and
\* no retraction is under way for it.
OpenListed ==
  /\ \A s \in open :
       /\ s \in registry /\ status[s] = "waiting"
       /\ pass.at \notin {"idle", "list"} => pass.rows[s].status = "waiting"
  /\ pass.at = "retract" => \A s \in pass.who : pass.rows[s].status # "waiting"

BannerInv == AnnouncedWait /\ BannersKnown /\ OpenListed

-----------------------------------------------------------------------------
(* Replies. *)

Told(s) == replies[s] + (IF Busy(s) THEN 1 ELSE 0)

\* As many announcements as a session may have had.
Allowance(s) == turns[s] + lapsed[s]

\* What a pass or a watermark knows of a session is something it was.
Was(s, m) ==
  /\ m.count <= count[s]
  /\ m.count = count[s] /\ m.status = "idle" => status[s] = "idle"

MarksWere(s) == Was(s, marks[s]) /\ Was(s, filed[s])
RowsWere(s) ==
  s \in pass.todo => /\ Was(s, pass.rows[s]) /\ pass.rows[s] # NoMark
                     /\ marks[s].count <= pass.rows[s].count

\* The announcements stay behind the allowance: by one while a turn is under way
\* or something of it is not recorded, by two where the pass is about to tell of
\* a turn before that.
Behind(s) ==
  /\ Told(s) <= Allowance(s)
  /\ status[s] # "idle" => Told(s) < Allowance(s)
  /\ marks[s] # NoMark /\ marks[s].count # count[s] => Told(s) < Allowance(s)
  /\ s \in pass.todo /\ pass.rows[s].count # count[s] => Told(s) < Allowance(s)
  /\ s \in pass.todo /\ pass.rows[s].status = "idle" /\ pass.rows[s].count # count[s]
       /\ marks[s] # NoMark /\ marks[s].count < pass.rows[s].count
       => Told(s) + 1 < Allowance(s)

Reply(s) == MarksWere(s) /\ RowsWere(s) /\ Behind(s)

-----------------------------------------------------------------------------
(* The known gaps. *)

\* What is owed is over, and has a watermark unless that was forgotten.
OwedIsOver(s) ==
  s \in owed => /\ s \in registry /\ status[s] = "idle"
                /\ source[s] = "person" /\ produced[s] > 0
                /\ marks[s] # NoMark \/ s \in excused

\* Whoever is seen, or filed, in flight with the reply appended is excused.
InFlightIn(s, m) == m.count = count[s] /\ m.status # "idle" /\ m # NoMark
SeenSpoken(s) ==
  /\ s \in spoken => status[s] = "working"
  /\ s \in spoken \cup owed =>
      /\ InFlightIn(s, marks[s]) => s \in excused
      /\ InFlightIn(s, filed[s]) => s \in excused
      /\ s \in pass.todo /\ InFlightIn(s, pass.rows[s]) => s \in excused

\* The file does not know better than the process that is about to tell.
FiledGap(s) ==
  s \in owed /\ filed[s] = Snapshot(s) /\ ~(Busy(s) /\ filed[s] = marks[s]) => s \in excused

Gap(s) ==
  /\ OwedIsOver(s) /\ SeenSpoken(s)
  /\ s \in owed /\ Swallowed(s) => s \in excused
  /\ FiledGap(s)

-----------------------------------------------------------------------------
(* Types. *)

\* A turn under way has room for its reply.
Room == \A s \in Sessions : status[s] # "idle" /\ s \notin spoken => count[s] + 1 <= MaxCount

LEMMA Constants ==
  /\ MaxCount \in Nat /\ MaxRestarts \in Nat
  /\ Mark = Values \cup {NoMark} /\ Keys = Sessions
  /\ NoMark \in Mark /\ NoMark.status = "none" /\ NoMark.count = 0
  /\ \A m \in Mark : m = NoMark \/ m.status \in Status
  /\ \A m \in Mark : m.count \in Nat
  /\ Idle.at = "idle" /\ Idle.todo = {} /\ Idle.who = {}
  /\ "none" \notin Status
<1>1. /\ MaxCount \in Nat /\ MaxRestarts \in Nat /\ Keys = Sessions
      /\ Values = [status : Status, count : 0..MaxCount]
      /\ NoMark = [status |-> "none", count |-> 0]
  BY SweepAssumption
<1>2. Mark = Values \cup {NoMark}
  BY <1>1 DEF Mark
<1>3. NoMark.status = "none" /\ NoMark.count = 0 /\ "none" \notin Status
  BY <1>1 DEF Status, InFlightStatus
<1>4. \A m \in Mark : m = NoMark \/ m.status \in Status
  BY DEF Mark
<1>5. \A m \in Mark : m.count \in Nat
  BY <1>1, <1>3 DEF Mark
<1>6. Idle.at = "idle" /\ Idle.todo = {} /\ Idle.who = {}
  BY DEF Idle
<1>7. QED
  BY <1>1, <1>2, <1>3, <1>4, <1>5, <1>6

LEMMA SnapshotIsMark ==
  ASSUME TypeOK, NEW s \in Sessions
  PROVE  /\ Snapshot(s) \in Mark /\ Snapshot(s) # NoMark
         /\ Snapshot(s).status = status[s] /\ Snapshot(s).count = count[s]
<1>1. Snapshot(s) \in Mark /\ Snapshot(s).status = status[s] /\ Snapshot(s).count = count[s]
  BY DEF TypeOK, Snapshot, Mark
<1>2. Snapshot(s).status \in Status
  BY DEF TypeOK, Snapshot
<1>3. QED
  BY <1>1, <1>2, Constants

LEMMA MarksType ==
  ASSUME TypeOK
  PROVE  marks \in [Sessions -> Mark] /\ filed \in [Sessions -> Mark]
BY Constants DEF TypeOK, FeedType, FileShape, marks, filed

-----------------------------------------------------------------------------
(* The operations of the store the sweep uses. *)

LEMMA WritingFollows ==
  ASSUME NEW f, f \in FeedType
  PROVE  /\ Follows(f, Persist(f, TRUE)) /\ Persist(f, TRUE).mem = f.mem
         /\ Follows(f, CooldownEnds(f, TRUE)) /\ CooldownEnds(f, TRUE).mem = f.mem
         /\ Flush(f, TRUE) = CooldownEnds(f, TRUE)
<1>1. Follows(f, Persist(f, TRUE)) /\ Persist(f, TRUE).mem = f.mem
  BY DEF Persist, WriteNow, FeedType, Follows
<1>2. Follows(f, CooldownEnds(f, TRUE)) /\ CooldownEnds(f, TRUE).mem = f.mem
  BY DEF CooldownEnds, WriteNow, FeedType, Follows
<1>3. QED
  BY <1>1, <1>2 DEF Flush, CooldownEnds

\* Replacing the watermarks memory holds, and persisting them.
LEMMA ReplacingFollows ==
  ASSUME NEW f, f \in FeedType, NEW kept \in [Keys -> Values \cup {NoMark}]
  PROVE  LET g == Persist([f EXCEPT !.mem.watermarks = kept], TRUE)
         IN  Follows(f, g) /\ g.mem.watermarks = kept
<1> DEFINE g == [f EXCEPT !.mem.watermarks = kept]
<1>1. g \in FeedType /\ g.mem.watermarks = kept /\ g.disk = f.disk
  BY DEF FeedType, FileShape
<1> HIDE DEF g
<1>2. Follows(f, Persist(g, TRUE)) /\ Persist(g, TRUE).mem.watermarks = kept
  BY <1>1, WritingFollows DEF Follows
<1>3. QED
  BY <1>2 DEF g

LEMMA SettingFollows ==
  ASSUME NEW f, f \in FeedType, NEW key \in Keys, NEW value \in Values \cup {NoMark}
  PROVE  /\ Follows(f, SetWatermark(f, key, value, TRUE))
         /\ SetWatermark(f, key, value, TRUE).mem.watermarks
              = [f.mem.watermarks EXCEPT ![key] = value]
<1> DEFINE kept == [f.mem.watermarks EXCEPT ![key] = value]
<1>1. f.mem.watermarks \in [Keys -> Values \cup {NoMark}]
  BY DEF FeedType, FileShape
<1>2. CASE f.mem.watermarks[key] = value
  <2>1. kept = f.mem.watermarks
    BY <1>1, <1>2
  <2>2. QED
    BY <1>2, <2>1 DEF SetWatermark, Follows
<1>3. CASE f.mem.watermarks[key] # value
  <2>1. kept \in [Keys -> Values \cup {NoMark}]
    BY <1>1
  <2>2. SetWatermark(f, key, value, TRUE) = Persist([f EXCEPT !.mem.watermarks = kept], TRUE)
    BY <1>3 DEF SetWatermark
  <2> HIDE DEF kept
  <2>3. /\ Follows(f, Persist([f EXCEPT !.mem.watermarks = kept], TRUE))
        /\ Persist([f EXCEPT !.mem.watermarks = kept], TRUE).mem.watermarks = kept
    BY <2>1, ReplacingFollows
  <2>4. QED
    BY <2>2, <2>3 DEF kept
<1>4. QED
  BY <1>2, <1>3

\* The prune forgets only the keys that are not kept.
LEMMA PruneForgets ==
  ASSUME NEW f, f \in FeedType, NEW seen
  PROVE  /\ Follows(f, PruneWatermarks(f, Keys, seen, TRUE))
         /\ \A key \in Keys :
              \/ PruneWatermarks(f, Keys, seen, TRUE).mem.watermarks[key] = f.mem.watermarks[key]
              \/ key \notin seen /\ PruneWatermarks(f, Keys, seen, TRUE).mem.watermarks[key] = NoMark
<1> DEFINE gone == {key \in Keys \ seen : f.mem.watermarks[key] # NoMark}
           kept == [key \in Keys |-> IF key \in gone THEN NoMark ELSE f.mem.watermarks[key]]
<1>1. f.mem.watermarks \in [Keys -> Values \cup {NoMark}]
  BY DEF FeedType, FileShape
<1>2. CASE gone = {}
  BY <1>2 DEF PruneWatermarks, Follows
<1>3. CASE gone # {}
  <2>1. /\ kept \in [Keys -> Values \cup {NoMark}]
        /\ \A key \in Keys : kept[key] = f.mem.watermarks[key] \/ (key \notin seen /\ kept[key] = NoMark)
    BY <1>1
  <2>2. PruneWatermarks(f, Keys, seen, TRUE) = Persist([f EXCEPT !.mem.watermarks = kept], TRUE)
    BY <1>3 DEF PruneWatermarks
  <2> HIDE DEF kept
  <2>3. /\ Follows(f, Persist([f EXCEPT !.mem.watermarks = kept], TRUE))
        /\ Persist([f EXCEPT !.mem.watermarks = kept], TRUE).mem.watermarks = kept
    BY <2>1, ReplacingFollows
  <2>4. QED
    BY <2>1, <2>2, <2>3
<1>4. QED
  BY <1>2, <1>3

LEMMA FeedSame ==
  ASSUME TypeOK, feed' = feed
  PROVE  Follows(feed, feed') /\ marks' = marks /\ filed' = filed
BY DEF TypeOK, Follows, marks, filed

\* The file keeps a session's watermark or takes the one of memory.
Files(s) == filed'[s] \in {filed[s], marks'[s]}

LEMMA FollowsFiles ==
  ASSUME Follows(feed, feed'), NEW s \in Sessions
  PROVE  Files(s)
BY DEF Follows, Files, marks, filed

\* What each step does to the feed.
LEMMA FeedSteps ==
  ASSUME TypeOK
  PROVE  /\ FeedWritten \/ CooldownFires \/ Shutdown => Follows(feed, feed') /\ marks' = marks
         /\ \A s \in Sessions, b \in BOOLEAN : TakeRow(s, b) =>
              Follows(feed, feed') /\ marks' = [marks EXCEPT ![s] = pass.rows[s]]
         /\ Finish =>
              /\ Follows(feed, feed')
              /\ \A s \in Sessions : marks'[s] = marks[s] \/ (s \notin Seen /\ marks'[s] = NoMark)
         /\ Exit \/ Kill => feed' \in FeedType /\ marks' = filed /\ filed' = filed
<1>1. feed \in FeedType
  BY DEF TypeOK
<1>6. Keys = Sessions
  BY Constants
<1>2. ASSUME FeedWritten \/ CooldownFires \/ Shutdown PROVE Follows(feed, feed') /\ marks' = marks
  BY <1>1, <1>2, WritingFollows DEF FeedWritten, CooldownFires, Shutdown, marks
<1>3. ASSUME NEW s \in Sessions, NEW b \in BOOLEAN, TakeRow(s, b)
      PROVE  Follows(feed, feed') /\ marks' = [marks EXCEPT ![s] = pass.rows[s]]
  <2>1. pass.rows[s] \in Values \cup {NoMark}
    BY Constants DEF TypeOK
  <2>2. feed' = SetWatermark(feed, s, pass.rows[s], TRUE)
    BY <1>3 DEF TakeRow, Recorded
  <2>5. s \in Keys
    BY <1>6
  <2>3. /\ Follows(feed, SetWatermark(feed, s, pass.rows[s], TRUE))
        /\ SetWatermark(feed, s, pass.rows[s], TRUE).mem.watermarks
             = [feed.mem.watermarks EXCEPT ![s] = pass.rows[s]]
    BY <1>1, <2>1, <2>5, SettingFollows
  <2>4. QED
    BY <2>2, <2>3 DEF marks
<1>4. ASSUME Finish
      PROVE  /\ Follows(feed, feed')
             /\ \A s \in Sessions : marks'[s] = marks[s] \/ (s \notin Seen /\ marks'[s] = NoMark)
  <2>1. feed' = PruneWatermarks(feed, Keys, Seen, TRUE)
    BY <1>4, <1>6 DEF Finish
  <2>2. /\ Follows(feed, PruneWatermarks(feed, Keys, Seen, TRUE))
        /\ \A key \in Keys :
             \/ PruneWatermarks(feed, Keys, Seen, TRUE).mem.watermarks[key] = feed.mem.watermarks[key]
             \/ key \notin Seen /\ PruneWatermarks(feed, Keys, Seen, TRUE).mem.watermarks[key] = NoMark
    BY <1>1, PruneForgets
  <2>3. QED
    BY <1>6, <2>1, <2>2 DEF marks
<1>5. ASSUME Exit \/ Kill PROVE feed' \in FeedType /\ marks' = filed /\ filed' = filed
  <2>1. feed' = Loaded(feed.disk)
    BY <1>5 DEF Exit, Kill, Restarted
  <2>2. QED
    BY <1>1, <2>1 DEF Loaded, FeedType, Unbuilt, Index, marks, filed
<1>7. QED
  BY <1>2, <1>3, <1>4, <1>5

-----------------------------------------------------------------------------
(* The locals of the pass. *)

Passes == [at : Places, rows : [Sessions -> Mark], todo : SUBSET Sessions,
           who : SUBSET Sessions, then : {"loop", "reply", "gone"}]

LEMMA PassType ==
  ASSUME TypeOK
  PROVE  pass \in Passes /\ Idle \in Passes
<1>1. Idle \in Passes
  BY Constants DEF Idle, Passes, Places
<1>2. QED
  BY <1>1 DEF TypeOK, Passes

\* Everybody is at one of these places after a step, and waits for at most one
\* session.
Sound(p) ==
  /\ p \in Passes
  /\ IF p.at \in {"detail", "retract", "reply"} THEN \E s \in Sessions : p.who = {s} ELSE p.who = {}

LEMMA AwaitFields ==
  ASSUME NEW p \in Passes, NEW at \in {"loop", "detail", "retract", "reply", "gone"},
         NEW s \in Sessions, NEW then \in {"loop", "reply", "gone"},
         NEW q, q = Await(p, at, s, then)
  PROVE  /\ q.at = at /\ q.then = then /\ q.todo = p.todo /\ q.rows = p.rows
         /\ at \in {"loop", "gone"} => q.who = {}
         /\ at \notin {"loop", "gone"} => q.who = {s}
         /\ Sound(q)
<1>1. /\ q \in Passes /\ q.at = at /\ q.then = then /\ q.todo = p.todo /\ q.rows = p.rows
      /\ q.who = (IF at \in {"loop", "gone"} THEN {} ELSE {s})
  BY DEF Await, Passes, Places
<1>2. QED
  BY <1>1 DEF Sound

\* The locals of the pass after each of its steps.
LEMMA PassFields ==
  ASSUME TypeOK
  PROVE  /\ TimerFires => pass'.at = "list" /\ pass'.todo = {} /\ pass'.who = {} /\ Sound(pass')
         /\ NoList \/ End \/ Exit \/ Kill =>
              pass'.at = "idle" /\ pass'.todo = {} /\ pass'.who = {} /\ Sound(pass')
         /\ ListArrives =>
              /\ pass'.at = "loop" /\ pass'.todo = registry /\ pass'.who = {} /\ Sound(pass')
              /\ \A s \in Sessions : pass'.rows[s] = IF s \in registry THEN Snapshot(s) ELSE NoMark
         /\ Finish => /\ pass'.at = "gone" /\ pass'.todo = pass.todo /\ pass'.who = {}
                      /\ pass'.rows = pass.rows /\ Sound(pass')
<1>1. Sound(pass) /\ pass \in Passes /\ Idle \in Passes
  BY PassType DEF TypeOK, Sound
<1>2. ASSUME TimerFires
      PROVE  pass'.at = "list" /\ pass'.todo = {} /\ pass'.who = {} /\ Sound(pass')
  BY <1>1, <1>2, Constants DEF TimerFires, Passes, Places, Sound
<1>3. ASSUME NoList \/ End \/ Exit \/ Kill
      PROVE  pass'.at = "idle" /\ pass'.todo = {} /\ pass'.who = {} /\ Sound(pass')
  BY <1>1, <1>3, Constants DEF NoList, End, Exit, Kill, Restarted, Leave, Sound
<1>4. ASSUME ListArrives
      PROVE  /\ pass'.at = "loop" /\ pass'.todo = registry /\ pass'.who = {} /\ Sound(pass')
             /\ \A s \in Sessions : pass'.rows[s] = IF s \in registry THEN Snapshot(s) ELSE NoMark
  <2> DEFINE rows == [s \in Sessions |-> IF s \in registry THEN Snapshot(s) ELSE NoMark]
  <2>1. rows \in [Sessions -> Mark] /\ registry \in SUBSET Sessions
    BY SnapshotIsMark, Constants DEF TypeOK
  <2>2. pass' = [pass EXCEPT !.at = "loop", !.todo = registry, !.rows = rows] /\ pass.at = "list"
    BY <1>4 DEF ListArrives
  <2>3. \A s \in Sessions : rows[s] = IF s \in registry THEN Snapshot(s) ELSE NoMark
    OBVIOUS
  <2>4. pass.who = {}
    BY <1>1, <2>2 DEF Sound
  <2> HIDE DEF rows
  <2>5. QED
    BY <1>1, <2>1, <2>2, <2>3, <2>4 DEF Passes, Places, Sound
<1>5. ASSUME Finish
      PROVE  /\ pass'.at = "gone" /\ pass'.todo = pass.todo /\ pass'.who = {}
             /\ pass'.rows = pass.rows /\ Sound(pass')
  BY <1>1, <1>5 DEF Finish, Passes, Places, Sound
<1>6. QED
  BY <1>2, <1>3, <1>4, <1>5

\* ... and after those that are about one session.
LEMMA RowFields ==
  ASSUME TypeOK, NEW t \in Sessions, NEW b \in BOOLEAN, NEW ok \in BOOLEAN
  PROVE  /\ DetailArrives(t, ok) \/ ReplyArrives(t) =>
              /\ pass'.at = "loop" /\ pass'.todo = pass.todo /\ pass'.who = {} /\ pass'.rows = pass.rows
              /\ Sound(pass')
         /\ TakeRow(t, b) =>
              /\ pass'.todo = pass.todo \ {t} /\ pass'.rows = pass.rows /\ Sound(pass')
              /\ pass'.at = Work(t, b) /\ (pass'.at \in {"loop", "gone"} => pass'.who = {})
              /\ pass'.at # "loop" => pass'.who = {t}
              /\ pass'.then = "reply" <=> (pass'.at = "retract" /\ Replied(t))
              /\ pass'.then # "gone"
         /\ TakeGone(t, b) =>
              /\ pass'.todo = pass.todo /\ pass'.rows = pass.rows /\ Sound(pass')
              /\ \/ b /\ pass'.at = "retract" /\ pass'.who = {t} /\ pass'.then = "gone"
                 \/ ~b /\ pass'.at = "gone" /\ pass'.who = {}
         /\ Retract(t, ok, b) =>
              /\ pass'.todo = pass.todo /\ pass'.rows = pass.rows /\ Sound(pass') /\ pass.who = {t}
              /\ \/ pass.then # "reply" /\ pass'.at = pass.then /\ pass'.who = {}
                 \/ pass.then = "reply" /\ ~b /\ pass'.at = "loop" /\ pass'.who = {}
                 \/ pass.then = "reply" /\ b /\ pass'.at = "reply" /\ pass'.who = {t}
<1>1. pass \in Passes
  BY PassType
<1>2. ASSUME DetailArrives(t, ok) \/ ReplyArrives(t)
      PROVE  /\ pass'.at = "loop" /\ pass'.todo = pass.todo /\ pass'.who = {} /\ pass'.rows = pass.rows
             /\ Sound(pass')
  <2>1. pass' = Await(pass, "loop", t, "loop")
    BY <1>2 DEF DetailArrives, ReplyArrives
  <2>2. QED
    BY <1>1, <2>1, AwaitFields
<1>3. ASSUME TakeRow(t, b)
      PROVE  /\ pass'.todo = pass.todo \ {t} /\ pass'.rows = pass.rows /\ Sound(pass')
             /\ pass'.at = Work(t, b) /\ (pass'.at \in {"loop", "gone"} => pass'.who = {})
             /\ pass'.at # "loop" => pass'.who = {t}
             /\ pass'.then = "reply" <=> (pass'.at = "retract" /\ Replied(t))
             /\ pass'.then # "gone"
  <2> DEFINE p == [pass EXCEPT !.todo = @ \ {t}]
             then == IF Work(t, b) = "retract" /\ Replied(t) THEN "reply" ELSE "loop"
  <2>1. p \in Passes /\ p.todo = pass.todo \ {t} /\ p.rows = pass.rows
    BY <1>1 DEF Passes
  <2>2. Work(t, b) \in {"loop", "detail", "retract", "reply"} /\ then \in {"loop", "reply", "gone"}
    BY DEF Work
  <2>3. pass' = Await(p, Work(t, b), t, then)
    BY <1>3 DEF TakeRow
  <2>4. /\ pass'.todo = p.todo /\ pass'.rows = p.rows /\ pass'.at = Work(t, b) /\ pass'.then = then
        /\ Work(t, b) \in {"loop", "gone"} => pass'.who = {}
        /\ Work(t, b) \notin {"loop", "gone"} => pass'.who = {t}
        /\ Sound(pass')
    <3> HIDE DEF p, then
    <3>1. QED
      BY <2>1, <2>2, <2>3, AwaitFields
  <2> HIDE DEF p
  <2>5. QED
    BY <2>1, <2>2, <2>4
<1>4. ASSUME TakeGone(t, b)
      PROVE  /\ pass'.todo = pass.todo /\ pass'.rows = pass.rows /\ Sound(pass')
             /\ \/ b /\ pass'.at = "retract" /\ pass'.who = {t} /\ pass'.then = "gone"
                \/ ~b /\ pass'.at = "gone" /\ pass'.who = {}
  <2>1. CASE b
    <3>1. pass' = Await(pass, "retract", t, "gone")
      BY <1>4, <2>1 DEF TakeGone
    <3>2. QED
      BY <1>1, <2>1, <3>1, AwaitFields
  <2>2. CASE ~b
    <3>1. pass' = Await(pass, "gone", t, "loop")
      BY <1>4, <2>2 DEF TakeGone
    <3>2. QED
      BY <1>1, <2>2, <3>1, AwaitFields
  <2>3. QED
    BY <2>1, <2>2
<1>5. ASSUME Retract(t, ok, b)
      PROVE  /\ pass'.todo = pass.todo /\ pass'.rows = pass.rows /\ Sound(pass') /\ pass.who = {t}
             /\ \/ pass.then # "reply" /\ pass'.at = pass.then /\ pass'.who = {}
                \/ pass.then = "reply" /\ ~b /\ pass'.at = "loop" /\ pass'.who = {}
                \/ pass.then = "reply" /\ b /\ pass'.at = "reply" /\ pass'.who = {t}
  <2> DEFINE next == IF pass.then = "reply" /\ ~b THEN "loop" ELSE pass.then
  <2>1. pass' = Await(pass, next, t, "loop") /\ pass.at = "retract" /\ t \in pass.who
    BY <1>5 DEF Retract
  <2>2. pass.then \in {"loop", "reply", "gone"} /\ next \in {"loop", "reply", "gone"}
    BY <1>1 DEF Passes
  <2>3. pass.who = {t}
    BY <2>1 DEF TypeOK
  <2>4. /\ pass'.todo = pass.todo /\ pass'.rows = pass.rows /\ pass'.at = next
        /\ next \in {"loop", "gone"} => pass'.who = {}
        /\ next \notin {"loop", "gone"} => pass'.who = {t}
        /\ Sound(pass')
    <3> HIDE DEF next
    <3>1. QED
      BY <1>1, <2>1, <2>2, AwaitFields
  <2>5. QED
    BY <2>2, <2>3, <2>4
<1>6. QED
  BY <1>2, <1>3, <1>4, <1>5

-----------------------------------------------------------------------------
(* Types. *)

LEMMA InitType == Init => TypeOK /\ Room
<1> SUFFICES ASSUME Init PROVE TypeOK /\ Room
  OBVIOUS
<1>1. Sound(pass)
  <2>1. Idle \in Passes
    BY Constants DEF Idle, Passes, Places
  <2>2. QED
    BY <2>1, Constants DEF Init, Sound
<1>2. feed \in FeedType
  <2>1. EmptyFile \in FileShape
    BY DEF EmptyFile, FileShape
  <2>2. QED
    BY <2>1 DEF Init, Loaded, FeedType, Unbuilt, Index
<1>3. /\ status \in [Sessions -> Status] /\ count \in [Sessions -> 0..MaxCount]
      /\ replies \in [Sessions -> Nat] /\ turns \in [Sessions -> Nat] /\ produced \in [Sessions -> Nat]
      /\ lapsed \in [Sessions -> Nat] /\ restarts \in 0..MaxRestarts
  BY Constants DEF Init, Status
<1>4. TypeOK
  BY <1>1, <1>2, <1>3 DEF Init, TypeOK, Sound, Passes
<1>5. QED
  BY <1>4 DEF Init, Room

GatewayOn(s) ==
  \/ SessionOpens(s) \/ SessionCloses(s) \/ TurnStarts(s) \/ Asks(s) \/ Answered(s)
  \/ ReplyAppended(s) \/ TurnEnds(s) \/ TurnStopped(s)

\* What the gateway does leaves the proxy alone.
LEMMA GatewayFrame ==
  ASSUME NEW s \in Sessions, GatewayOn(s)
  PROVE  UNCHANGED <<source, feed, announced, inFlight, sweep, timer, dirty, pass, stopping, lapsed, restarts,
                     banner, lost, replies>>
BY DEF GatewayOn, SessionOpens, SessionCloses, TurnStarts, Asks, Answered, ReplyAppended, TurnEnds,
       TurnStopped, proxy, scheduler, process, phone

LEMMA GatewayType ==
  ASSUME TypeOK, Room, NEW s \in Sessions, GatewayOn(s)
  PROVE  TypeOK' /\ Room'
<1>1. /\ UNCHANGED <<source, feed, announced, inFlight, sweep, timer, dirty, pass, stopping, lapsed, restarts,
                     banner, lost, replies>>
      /\ registry' \subseteq Sessions /\ spoken' \subseteq Sessions
      /\ owed' \subseteq Sessions /\ excused' \subseteq Sessions /\ open' \subseteq Sessions
  <2>1. /\ registry' \subseteq Sessions /\ spoken' \subseteq Sessions
        /\ owed' \subseteq Sessions /\ excused' \subseteq Sessions /\ open' \subseteq Sessions
    BY DEF TypeOK, GatewayOn, SessionOpens, SessionCloses, TurnStarts, Asks, Answered, ReplyAppended, TurnEnds,
           TurnStopped, debt
  <2>2. QED
    BY <2>1, GatewayFrame
<1>2. status' \in [Sessions -> Status]
  BY DEF TypeOK, GatewayOn, SessionOpens, SessionCloses, TurnStarts, Asks, Answered, ReplyAppended, TurnEnds,
         TurnStopped, Status, InFlightStatus
<1>3. count[s] \in 0..MaxCount /\ MaxCount \in Nat
  BY Constants DEF TypeOK
<1>4. count' \in [Sessions -> 0..MaxCount] /\ Room'
  <2>1. CASE TurnStarts(s)
    BY <1>3, <2>1 DEF TypeOK, Room, TurnStarts
  <2>2. CASE ReplyAppended(s)
    BY <1>3, <2>2 DEF TypeOK, Room, ReplyAppended
  <2>3. CASE SessionOpens(s) \/ SessionCloses(s) \/ Asks(s) \/ Answered(s) \/ TurnEnds(s) \/ TurnStopped(s)
    BY <1>3, <2>3 DEF TypeOK, Room, SessionOpens, SessionCloses, Asks, Answered, TurnEnds, TurnStopped
  <2>4. QED
    BY <2>1, <2>2, <2>3 DEF GatewayOn
<1>5. turns' \in [Sessions -> Nat] /\ produced' \in [Sessions -> Nat]
  BY DEF TypeOK, GatewayOn, SessionOpens, SessionCloses, TurnStarts, Asks, Answered, ReplyAppended, TurnEnds,
         TurnStopped
<1>6. QED
  BY <1>1, <1>2, <1>4, <1>5 DEF TypeOK

\* The proxy leaves the gateway alone.
LEMMA ProxyFrame ==
  ASSUME \/ StartSessionSweep \/ SessionSignal \/ IntervalElapses \/ TimerFires \/ PassStep \/ ProxyStep
         \/ UNCHANGED vars
  PROVE  UNCHANGED <<source, registry, status, count, spoken, turns, produced>>
<1>1. CASE StartSessionSweep \/ SessionSignal \/ IntervalElapses \/ TimerFires \/ UNCHANGED vars
  BY <1>1 DEF StartSessionSweep, SessionSignal, IntervalElapses, TimerFires, unasked, gateway, told, vars
<1>2. CASE PassStep
  BY <1>2 DEF PassStep, NoList, ListArrives, TakeRow, DetailArrives, Retract, ReplyArrives, Finish, TakeGone, End,
              gateway, told
<1>3. CASE ProxyStep
  BY <1>3 DEF ProxyStep, FeedWritten, CooldownFires, Shutdown, Exit, Kill, Restarted, elsewhere, gateway, told
<1>4. QED
  BY <1>1, <1>2, <1>3

\* What the sweep asks for itself touches nothing else.
LEMMA AskFrame ==
  ASSUME StartSessionSweep \/ SessionSignal \/ IntervalElapses \/ UNCHANGED vars
  PROVE  /\ UNCHANGED <<source, registry, status, count, spoken, feed, announced, inFlight, pass, stopping, lapsed,
                        restarts, banner, lost, replies, turns, produced, owed, excused, open>>
         /\ (sweep \in BOOLEAN /\ timer \in BOOLEAN /\ dirty \in BOOLEAN
              => sweep' \in BOOLEAN /\ timer' \in BOOLEAN /\ dirty' \in BOOLEAN)
BY DEF StartSessionSweep, SessionSignal, IntervalElapses, Schedule, Running, unasked, gateway, process, phone, debt,
       vars, scheduler

LEMMA SweepType ==
  ASSUME TypeOK,
         \/ StartSessionSweep \/ SessionSignal \/ IntervalElapses \/ TimerFires \/ ProxyStep
         \/ UNCHANGED vars
  PROVE  TypeOK'
<1>1. CASE StartSessionSweep \/ SessionSignal \/ IntervalElapses \/ UNCHANGED vars
  BY <1>1, AskFrame DEF TypeOK
<1>2. CASE TimerFires
  <2>1. /\ UNCHANGED <<source, registry, status, count, spoken, feed, announced, inFlight, stopping, lapsed, restarts,
                       banner, lost, replies, turns, produced, owed, excused, sweep, dirty>>
        /\ open' \subseteq registry /\ timer' = FALSE
    BY <1>2 DEF TimerFires, gateway, process, phone, told, debt
  <2>2. QED
    BY <1>2, <2>1, PassFields DEF TypeOK, Sound, Passes
<1>3. CASE FeedWritten \/ CooldownFires
  <2>1. /\ UNCHANGED <<source, registry, status, count, spoken, announced, inFlight, pass, stopping, lapsed,
                       restarts, banner, lost, replies, turns, produced, owed, excused, open, sweep, timer, dirty>>
        /\ feed' \in FeedType
    BY <1>3, FeedSteps DEF FeedWritten, CooldownFires, elsewhere, gateway, process, phone, told, debt, Follows
  <2>2. QED
    BY <2>1 DEF TypeOK
<1>4. CASE Shutdown
  <2>1. /\ UNCHANGED <<source, registry, status, count, spoken, inFlight, pass, lapsed,
                       banner, replies, turns, produced, owed, excused, open, dirty>>
        /\ feed' \in FeedType /\ stopping' = TRUE /\ sweep' = FALSE /\ timer' = FALSE
        /\ announced' = {} /\ lost' = lost \cup banner
        /\ restarts < MaxRestarts /\ restarts' = restarts + 1
    BY <1>4, FeedSteps DEF Shutdown, elsewhere, gateway, told, debt, Follows
  <2>2. restarts' \in 0..MaxRestarts
    BY <2>1, Constants DEF TypeOK
  <2>3. QED
    BY <2>1, <2>2 DEF TypeOK
<1>5. CASE Exit \/ Kill
  <2>1. /\ UNCHANGED <<source, registry, status, count, spoken, banner, replies, turns, produced, owed>>
        /\ feed' \in FeedType /\ stopping' = FALSE /\ sweep' = FALSE /\ timer' = FALSE /\ dirty' = FALSE
        /\ announced' = {} /\ inFlight' = {} /\ open' = {} /\ lost' = lost \cup banner
    BY <1>5, FeedSteps DEF Exit, Kill, Restarted, gateway
  <2>2. restarts' \in 0..MaxRestarts
    BY <1>5, Constants DEF Exit, Kill, TypeOK
  <2>3. lapsed' \in [Sessions -> Nat]
    BY <1>5 DEF Exit, Kill, Restarted, TypeOK
  <2>4. excused' \subseteq Sessions
    BY <1>5 DEF Exit, Kill, Restarted, Excuse, TypeOK
  <2>5. QED
    BY <1>5, <2>1, <2>2, <2>3, <2>4, PassFields DEF TypeOK, Sound, Passes
<1>6. QED
  BY <1>1, <1>2, <1>3, <1>4, <1>5 DEF ProxyStep

\* What a step of the pass about one session may change of the rest.
LEMMA PassFrame ==
  ASSUME PassStep
  PROVE  UNCHANGED <<sweep, stopping, lapsed, restarts, open>>
BY DEF PassStep, NoList, ListArrives, TakeRow, DetailArrives, Retract, ReplyArrives, Finish, TakeGone, End,
       scheduler, process

LEMMA PassStepType ==
  ASSUME TypeOK, PassStep
  PROVE  TypeOK'
<1> DEFINE kept == <<source, registry, status, count, spoken, turns, produced, sweep, stopping, lapsed, restarts, open>>
<1>1. UNCHANGED kept
  BY PassFrame, ProxyFrame
<1>2. CASE NoList \/ End
  <2>1. /\ UNCHANGED <<feed, announced, inFlight, banner, lost, replies, owed, excused>>
        /\ timer' \in BOOLEAN /\ dirty' \in BOOLEAN
    BY <1>2 DEF NoList, End, Leave, phone, told, debt, TypeOK
  <2>2. QED
    BY <1>1, <1>2, <2>1, PassFields DEF TypeOK, Sound, Passes
<1>3. CASE ListArrives
  <2>1. UNCHANGED <<feed, announced, inFlight, timer, dirty, banner, lost, replies, owed>>
        /\ excused' = excused \cup spoken
    BY <1>3 DEF ListArrives, Excuse, scheduler, phone, told
  <2>2. QED
    BY <1>1, <1>3, <2>1, PassFields DEF TypeOK, Sound, Passes
<1>4. CASE Finish
  <2>1. /\ UNCHANGED <<announced, timer, dirty, banner, lost, replies, owed>> /\ feed' \in FeedType
        /\ excused' \subseteq Sessions /\ inFlight' \subseteq Sessions
    BY <1>4, FeedSteps DEF Finish, Excuse, scheduler, phone, told, Follows, TypeOK, Seen
  <2>2. QED
    BY <1>1, <1>4, <2>1, PassFields DEF TypeOK, Sound, Passes
<1>5. ASSUME NEW s \in Sessions, NEW b \in BOOLEAN, NEW ok \in BOOLEAN,
             TakeRow(s, b) \/ DetailArrives(s, ok) \/ Retract(s, ok, b) \/ TakeGone(s, b) \/ ReplyArrives(s)
      PROVE  TypeOK'
  <2>1. UNCHANGED <<inFlight, timer, dirty>>
    BY <1>5 DEF TakeRow, DetailArrives, Retract, TakeGone, ReplyArrives, scheduler
  <2>2. feed' \in FeedType
    BY <1>5, FeedSteps DEF TakeRow, DetailArrives, Retract, TakeGone, ReplyArrives, Follows, TypeOK
  <2>3. announced' \subseteq Sessions /\ banner' \subseteq Sessions /\ lost' \subseteq Sessions
    BY <1>5 DEF TakeRow, DetailArrives, Retract, TakeGone, ReplyArrives, phone, TypeOK
  <2>4. owed' \subseteq Sessions /\ excused' \subseteq Sessions
    BY <1>5 DEF TakeRow, DetailArrives, Retract, TakeGone, ReplyArrives, debt, Excuse, TypeOK
  <2>5. replies' \in [Sessions -> Nat]
    BY <1>5 DEF TakeRow, DetailArrives, Retract, TakeGone, ReplyArrives, told, Announced, TypeOK
  <2>6. Sound(pass')
    BY <1>5, RowFields
  <2>7. QED
    BY <1>1, <2>1, <2>2, <2>3, <2>4, <2>5, <2>6 DEF TypeOK, Sound, Passes
<1>6. QED
  BY <1>2, <1>3, <1>4, <1>5 DEF PassStep

LEMMA TypeStep == TypeOK /\ Room /\ [Next]_vars => TypeOK' /\ Room'
<1> SUFFICES ASSUME TypeOK, Room, [Next]_vars PROVE TypeOK' /\ Room'
  OBVIOUS
<1>1. CASE GatewayStep
  BY <1>1, GatewayType DEF GatewayStep, GatewayOn
<1>2. CASE \/ StartSessionSweep \/ SessionSignal \/ IntervalElapses \/ TimerFires \/ PassStep \/ ProxyStep
           \/ UNCHANGED vars
  <2>1. TypeOK'
    BY <1>2, SweepType, PassStepType
  <2>2. UNCHANGED <<status, spoken, count>>
    BY <1>2, ProxyFrame
  <2>3. QED
    BY <2>1, <2>2 DEF Room
<1>3. QED
  BY <1>1, <1>2 DEF Next

-----------------------------------------------------------------------------
(* What a step does to one session. *)

Still(s) ==
  /\ s \in registry' <=> s \in registry
  /\ s \in spoken' <=> s \in spoken
  /\ status'[s] = status[s] /\ count'[s] = count[s] /\ turns'[s] = turns[s]
  /\ source'[s] = source[s] /\ produced'[s] = produced[s]

\* No reply of s is pushed, forgotten or begun.
Quiet(s) ==
  /\ Still(s) /\ replies'[s] = replies[s] /\ lapsed'[s] = lapsed[s]
  /\ s \in owed' <=> s \in owed
  /\ s \in excused => s \in excused'

Aside(s) ==
  /\ Quiet(s) /\ marks'[s] = marks[s] /\ Files(s)
  /\ s \in pass'.todo => s \in pass.todo /\ pass'.rows[s] = pass.rows[s]
  /\ Busy(s)' => Busy(s)
  /\ Busy(s) /\ ~Busy(s)' /\ marks[s].count = count[s] => s \in excused'

Listed(s) ==
  /\ Quiet(s) /\ marks'[s] = marks[s] /\ filed'[s] = filed[s]
  /\ ~Busy(s) /\ ~Busy(s)'
  /\ s \in pass'.todo => s \in registry /\ pass'.rows[s] = Snapshot(s)
  /\ s \in spoken => s \in excused'

Taken(s) ==
  /\ Quiet(s) /\ Files(s)
  /\ s \in pass.todo /\ s \notin pass'.todo /\ ~Busy(s)
  /\ marks'[s] = pass.rows[s]
  /\ Busy(s)' => Replied(s)
  /\ Replied(s) /\ ~Busy(s)' /\ pass.rows[s].count = count[s] => s \in excused'

Reported(s) ==
  /\ Still(s) /\ lapsed'[s] = lapsed[s] /\ marks'[s] = marks[s] /\ filed'[s] = filed[s]
  /\ Busy(s) /\ ~Busy(s)' /\ replies'[s] \in {replies[s], replies[s] + 1}
  /\ s \in pass'.todo => s \in pass.todo /\ pass'.rows[s] = pass.rows[s]
  /\ s \in excused => s \in excused'
  /\ s \in owed' => /\ s \in owed
                    /\ \/ source[s] = "kanban" \/ produced[s] = 0
                       \/ marks[s].count # count[s] \/ s \in excused'

Pruned(s) ==
  /\ Quiet(s) /\ Files(s)
  /\ ~Busy(s) /\ ~Busy(s)' /\ s \notin pass'.todo
  /\ marks'[s] = marks[s] \/ (marks'[s] = NoMark /\ (s \in owed => s \in excused'))

\* The process is cut short.
Cut(s) ==
  /\ Still(s) /\ replies'[s] = replies[s]
  /\ marks'[s] = filed[s] /\ filed'[s] = filed[s]
  /\ s \notin pass'.todo /\ ~Busy(s)'
  /\ lapsed'[s] = IF filed[s] = marks[s] THEN lapsed[s] ELSE lapsed[s] + 1
  /\ s \in owed' <=> s \in owed
  /\ s \in excused => s \in excused'
  /\ Busy(s) /\ filed[s] = marks[s] => s \in excused'
  /\ s \in owed /\ filed[s] = NoMark => s \in excused'

Life(s) == GatewayOn(s) \/ Aside(s) \/ Listed(s) \/ Taken(s) \/ Reported(s) \/ Pruned(s) \/ Cut(s)

LEMMA LifeElsewhere ==
  ASSUME TypeOK, NEW s \in Sessions, NEW t \in Sessions, t # s, GatewayOn(t)
  PROVE  Aside(s)
<1>1. UNCHANGED <<source, feed, pass, lapsed, replies>>
  BY GatewayFrame
<1>2. Still(s)
  BY <1>1 DEF TypeOK, GatewayOn, SessionOpens, SessionCloses, TurnStarts, Asks, Answered, ReplyAppended, TurnEnds,
         TurnStopped, Still
<1>3. (s \in owed' <=> s \in owed) /\ (s \in excused => s \in excused')
  BY DEF GatewayOn, SessionOpens, SessionCloses, TurnStarts, Asks, Answered, ReplyAppended, TurnEnds,
         TurnStopped, debt
<1>4. Files(s) /\ marks' = marks
  BY <1>1, FeedSame, FollowsFiles
<1>5. Busy(s)' <=> Busy(s)
  BY <1>1 DEF Busy
<1>6. QED
  BY <1>1, <1>2, <1>3, <1>4, <1>5 DEF Aside, Quiet

LEMMA LifeOfTheSweep ==
  ASSUME TypeOK, NEW s \in Sessions,
         \/ StartSessionSweep \/ SessionSignal \/ IntervalElapses \/ TimerFires \/ ProxyStep
         \/ UNCHANGED vars
  PROVE  Life(s)
<1>1. Still(s)
  BY ProxyFrame DEF Still
<1>2. CASE StartSessionSweep \/ SessionSignal \/ IntervalElapses \/ UNCHANGED vars
  <2>1. UNCHANGED <<feed, pass, owed, excused, replies, lapsed>>
    BY <1>2, AskFrame
  <2>2. Files(s) /\ marks' = marks
    BY <2>1, FeedSame, FollowsFiles
  <2>3. QED
    BY <1>1, <2>1, <2>2 DEF Life, Aside, Quiet, Busy
<1>3. CASE TimerFires
  <2>1. UNCHANGED <<feed, owed, excused, replies, lapsed>> /\ ~Busy(s)
    BY <1>3 DEF TimerFires, debt, told, process, Running, Busy
  <2>2. Files(s) /\ marks' = marks
    BY <2>1, FeedSame, FollowsFiles
  <2>3. pass'.todo = {} /\ pass'.who = {}
    BY <1>3, PassFields
  <2>4. QED
    BY <1>1, <2>1, <2>2, <2>3 DEF Life, Aside, Quiet, Busy
<1>4. CASE FeedWritten \/ CooldownFires \/ Shutdown
  <2>1. UNCHANGED <<pass, owed, excused, replies, lapsed>>
    BY <1>4 DEF FeedWritten, CooldownFires, Shutdown, elsewhere, told, process, debt
  <2>2. Files(s) /\ marks' = marks
    BY <1>4, FeedSteps, FollowsFiles
  <2>3. QED
    BY <1>1, <2>1, <2>2 DEF Life, Aside, Quiet, Busy
<1>5. CASE Exit \/ Kill
  <2>1. /\ UNCHANGED <<replies, owed>>
        /\ lapsed'[s] = IF filed[s] = marks[s] THEN lapsed[s] ELSE lapsed[s] + 1
        /\ s \in excused => s \in excused'
        /\ Busy(s) /\ filed[s] = marks[s] => s \in excused'
        /\ s \in owed /\ filed[s] = NoMark => s \in excused'
    BY <1>5 DEF Exit, Kill, Restarted, Excuse
  <2>2. marks' = filed /\ filed' = filed
    BY <1>5, FeedSteps
  <2>3. pass'.todo = {} /\ pass'.who = {}
    BY <1>5, PassFields
  <2>4. QED
    BY <1>1, <2>1, <2>2, <2>3 DEF Life, Cut, Busy
<1>6. QED
  BY <1>2, <1>3, <1>4, <1>5 DEF ProxyStep

LEMMA LifeOfARow ==
  ASSUME TypeOK, NEW s \in Sessions, NEW t \in Sessions, NEW b \in BOOLEAN, TakeRow(t, b)
  PROVE  Life(s)
<1>1. Still(s)
  BY ProxyFrame DEF Still, PassStep
<1>2. /\ UNCHANGED <<replies, lapsed, owed>> /\ pass.at = "loop" /\ t \in pass.todo
      /\ excused' = excused \cup {u \in {t} : Replied(u) /\ ~b /\ IsLast(pass.rows[u], u)}
  BY DEF TakeRow, Excuse, told, process
<1>3. marks' = [marks EXCEPT ![t] = pass.rows[t]] /\ Files(s)
  BY FeedSteps, FollowsFiles
<1>4. /\ pass'.todo = pass.todo \ {t} /\ pass'.rows = pass.rows
      /\ pass'.at = Work(t, b) /\ (pass'.at \in {"loop", "gone"} => pass'.who = {})
      /\ pass'.at # "loop" => pass'.who = {t}
      /\ pass'.then = "reply" <=> (pass'.at = "retract" /\ Replied(t))
  BY RowFields
<1>5. ~Busy(s) /\ Quiet(s)
  BY <1>1, <1>2 DEF Busy, Quiet
<1>6. marks \in [Sessions -> Mark]
  BY MarksType
<1>7. CASE s = t
  <2>1. ~(Asking(t) /\ Replied(t))
    BY DEF Asking, Replied
  <2>2. Busy(s)' <=> b /\ Replied(s)
    BY <1>4, <1>7, <2>1 DEF Busy, Work
  <2>3. marks'[s] = pass.rows[s] /\ s \in pass.todo /\ s \notin pass'.todo
    BY <1>2, <1>3, <1>4, <1>6, <1>7
  <2>4. Replied(s) /\ ~Busy(s)' /\ pass.rows[s].count = count[s] => s \in excused'
    BY <1>2, <1>7, <2>2 DEF IsLast
  <2>5. QED
    BY <1>3, <1>5, <2>2, <2>3, <2>4 DEF Taken, Life
<1>8. CASE s # t
  <2>1. ~Busy(s)'
    BY <1>4, <1>8 DEF Busy
  <2>2. marks'[s] = marks[s]
    BY <1>3, <1>6, <1>8
  <2>3. QED
    BY <1>3, <1>4, <1>5, <2>1, <2>2 DEF Aside, Life
<1>9. QED
  BY <1>7, <1>8

\* A banner goes up or comes down, or the reply that was to follow is not begun.
LEMMA LifeOfABanner ==
  ASSUME TypeOK, NEW s \in Sessions, NEW t \in Sessions, NEW b \in BOOLEAN, NEW ok \in BOOLEAN,
         DetailArrives(t, ok) \/ Retract(t, ok, b) \/ TakeGone(t, b)
  PROVE  Life(s)
<1>1. Still(s)
  BY ProxyFrame DEF Still, PassStep
<1>2. UNCHANGED <<feed, replies, lapsed, owed>> /\ excused \subseteq excused'
  BY DEF DetailArrives, Retract, TakeGone, Excuse, told, debt, process
<1>3. Files(s) /\ marks' = marks
  BY <1>2, FeedSame, FollowsFiles
<1>4. pass'.todo = pass.todo /\ pass'.rows = pass.rows
  BY RowFields
<1>5. /\ Busy(s)' => Busy(s)
      /\ Busy(s) /\ ~Busy(s)' /\ marks[s].count = count[s] => s \in excused'
  <2>1. CASE DetailArrives(t, ok)
    <3>1. pass.at = "detail" /\ pass'.at = "loop"
      BY <2>1, RowFields DEF DetailArrives
    <3>2. QED
      BY <3>1 DEF Busy
  <2>2. CASE TakeGone(t, b)
    <3>1. /\ pass.at = "gone"
          /\ \/ pass'.at = "retract" /\ pass'.then = "gone"
             \/ pass'.at = "gone" /\ pass'.who = {}
      BY <2>2, RowFields DEF TakeGone
    <3>2. QED
      BY <3>1 DEF Busy
  <2>3. CASE Retract(t, ok, b)
    <3>1. /\ pass.who = {t} /\ pass.at = "retract"
          /\ \/ pass.then # "reply" /\ pass'.at = pass.then /\ pass'.who = {}
             \/ pass.then = "reply" /\ ~b /\ pass'.at = "loop" /\ pass'.who = {}
             \/ pass.then = "reply" /\ b /\ pass'.at = "reply" /\ pass'.who = {t}
          /\ excused' = excused \cup {u \in {t} : pass.then = "reply" /\ ~b /\ IsLast(marks[u], u)}
      BY <2>3, RowFields DEF Retract, Excuse
    <3>2. QED
      BY <3>1 DEF Busy, IsLast
  <2>4. QED
    BY <2>1, <2>2, <2>3
<1>6. QED
  BY <1>1, <1>2, <1>3, <1>4, <1>5 DEF Aside, Quiet, Life

LEMMA LifeOfAReply ==
  ASSUME TypeOK, NEW s \in Sessions, NEW t \in Sessions, ReplyArrives(t)
  PROVE  Life(s)
<1>1. Still(s)
  BY ProxyFrame DEF Still, PassStep
<1>2. UNCHANGED <<feed, lapsed>> /\ pass.at = "reply" /\ t \in pass.who
  BY DEF ReplyArrives, process
<1>3. Files(s) /\ marks' = marks /\ filed' = filed
  BY <1>2, FeedSame, FollowsFiles
<1>4. pass'.at = "loop" /\ pass'.todo = pass.todo /\ pass'.rows = pass.rows
  BY RowFields
<1>5. pass.who = {t}
  BY <1>2 DEF TypeOK
<1>6. \/ /\ source[t] = "kanban" \/ produced[t] = 0
         /\ UNCHANGED <<replies, owed, excused>>
      \/ /\ replies' = [replies EXCEPT ![t] = @ + 1] /\ excused' = excused
         /\ owed' = owed \ {u \in {t} : marks[u].count = count[u]}
      \/ /\ UNCHANGED <<replies, owed>>
         /\ excused' = excused \cup {u \in {t} : marks[u].count = count[u]}
  BY DEF ReplyArrives, Announced, Excuse, IsLast, debt
<1>7. CASE s = t
  <2>1. replies'[s] \in {replies[s], replies[s] + 1}
    BY <1>6, <1>7 DEF TypeOK
  <2>2. /\ s \in excused => s \in excused'
        /\ s \in owed' => /\ s \in owed
                          /\ \/ source[s] = "kanban" \/ produced[s] = 0
                             \/ marks[s].count # count[s] \/ s \in excused'
    BY <1>6, <1>7
  <2>3. QED
    BY <1>1, <1>2, <1>3, <1>4, <1>5, <1>7, <2>1, <2>2 DEF Reported, Busy, Life
<1>8. CASE s # t
  <2>1. replies'[s] = replies[s] /\ (s \in owed' <=> s \in owed) /\ (s \in excused => s \in excused')
    BY <1>6, <1>8 DEF TypeOK
  <2>2. QED
    BY <1>1, <1>2, <1>3, <1>4, <1>5, <1>8, <2>1 DEF Aside, Quiet, Busy, Life
<1>9. QED
  BY <1>7, <1>8

LEMMA LifeOfAPass ==
  ASSUME TypeOK, NEW s \in Sessions, PassStep
  PROVE  Life(s)
<1>1. Still(s)
  BY ProxyFrame DEF Still
<1>2. CASE NoList \/ End
  <2>1. UNCHANGED <<feed, owed, excused, replies, lapsed>> /\ ~Busy(s)
    BY <1>2 DEF NoList, End, debt, told, process, Busy
  <2>2. Files(s) /\ marks' = marks
    BY <2>1, FeedSame, FollowsFiles
  <2>3. pass'.todo = {} /\ pass'.who = {}
    BY <1>2, PassFields
  <2>4. QED
    BY <1>1, <2>1, <2>2, <2>3 DEF Life, Aside, Quiet, Busy
<1>3. CASE ListArrives
  <2>1. /\ UNCHANGED <<feed, replies, lapsed, owed>> /\ excused' = excused \cup spoken
        /\ pass.at = "list"
    BY <1>3 DEF ListArrives, Excuse, told, process
  <2>2. marks' = marks /\ filed' = filed
    BY <2>1, FeedSame
  <2>3. pass'.at = "loop" /\ pass'.todo = registry /\ (s \in registry => pass'.rows[s] = Snapshot(s))
    BY <1>3, PassFields
  <2>4. QED
    BY <1>1, <2>1, <2>2, <2>3 DEF Listed, Quiet, Life, Busy
<1>4. CASE Finish
  <2>1. /\ UNCHANGED <<replies, lapsed, owed>> /\ excused' = excused \cup (owed \ Seen)
        /\ pass.at = "loop" /\ pass.todo = {}
    BY <1>4 DEF Finish, Excuse, told, process
  <2>2. Files(s) /\ (marks'[s] = marks[s] \/ (s \notin Seen /\ marks'[s] = NoMark))
    BY <1>4, FeedSteps, FollowsFiles
  <2>3. pass'.at = "gone" /\ pass'.todo = pass.todo
    BY <1>4, PassFields
  <2>4. QED
    BY <1>1, <2>1, <2>2, <2>3 DEF Pruned, Quiet, Busy, Life
<1>5. QED
  BY <1>2, <1>3, <1>4, LifeOfARow, LifeOfABanner, LifeOfAReply DEF PassStep

LEMMA LifeStep ==
  ASSUME TypeOK, [Next]_vars, NEW s \in Sessions
  PROVE  Life(s)
<1>1. ASSUME NEW t \in Sessions, GatewayOn(t) PROVE Life(s)
  BY <1>1, LifeElsewhere DEF Life
<1>2. CASE \/ StartSessionSweep \/ SessionSignal \/ IntervalElapses \/ TimerFires \/ ProxyStep
           \/ UNCHANGED vars
  BY <1>2, LifeOfTheSweep
<1>3. CASE PassStep
  BY <1>3, LifeOfAPass
<1>4. QED
  BY <1>1, <1>2, <1>3 DEF Next, GatewayStep, GatewayOn

-----------------------------------------------------------------------------
(* One reply a turn. *)

LEMMA Numbers ==
  ASSUME TypeOK, NEW s \in Sessions
  PROVE  /\ replies[s] \in Nat /\ turns[s] \in Nat /\ lapsed[s] \in Nat /\ count[s] \in Nat
         /\ Told(s) \in Nat /\ Allowance(s) \in Nat
         /\ marks[s] \in Mark /\ marks[s].count \in Nat
         /\ filed[s] \in Mark /\ filed[s].count \in Nat
         /\ pass.rows[s] \in Mark /\ pass.rows[s].count \in Nat
<1>1. /\ replies[s] \in Nat /\ turns[s] \in Nat /\ lapsed[s] \in Nat
      /\ marks[s] \in Mark /\ filed[s] \in Mark /\ pass.rows[s] \in Mark
  BY MarksType DEF TypeOK
<1>2. count[s] \in Nat
  BY Constants DEF TypeOK
<1>3. Told(s) \in Nat /\ Allowance(s) \in Nat
  BY <1>1 DEF Told, Allowance
<1>4. QED
  BY <1>1, <1>2, <1>3, Constants

\* The gateway, as far as announcements are concerned.
Moves(s) ==
  \/ /\ count'[s] = count[s] /\ turns'[s] = turns[s]
     /\ status'[s] \in {status[s], "idle"} \/ (status[s] # "idle" /\ status'[s] # "idle")
  \/ /\ count'[s] = count[s] + 1 /\ turns'[s] = turns[s] + 1
     /\ status[s] = "idle" /\ status'[s] # "idle"
  \/ /\ count'[s] = count[s] + 1 /\ turns'[s] = turns[s]
     /\ status[s] # "idle" /\ status'[s] # "idle"

LEMMA GatewayMoves ==
  ASSUME TypeOK, NEW s \in Sessions, GatewayOn(s)
  PROVE  Moves(s) /\ UNCHANGED <<feed, replies, lapsed, pass>>
<1>1. UNCHANGED <<feed, replies, lapsed, pass>>
  BY GatewayFrame
<1>2. CASE SessionOpens(s) \/ SessionCloses(s) \/ Asks(s) \/ Answered(s) \/ TurnEnds(s) \/ TurnStopped(s)
  <2>1. count' = count /\ turns' = turns
    BY <1>2 DEF SessionOpens, SessionCloses, Asks, Answered, TurnEnds, TurnStopped
  <2>2. \/ status' = status
        \/ status' = [status EXCEPT ![s] = "idle"]
        \/ status[s] # "idle" /\ status' = [status EXCEPT ![s] = "waiting"]
        \/ status[s] # "idle" /\ status' = [status EXCEPT ![s] = "working"]
    BY <1>2 DEF SessionOpens, SessionCloses, Asks, Answered, TurnEnds, TurnStopped
  <2>3. status'[s] \in {status[s], "idle"} \/ (status[s] # "idle" /\ status'[s] # "idle")
    BY <2>2 DEF TypeOK
  <2>4. QED
    BY <1>1, <2>1, <2>3 DEF Moves
<1>3. CASE TurnStarts(s)
  <2>1. /\ status[s] = "idle" /\ status' = [status EXCEPT ![s] = "working"]
        /\ count' = [count EXCEPT ![s] = @ + 1] /\ turns' = [turns EXCEPT ![s] = @ + 1]
    BY <1>3 DEF TurnStarts
  <2>2. status'[s] = "working" /\ count'[s] = count[s] + 1 /\ turns'[s] = turns[s] + 1
    BY <2>1 DEF TypeOK
  <2>3. QED
    BY <1>1, <2>1, <2>2 DEF Moves
<1>4. CASE ReplyAppended(s)
  <2>1. status[s] = "working" /\ status' = status /\ turns' = turns /\ count' = [count EXCEPT ![s] = @ + 1]
    BY <1>4 DEF ReplyAppended
  <2>2. count'[s] = count[s] + 1
    BY <2>1 DEF TypeOK
  <2>3. QED
    BY <1>1, <2>1, <2>2 DEF Moves
<1>5. QED
  BY <1>1, <1>2, <1>3, <1>4 DEF GatewayOn

LEMMA ReplyStep ==
  ASSUME TypeOK, TypeOK', NEW s \in Sessions, Reply(s), Life(s)
  PROVE  Reply(s)'
<1>1. /\ replies[s] \in Nat /\ turns[s] \in Nat /\ lapsed[s] \in Nat /\ count[s] \in Nat
      /\ Told(s) \in Nat /\ Allowance(s) \in Nat
      /\ marks[s].count \in Nat /\ filed[s].count \in Nat /\ pass.rows[s].count \in Nat
  BY Numbers
<1>2. CASE GatewayOn(s)
  <2>1. /\ Moves(s) /\ UNCHANGED <<marks, filed, pass>> /\ Told(s)' = Told(s)
        /\ Allowance(s)' = turns'[s] + lapsed[s]
    BY <1>2, GatewayMoves, FeedSame DEF Told, Busy, Allowance
  <2>2. MarksWere(s)' /\ RowsWere(s)'
    BY <1>1, <2>1 DEF Moves, Reply, MarksWere, RowsWere, Was
  <2>3. Behind(s)'
    BY <1>1, <2>1 DEF Moves, Reply, MarksWere, RowsWere, Was, Behind, Allowance
  <2>4. QED
    BY <2>2, <2>3 DEF Reply
<1>3. CASE Aside(s) \/ Reported(s)
  <2>1. Told(s)' <= Told(s) /\ Told(s)' \in Nat /\ Allowance(s)' = Allowance(s)
    <3>1. Told(s)' \in Nat
      BY Numbers, <1>1, <1>3 DEF Aside, Quiet, Reported, Told
    <3>2. QED
      BY <1>1, <1>3, <3>1 DEF Aside, Quiet, Still, Reported, Told, Allowance
  <2>2. /\ Still(s) /\ marks'[s] = marks[s] /\ filed'[s] \in {filed[s], marks[s]}
        /\ s \in pass'.todo => s \in pass.todo /\ pass'.rows[s] = pass.rows[s]
    BY <1>3 DEF Aside, Quiet, Reported, Files
  <2>3. MarksWere(s)' /\ RowsWere(s)'
    BY <2>2 DEF Still, Reply, MarksWere, RowsWere, Was
  <2>4. Behind(s)'
    BY <1>1, <2>1, <2>2 DEF Still, Reply, Behind
  <2>5. QED
    BY <2>3, <2>4 DEF Reply
<1>4. CASE Listed(s)
  <2>1. Told(s)' = Told(s) /\ Allowance(s)' = Allowance(s)
    BY <1>4 DEF Listed, Quiet, Still, Told, Allowance
  <2>2. Snapshot(s) # NoMark /\ Snapshot(s).status = status[s] /\ Snapshot(s).count = count[s]
    BY SnapshotIsMark
  <2>3. MarksWere(s)' /\ RowsWere(s)'
    BY <1>1, <1>4, <2>2 DEF Listed, Quiet, Still, Reply, MarksWere, RowsWere, Was
  <2>4. Behind(s)'
    BY <1>4, <2>1, <2>2 DEF Listed, Quiet, Still, Reply, Behind
  <2>5. QED
    BY <2>3, <2>4 DEF Reply
<1>5. CASE Taken(s)
  <2>1. /\ Told(s)' = (IF Busy(s)' THEN Told(s) + 1 ELSE Told(s)) /\ (Busy(s)' => Replied(s))
        /\ Allowance(s)' = Allowance(s)
    BY <1>1, <1>5 DEF Taken, Quiet, Still, Told, Allowance
  <2>2. MarksWere(s)' /\ RowsWere(s)'
    BY <1>5 DEF Taken, Quiet, Still, Files, Reply, MarksWere, RowsWere, Was
  <2>3. Was(s, pass.rows[s]) /\ Behind(s) /\ s \in pass.todo
    BY <1>5 DEF Taken, Reply, RowsWere
  <2>4. CASE Busy(s)'
    <3>1. /\ pass.rows[s].status = "idle" /\ marks[s] # NoMark /\ pass.rows[s].count > marks[s].count
      BY <2>1, <2>4 DEF Replied
    <3>2. pass.rows[s].count = count[s] => status[s] = "idle" /\ Told(s) < Allowance(s)
      BY <1>1, <2>3, <3>1 DEF Was, Behind
    <3>3. pass.rows[s].count # count[s] => Told(s) + 1 < Allowance(s)
      BY <1>1, <2>3, <3>1 DEF Behind
    <3>4. QED
      BY <1>1, <1>5, <2>1, <2>2, <2>4, <3>2, <3>3 DEF Taken, Quiet, Still, Reply, Behind
  <2>5. CASE ~Busy(s)'
    BY <1>1, <1>5, <2>1, <2>2, <2>3, <2>5 DEF Taken, Quiet, Still, Reply, Behind
  <2>6. QED
    BY <2>4, <2>5
<1>6. CASE Pruned(s)
  <2>1. Told(s)' = Told(s) /\ Allowance(s)' = Allowance(s)
    BY <1>6 DEF Pruned, Quiet, Still, Told, Allowance
  <2>2. MarksWere(s)' /\ RowsWere(s)'
    BY <1>1, <1>6, Constants DEF Pruned, Quiet, Still, Files, Reply, MarksWere, RowsWere, Was
  <2>3. Behind(s)'
    BY <1>6, <2>1 DEF Pruned, Quiet, Still, Reply, Behind
  <2>4. QED
    BY <2>2, <2>3 DEF Reply
<1>7. CASE Cut(s)
  <2>1. Told(s)' <= Told(s) /\ Told(s)' \in Nat
    BY <1>1, <1>7 DEF Cut, Told
  <2>2. Allowance(s)' = (IF filed[s] = marks[s] THEN Allowance(s) ELSE Allowance(s) + 1)
    BY <1>1, <1>7 DEF Cut, Still, Allowance
  <2>3. MarksWere(s)' /\ RowsWere(s)'
    BY <1>7 DEF Cut, Still, Reply, MarksWere, RowsWere, Was
  <2>4. Behind(s)'
    BY <1>1, <1>7, <2>1, <2>2 DEF Cut, Still, Reply, Behind
  <2>5. QED
    BY <2>3, <2>4 DEF Reply
<1>8. QED
  BY <1>2, <1>3, <1>4, <1>5, <1>6, <1>7 DEF Life

-----------------------------------------------------------------------------
(* What is swallowed. *)

LEMMA GapGateway ==
  ASSUME TypeOK, NEW s \in Sessions, Reply(s), Gap(s), GatewayOn(s)
  PROVE  Gap(s)'
<1>1. /\ UNCHANGED <<marks, filed, pass, source>>
      /\ marks[s].count \in Nat /\ filed[s].count \in Nat /\ pass.rows[s].count \in Nat /\ count[s] \in Nat
      /\ produced[s] \in Nat
  BY Numbers, GatewayFrame, FeedSame DEF TypeOK
<1>2. CASE SessionOpens(s)
  <2>1. UNCHANGED <<status, count, spoken, produced, owed, excused>> /\ registry' = registry \cup {s}
    BY <1>2 DEF SessionOpens, debt
  <2>2. QED
    BY <1>1, <2>1 DEF Gap, OwedIsOver, SeenSpoken, InFlightIn, FiledGap, Swallowed, Snapshot, Busy
<1>3. CASE SessionCloses(s) \/ TurnStarts(s) \/ Asks(s) \/ Answered(s) \/ TurnStopped(s)
  <2>1. s \notin spoken' /\ s \notin owed'
    BY <1>3 DEF SessionCloses, TurnStarts, Asks, Answered, TurnStopped, debt, Gap, OwedIsOver, SeenSpoken,
                InFlightStatus
  <2>2. QED
    BY <2>1 DEF Gap, OwedIsOver, SeenSpoken, FiledGap
<1>4. CASE ReplyAppended(s)
  <2>1. count'[s] = count[s] + 1 /\ status'[s] = "working" /\ s \notin owed'
    BY <1>4 DEF ReplyAppended, TypeOK, debt, Gap, OwedIsOver
  <2>2. marks[s].count <= count[s] /\ filed[s].count <= count[s] /\ (s \in pass.todo => pass.rows[s].count <= count[s])
    BY DEF Reply, MarksWere, RowsWere, Was
  <2>3. QED
    BY <1>1, <2>1, <2>2 DEF Gap, OwedIsOver, SeenSpoken, InFlightIn, FiledGap
<1>5. CASE TurnEnds(s)
  <2>1. /\ s \in registry' /\ status[s] = "working" /\ status'[s] = "idle" /\ count'[s] = count[s] /\ s \in spoken
        /\ s \notin spoken' /\ excused' = excused /\ produced'[s] = produced[s] + 1
        /\ s \in owed' => s \in owed \/ (marks[s] # NoMark /\ source[s] = "person")
    BY <1>5 DEF TurnEnds, TypeOK
  <2>2. OwedIsOver(s)'
    BY <1>1, <2>1 DEF Gap, OwedIsOver
  <2>3. SeenSpoken(s)'
    BY <1>1, <2>1 DEF Gap, SeenSpoken, InFlightIn
  <2>4. ~Swallowed(s)' /\ FiledGap(s)'
    <3>1. /\ ~(marks[s].count = count[s] /\ marks[s].status = "idle")
          /\ ~(filed[s].count = count[s] /\ filed[s].status = "idle")
      BY <2>1 DEF Reply, MarksWere, Was
    <3>2. QED
      BY <1>1, <2>1, <3>1 DEF Swallowed, FiledGap, Snapshot
  <2>5. QED
    BY <2>2, <2>3, <2>4 DEF Gap
<1>6. QED
  BY <1>2, <1>3, <1>4, <1>5 DEF GatewayOn

LEMMA GapTaken ==
  ASSUME TypeOK, NEW s \in Sessions, Reply(s), Gap(s), Taken(s)
  PROVE  Gap(s)'
<1>1. /\ marks[s] \in Mark /\ marks[s].count \in Nat /\ pass.rows[s].count \in Nat /\ count[s] \in Nat
      /\ Snapshot(s)' = Snapshot(s)
  BY Numbers DEF Taken, Quiet, Still, Snapshot
<1>2. Was(s, pass.rows[s]) /\ pass.rows[s] # NoMark /\ marks[s].count <= pass.rows[s].count /\ s \in pass.todo
  BY DEF Taken, Reply, RowsWere
<1>3. OwedIsOver(s)' /\ SeenSpoken(s)'
  BY <1>2 DEF Taken, Quiet, Still, Files, Gap, OwedIsOver, SeenSpoken, InFlightIn
<1>4. ASSUME s \in owed', Swallowed(s)' PROVE s \in excused'
  <2>1. /\ s \in owed /\ status[s] = "idle" /\ source[s] = "person"
        /\ marks[s] # NoMark \/ s \in excused
        /\ s \in excused => s \in excused'
    BY <1>4 DEF Taken, Quiet, Gap, OwedIsOver
  <2>2. pass.rows[s].count = count[s] /\ pass.rows[s].status = "idle"
    BY <1>1, <1>4, <2>1 DEF Taken, Swallowed, Snapshot
  <2>3. CASE Replied(s)
    BY <1>4, <2>2, <2>3 DEF Taken, Swallowed
  <2>4. CASE ~Replied(s) /\ marks[s] # NoMark
    <3>1. marks[s].count = count[s]
      BY <1>1, <1>2, <2>1, <2>2, <2>4 DEF Replied
    <3>2. CASE marks[s].status = "idle"
      <4>1. marks[s] = Snapshot(s)
        <5>1. marks[s] \in [status : Status, count : 0..MaxCount]
          BY <1>1, <2>4 DEF Mark
        <5>2. QED
          BY <2>1, <3>1, <3>2, <5>1 DEF Snapshot
      <4>2. QED
        BY <2>1, <4>1 DEF Taken, Gap, Swallowed
    <3>3. CASE marks[s].status # "idle"
      BY <2>1, <2>4, <3>1, <3>3 DEF Gap, SeenSpoken, InFlightIn
    <3>4. QED
      BY <3>2, <3>3
  <2>5. QED
    BY <2>1, <2>3, <2>4
<1>5. FiledGap(s)'
  <2>1. CASE filed'[s] = filed[s]
    BY <1>1, <2>1 DEF Taken, Quiet, Gap, FiledGap
  <2>2. CASE filed'[s] = marks'[s]
    BY <1>4, <2>2 DEF FiledGap, Swallowed
  <2>3. QED
    BY <2>1, <2>2 DEF Taken, Files
<1>6. QED
  BY <1>3, <1>4, <1>5 DEF Gap

LEMMA GapStep ==
  ASSUME TypeOK, NEW s \in Sessions, Reply(s), Gap(s), Life(s)
  PROVE  Gap(s)'
<1>1. Still(s) => Snapshot(s)' = Snapshot(s)
  BY DEF Still, Snapshot
<1>2. Snapshot(s) # NoMark /\ Snapshot(s).status = status[s] /\ Snapshot(s).count = count[s]
  BY SnapshotIsMark
<1>3. CASE Aside(s)
  <2>1. /\ s \in owed' <=> s \in owed
        /\ s \in excused => s \in excused'
        /\ marks'[s] = marks[s] /\ filed'[s] \in {filed[s], marks[s]}
        /\ Snapshot(s)' = Snapshot(s) /\ (Busy(s)' => Busy(s))
        /\ Busy(s) /\ ~Busy(s)' /\ marks[s] = Snapshot(s) => s \in excused'
    BY <1>1, <1>2, <1>3 DEF Aside, Quiet, Files
  <2>2. OwedIsOver(s)' /\ SeenSpoken(s)'
    BY <1>3, <2>1 DEF Aside, Quiet, Still, Gap, OwedIsOver, SeenSpoken, InFlightIn
  <2>3. s \in owed' /\ Swallowed(s)' => s \in excused'
    BY <2>1 DEF Gap, Swallowed
  <2>4. FiledGap(s)'
    BY <2>1 DEF Gap, FiledGap, Swallowed
  <2>5. QED
    BY <2>2, <2>3, <2>4 DEF Gap
<1>4. CASE Listed(s)
  <2>1. OwedIsOver(s)' /\ SeenSpoken(s)'
    BY <1>2, <1>4 DEF Listed, Quiet, Still, Gap, OwedIsOver, SeenSpoken, InFlightIn
  <2>2. QED
    BY <1>1, <1>4, <2>1 DEF Listed, Quiet, Gap, Swallowed, FiledGap
<1>5. CASE Reported(s)
  <2>1. OwedIsOver(s)' /\ SeenSpoken(s)'
    BY <1>5 DEF Reported, Still, Gap, OwedIsOver, SeenSpoken, InFlightIn
  <2>2. s \in owed' /\ marks[s] = Snapshot(s) => s \in excused'
    BY <1>2, <1>5 DEF Reported, Gap, OwedIsOver, TypeOK
  <2>3. QED
    BY <1>1, <1>5, <2>1, <2>2 DEF Reported, Gap, Swallowed, FiledGap
<1>6. CASE Pruned(s)
  <2>1. OwedIsOver(s)' /\ SeenSpoken(s)'
    BY <1>6 DEF Pruned, Quiet, Still, Files, Gap, OwedIsOver, SeenSpoken, InFlightIn
  <2>2. QED
    BY <1>1, <1>2, <1>6, <2>1 DEF Pruned, Quiet, Files, Gap, Swallowed, FiledGap
<1>7. CASE Cut(s)
  <2>1. OwedIsOver(s)' /\ SeenSpoken(s)'
    BY <1>7 DEF Cut, Still, Gap, OwedIsOver, SeenSpoken, InFlightIn
  <2>2. s \in owed /\ filed[s] = Snapshot(s) => s \in excused'
    BY <1>7 DEF Cut, Gap, FiledGap
  <2>3. QED
    BY <1>1, <1>7, <2>1, <2>2 DEF Cut, Gap, Swallowed, FiledGap
<1>8. QED
  BY <1>3, <1>4, <1>5, <1>6, <1>7, GapGateway, GapTaken DEF Life

-----------------------------------------------------------------------------
(* Banners. *)

LEMMA BannerGateway ==
  ASSUME TypeOK, BannerInv, NEW s \in Sessions, GatewayOn(s)
  PROVE  BannerInv' /\ banner' = banner
<1>1. UNCHANGED <<feed, announced, banner, lost, pass>> /\ marks' = marks
  BY GatewayFrame, FeedSame
<1>2. AnnouncedWait' /\ BannersKnown'
  BY <1>1 DEF BannerInv, AnnouncedWait, BannersKnown, Leaving, Seen
<1>3. ASSUME NEW t \in open' PROVE t \in open /\ t \in registry' /\ status'[t] = "waiting"
  BY <1>3 DEF TypeOK, BannerInv, OpenListed, GatewayOn, SessionOpens, SessionCloses, TurnStarts, Asks, Answered,
         ReplyAppended, TurnEnds, TurnStopped, debt, InFlightStatus
<1>4. OpenListed'
  BY <1>1, <1>3 DEF BannerInv, OpenListed
<1>5. QED
  BY <1>1, <1>2, <1>4 DEF BannerInv

LEMMA BannerSweep ==
  ASSUME TypeOK, BannerInv,
         \/ StartSessionSweep \/ SessionSignal \/ IntervalElapses \/ TimerFires \/ ProxyStep
         \/ UNCHANGED vars
  PROVE  BannerInv' /\ banner' = banner
<1>1. CASE StartSessionSweep \/ SessionSignal \/ IntervalElapses \/ UNCHANGED vars
  <2>1. UNCHANGED <<feed, announced, banner, lost, pass, registry, status, open>> /\ marks' = marks
    BY <1>1, AskFrame, FeedSame
  <2>2. QED
    BY <2>1 DEF BannerInv, AnnouncedWait, BannersKnown, OpenListed, Leaving, Seen
<1>2. CASE TimerFires
  <2>1. /\ UNCHANGED <<feed, announced, banner, lost, registry, status>> /\ marks' = marks
        /\ open' = {s \in registry : status[s] = "waiting"} /\ pass'.at = "list" /\ pass.at = "idle"
    BY <1>2, PassFields, FeedSame DEF TimerFires, gateway, phone, Running
  <2>2. QED
    BY <2>1 DEF BannerInv, AnnouncedWait, BannersKnown, OpenListed, Leaving
<1>3. CASE FeedWritten \/ CooldownFires
  <2>1. UNCHANGED <<announced, banner, lost, pass, registry, status, open>> /\ marks' = marks
    BY <1>3, FeedSteps DEF FeedWritten, CooldownFires, elsewhere, gateway, phone
  <2>2. QED
    BY <2>1 DEF BannerInv, AnnouncedWait, BannersKnown, OpenListed, Leaving, Seen
<1>4. CASE Shutdown
  <2>1. /\ UNCHANGED <<banner, pass, registry, status, open>> /\ marks' = marks
        /\ announced' = {} /\ lost' = lost \cup banner
    BY <1>4, FeedSteps DEF Shutdown, elsewhere, gateway
  <2>2. QED
    BY <2>1 DEF BannerInv, AnnouncedWait, BannersKnown, OpenListed
<1>5. CASE Exit \/ Kill
  <2>1. /\ announced' = {} /\ open' = {} /\ banner' = banner /\ lost' = lost \cup banner /\ pass'.at = "idle"
    BY <1>5, PassFields DEF Exit, Kill, Restarted
  <2>2. QED
    BY <2>1 DEF BannerInv, AnnouncedWait, BannersKnown, OpenListed
<1>6. QED
  BY <1>1, <1>2, <1>3, <1>4, <1>5 DEF ProxyStep

LEMMA BannerRow ==
  ASSUME TypeOK, BannerInv, NEW s \in Sessions, NEW b \in BOOLEAN, TakeRow(s, b)
  PROVE  BannerInv' /\ banner' = banner
<1>1. /\ UNCHANGED <<registry, status, open, banner>> /\ pass.at = "loop"
      /\ marks' = [marks EXCEPT ![s] = pass.rows[s]] /\ marks \in [Sessions -> Mark]
      /\ announced' = IF Over(s) THEN announced \ {s} ELSE announced
      /\ lost' = IF Over(s) /\ ~b THEN lost \cup {s} ELSE lost
  BY FeedSteps, MarksType, ProxyFrame, PassFrame DEF TakeRow, PassStep
<1>2. /\ pass'.rows = pass.rows /\ pass'.at = Work(s, b) /\ pass'.then # "gone"
      /\ pass'.at # "loop" => pass'.who = {s}
  BY RowFields
<1>3. pass'.at = "detail" => pass.rows[s].status = "waiting"
  BY <1>2 DEF Work, Asking
<1>4. pass'.at = "retract" => pass.rows[s].status # "waiting"
  BY <1>2 DEF Work, Over
<1>5. Over(s) /\ b => pass'.at = "retract"
  BY <1>2 DEF Work, Over, Asking
<1>6. AnnouncedWait'
  <2>1. ASSUME NEW t \in announced' PROVE marks'[t].status = "waiting"
    <3>1. t \in announced /\ t \in Sessions /\ marks[t].status = "waiting"
      BY <1>1, <2>1 DEF BannerInv, AnnouncedWait, Leaving, TypeOK
    <3>2. CASE t = s
      <4>1. ~Over(s)
        BY <1>1, <2>1, <3>2
      <4>2. QED
        BY <1>1, <3>1, <3>2, <4>1 DEF Over
    <3>3. CASE t # s
      BY <1>1, <3>1, <3>3
    <3>4. QED
      BY <3>2, <3>3
  <2>2. pass'.at = "detail" => \A t \in pass'.who : marks'[t].status = "waiting"
    BY <1>1, <1>2, <1>3
  <2>3. QED
    BY <2>1, <2>2 DEF AnnouncedWait
<1>7. BannersKnown'
  BY <1>1, <1>2, <1>5 DEF BannerInv, BannersKnown
<1>8. OpenListed'
  BY <1>1, <1>2, <1>4 DEF BannerInv, OpenListed
<1>9. QED
  BY <1>1, <1>6, <1>7, <1>8 DEF BannerInv

LEMMA BannerMoves ==
  ASSUME TypeOK, BannerInv, NEW s \in Sessions, NEW b \in BOOLEAN, NEW ok \in BOOLEAN,
         DetailArrives(s, ok) \/ Retract(s, ok, b) \/ TakeGone(s, b)
  PROVE  BannerInv' /\ \A t \in banner \ banner' : t \notin open
<1>1. UNCHANGED <<registry, status, open>> /\ marks' = marks
  BY ProxyFrame, PassFrame, FeedSame DEF DetailArrives, Retract, TakeGone, PassStep
<1>2. pass'.rows = pass.rows
  BY RowFields
<1>3. CASE DetailArrives(s, ok)
  <2>1. /\ pass.at = "detail" /\ s \in pass.who
        /\ announced' = announced \cup {s} /\ banner' = IF ok THEN banner \cup {s} ELSE banner
        /\ lost' = IF ok THEN lost \ {s} ELSE lost
        /\ pass'.at = "loop"
    BY <1>3, RowFields DEF DetailArrives
  <2>2. AnnouncedWait'
    BY <1>1, <2>1 DEF BannerInv, AnnouncedWait, Leaving
  <2>3. BannersKnown'
    BY <2>1 DEF BannerInv, BannersKnown
  <2>4. OpenListed'
    BY <1>1, <1>2, <2>1 DEF BannerInv, OpenListed
  <2>5. QED
    BY <2>1, <2>2, <2>3, <2>4 DEF BannerInv
<1>4. CASE Retract(s, ok, b)
  <2>1. /\ pass.at = "retract" /\ pass.who = {s} /\ announced' = announced
        /\ banner' = IF ok THEN banner \ {s} ELSE banner
        /\ lost' = IF ok THEN lost \ {s} ELSE lost \cup {s}
        /\ pass'.at \in {"loop", "reply", "gone"} /\ (pass'.at = "gone" <=> pass.then = "gone")
    <3>1. pass.then \in {"loop", "reply", "gone"}
      BY PassType DEF Passes
    <3>2. /\ pass.who = {s}
          /\ \/ pass.then # "reply" /\ pass'.at = pass.then
             \/ pass.then = "reply" /\ pass'.at \in {"loop", "reply"}
      BY <1>4, RowFields
    <3>3. /\ pass.at = "retract" /\ announced' = announced
          /\ banner' = IF ok THEN banner \ {s} ELSE banner
          /\ lost' = IF ok THEN lost \ {s} ELSE lost \cup {s}
      BY <1>4 DEF Retract
    <3>4. QED
      BY <3>1, <3>2, <3>3
  <2>2. AnnouncedWait'
    BY <1>1, <1>2, <2>1 DEF BannerInv, AnnouncedWait, Leaving, Seen
  <2>3. BannersKnown'
    BY <2>1 DEF BannerInv, BannersKnown
  <2>4. OpenListed' /\ s \notin open
    BY <1>1, <1>2, <2>1 DEF BannerInv, OpenListed
  <2>5. QED
    BY <2>1, <2>2, <2>3, <2>4 DEF BannerInv
<1>5. CASE TakeGone(s, b)
  <2>1. /\ pass.at = "gone" /\ s \notin Seen
        /\ announced' = announced \ {s} /\ banner' = banner
        /\ lost' = IF b THEN lost ELSE lost \cup {s}
        /\ \/ b /\ pass'.at = "retract" /\ pass'.who = {s} /\ pass'.then = "gone"
           \/ ~b /\ pass'.at = "gone" /\ pass'.who = {}
    BY <1>5, RowFields DEF TakeGone
  <2>2. AnnouncedWait'
    BY <1>1, <1>2, <2>1 DEF BannerInv, AnnouncedWait, Leaving, Seen
  <2>3. BannersKnown'
    BY <2>1 DEF BannerInv, BannersKnown
  <2>4. pass.rows[s].status # "waiting"
    BY <2>1, Constants DEF Seen
  <2>5. OpenListed'
    BY <1>1, <1>2, <2>1, <2>4 DEF BannerInv, OpenListed
  <2>6. QED
    BY <2>1, <2>2, <2>3, <2>5 DEF BannerInv
<1>6. QED
  BY <1>3, <1>4, <1>5

LEMMA BannerPass ==
  ASSUME TypeOK, BannerInv, NoList \/ ListArrives \/ Finish \/ End \/ \E s \in Sessions : ReplyArrives(s)
  PROVE  BannerInv' /\ banner' = banner
<1>1. UNCHANGED <<registry, status, open>>
  BY ProxyFrame, PassFrame DEF PassStep
<1>2. UNCHANGED <<announced, banner, lost>>
  BY DEF NoList, ListArrives, Finish, End, ReplyArrives, phone
<1>3. CASE NoList
  <2>1. pass'.at = "idle" /\ pass.at = "list" /\ marks' = marks
    BY <1>3, PassFields, FeedSame DEF NoList
  <2>2. QED
    BY <1>1, <1>2, <2>1 DEF BannerInv, AnnouncedWait, BannersKnown, OpenListed, Leaving
<1>4. CASE ListArrives
  <2>1. /\ pass'.at = "loop" /\ pass.at = "list" /\ marks' = marks
        /\ \A s \in Sessions : pass'.rows[s] = IF s \in registry THEN Snapshot(s) ELSE NoMark
    BY <1>4, PassFields, FeedSame DEF ListArrives
  <2>2. \A s \in open : s \in Sessions /\ s \in registry /\ status[s] = "waiting" /\ Snapshot(s).status = status[s]
    BY SnapshotIsMark DEF BannerInv, OpenListed, TypeOK
  <2>3. QED
    BY <1>1, <1>2, <2>1, <2>2 DEF BannerInv, AnnouncedWait, BannersKnown, OpenListed, Leaving
<1>5. CASE Finish
  <2>1. /\ pass'.at = "gone" /\ pass.at = "loop" /\ pass'.rows = pass.rows
        /\ \A s \in Sessions : marks'[s] = marks[s] \/ s \notin Seen
    BY <1>5, PassFields, FeedSteps DEF Finish
  <2>2. AnnouncedWait'
    BY <1>2, <2>1 DEF BannerInv, AnnouncedWait, Leaving, Seen, TypeOK
  <2>3. QED
    BY <1>1, <1>2, <2>1, <2>2 DEF BannerInv, BannersKnown, OpenListed
<1>6. CASE End
  <2>1. pass'.at = "idle" /\ pass.at = "gone" /\ announced \subseteq Seen /\ marks' = marks
    BY <1>6, PassFields, FeedSame DEF End
  <2>2. QED
    BY <1>1, <1>2, <2>1 DEF BannerInv, AnnouncedWait, BannersKnown, OpenListed, Leaving
<1>7. ASSUME NEW s \in Sessions, ReplyArrives(s) PROVE BannerInv'
  <2>1. pass.at = "reply" /\ pass'.at = "loop" /\ pass'.rows = pass.rows /\ marks' = marks
    BY <1>7, RowFields, FeedSame DEF ReplyArrives
  <2>2. QED
    BY <1>1, <1>2, <2>1 DEF BannerInv, AnnouncedWait, BannersKnown, OpenListed, Leaving
<1>8. QED
  BY <1>2, <1>3, <1>4, <1>5, <1>6, <1>7

LEMMA BannerStep ==
  ASSUME TypeOK, BannerInv, [Next]_vars
  PROVE  BannerInv' /\ \A s \in banner \ banner' : s \notin open
<1>1. CASE GatewayStep
  BY <1>1, BannerGateway DEF GatewayStep, GatewayOn
<1>2. CASE \/ StartSessionSweep \/ SessionSignal \/ IntervalElapses \/ TimerFires \/ ProxyStep
           \/ UNCHANGED vars
  BY <1>2, BannerSweep
<1>3. CASE PassStep
  BY <1>3, BannerRow, BannerMoves, BannerPass DEF PassStep
<1>4. QED
  BY <1>1, <1>2, <1>3 DEF Next

-----------------------------------------------------------------------------

SweepInv == TypeOK /\ Room /\ BannerInv /\ \A s \in Sessions : Reply(s) /\ Gap(s)

LEMMA SweepInvInit == Init => SweepInv
<1> SUFFICES ASSUME Init PROVE SweepInv
  OBVIOUS
<1>1. TypeOK /\ Room
  BY InitType
<1>2. BannerInv
  BY DEF Init, BannerInv, AnnouncedWait, BannersKnown, OpenListed, Idle, Leaving
<1>3. ASSUME NEW s \in Sessions PROVE Reply(s) /\ Gap(s)
  <2>1. /\ count[s] = 0 /\ pass.at = "idle" /\ pass.todo = {} /\ owed = {} /\ spoken = {}
        /\ replies[s] = 0 /\ turns[s] = 0 /\ lapsed[s] = 0 /\ status[s] = "idle"
    BY <1>3, Constants DEF Init
  <2>2. marks[s] = NoMark /\ filed[s] = NoMark
    <3>1. s \in Keys
      BY Constants
    <3>2. QED
      BY <3>1 DEF Init, Loaded, EmptyFile, marks, filed
  <2>3. Reply(s)
    BY <2>1, <2>2, Constants DEF Reply, MarksWere, RowsWere, Was, Behind, Told, Busy, Allowance
  <2>4. QED
    BY <2>1, <2>3 DEF Gap, OwedIsOver, SeenSpoken, FiledGap
<1>4. QED
  BY <1>1, <1>2, <1>3 DEF SweepInv

LEMMA SweepInvStep == SweepInv /\ [Next]_vars => SweepInv'
<1> SUFFICES ASSUME SweepInv, [Next]_vars PROVE SweepInv'
  OBVIOUS
<1>1. TypeOK /\ TypeOK' /\ Room'
  BY TypeStep DEF SweepInv
<1>2. BannerInv'
  BY BannerStep DEF SweepInv
<1>3. ASSUME NEW s \in Sessions PROVE Reply(s)' /\ Gap(s)'
  BY <1>1, LifeStep, ReplyStep, GapStep DEF SweepInv
<1>4. QED
  BY <1>1, <1>2, <1>3 DEF SweepInv

\* What the sweep believes of a session, and what the file does, is something
\* the session was, and what it has announced stays behind what was asked.
THEOREM SessionSweepInvariant == Spec => []SweepInv
BY SweepInvInit, SweepInvStep, PTL DEF Spec

\* retractWaiting is called wherever a question is over (push/sessions.ts): a
\* banner outlives it past the pass that notices only if the retraction could
\* not be sent or the process that knew of it has ended.
THEOREM SessionBannerIsCurrent == Spec => []BannerIsCurrent
<1>1. SweepInv => BannerIsCurrent
  BY DEF SweepInv, BannerInv, AnnouncedWait, BannersKnown, BannerIsCurrent, Leaving
<1>2. QED
  BY <1>1, SessionSweepInvariant, PTL

\* A pass without a list concludes nothing, and one with a list takes down no
\* banner whose question was open when it was asked for and still is.
THEOREM SessionRetractedOnlyWhenOver == Spec => RetractedOnlyWhenOver
<1>1. SweepInv /\ [Next]_vars => [\A s \in banner \ banner' : s \notin open]_vars
  BY BannerStep DEF SweepInv
<1>2. QED
  BY <1>1, SessionSweepInvariant, PTL DEF Spec, RetractedOnlyWhenOver

\* The watermark moves before the reply is read back (push/sessions.ts): no turn
\* is announced twice, whatever the passes miss, but for once more whenever a
\* process is killed before its feed has written the watermark (push/feed.ts).
THEOREM SessionOneReplyPerTurn == Spec => []OneReplyPerTurn
<1>1. SweepInv => OneReplyPerTurn
  <2>1. ASSUME SweepInv, NEW s \in Sessions PROVE replies[s] <= turns[s] + lapsed[s]
    BY <2>1, Numbers DEF SweepInv, Reply, Behind, Told, Allowance
  <2>2. QED
    BY <2>1 DEF OneReplyPerTurn
<1>2. QED
  BY <1>1, SessionSweepInvariant, PTL

\* A reply nobody is told of is one of those Excuse names: listed between its
\* last append and its turn's end, not sent, or cut off by a process that ended
\* behind its watermark; there is no other way to lose one.
THEOREM SessionSwallowedOnlyIfExcused == Spec => []SwallowedOnlyIfExcused
<1>1. SweepInv => SwallowedOnlyIfExcused
  BY DEF SweepInv, Gap, SwallowedOnlyIfExcused, TypeOK
<1>2. QED
  BY <1>1, SessionSweepInvariant, PTL

-----------------------------------------------------------------------------
(* The scheduler of the sweep. *)

Sweep == INSTANCE Coalescing WITH on <- sweep, owed <- timer \/ dirty, busy <- Running

\* Only a pass leaves an ask for later.
DirtyInPass == dirty => Running

\* What the contract sees of a step.
Serves ==
  /\ DirtyInPass'
  /\ Sweep!Next \/ UNCHANGED Sweep!vars

\* A step the scheduler does not see.
LEMMA OutOfSight ==
  ASSUME DirtyInPass, UNCHANGED scheduler, Running' <=> Running
  PROVE  Serves
BY DEF Serves, DirtyInPass, Sweep!vars, scheduler

LEMMA NextServes == TypeOK /\ DirtyInPass /\ [Next]_vars => Serves
<1> SUFFICES ASSUME TypeOK, DirtyInPass, [Next]_vars PROVE Serves
  OBVIOUS
<1>1. ASSUME pass' = pass, UNCHANGED scheduler PROVE Serves
  BY <1>1, OutOfSight DEF Running
<1>2. ASSUME UNCHANGED scheduler, pass.at # "idle", pass'.at # "idle" PROVE Serves
  BY <1>2, OutOfSight DEF Running
<1>3. ASSUME Leave, Running, sweep' = sweep, pass'.at = "idle" PROVE Serves
  BY <1>3 DEF Leave, Serves, DirtyInPass, Running, Sweep!Next, Sweep!End
<1>4. CASE GatewayStep \/ FeedWritten \/ CooldownFires \/ UNCHANGED vars
  <2>1. UNCHANGED <<pass, scheduler>>
    BY <1>4 DEF GatewayStep, SessionOpens, SessionCloses, TurnStarts, Asks, Answered, ReplyAppended,
                TurnEnds, TurnStopped, proxy, vars, FeedWritten, CooldownFires, elsewhere, scheduler
  <2>2. QED
    BY <1>1, <2>1
<1>5. CASE StartSessionSweep
  BY <1>5 DEF StartSessionSweep, unasked, Serves, DirtyInPass, Running, Sweep!Next, Sweep!Start
<1>6. CASE SessionSignal \/ IntervalElapses
  BY <1>6 DEF SessionSignal, IntervalElapses, Schedule, unasked, Serves, DirtyInPass, Running,
              Sweep!Next, Sweep!Ask
<1>7. CASE TimerFires
  <2>1. pass'.at = "list"
    BY <1>7, PassFields
  <2>2. QED
    BY <1>7, <2>1 DEF TimerFires, Serves, DirtyInPass, Running, Sweep!Next, Sweep!Begin
<1>8. CASE NoList \/ End
  <2>1. Leave /\ Running /\ sweep' = sweep
    BY <1>8 DEF NoList, End, Running
  <2>2. pass'.at = "idle"
    BY <1>8, PassFields
  <2>3. QED
    BY <1>3, <2>1, <2>2
<1>9. CASE ListArrives \/ Finish
  <2>1. pass.at # "idle" /\ UNCHANGED scheduler
    BY <1>9 DEF ListArrives, Finish
  <2>2. pass'.at # "idle"
    BY <1>9, PassFields
  <2>3. QED
    BY <1>2, <2>1, <2>2
<1>10. ASSUME NEW s \in Sessions, NEW b \in BOOLEAN, NEW ok \in BOOLEAN,
              \/ TakeRow(s, b) \/ TakeGone(s, b) \/ DetailArrives(s, ok)
              \/ Retract(s, ok, b) \/ ReplyArrives(s)
       PROVE  Serves
  <2>1. pass.at # "idle" /\ UNCHANGED scheduler
    BY <1>10 DEF TakeRow, TakeGone, DetailArrives, Retract, ReplyArrives
  <2>2. pass'.at # "idle"
    <3>1. Work(s, b) # "idle"
      BY DEF Work
    <3>2. pass.then # "idle"
      BY PassType DEF Passes
    <3>3. QED
      BY <1>10, <3>1, <3>2, RowFields
  <2>3. QED
    BY <1>2, <2>1, <2>2
<1>11. CASE Shutdown
  BY <1>11 DEF Shutdown, elsewhere, Serves, DirtyInPass, Running, Sweep!Next, Sweep!Stop
<1>12. CASE Exit \/ Kill
  <2>1. pass'.at = "idle"
    BY <1>12, PassFields
  <2>2. ~sweep' /\ ~timer' /\ ~dirty'
    BY <1>12 DEF Exit, Kill, Restarted
  <2>3. QED
    BY <2>1, <2>2 DEF Serves, DirtyInPass, Running, Sweep!Next, Sweep!Stop
<1>13. CASE PassStep
  BY <1>8, <1>9, <1>10, <1>13 DEF PassStep
<1>14. QED
  BY <1>4, <1>5, <1>6, <1>7, <1>11, <1>12, <1>13 DEF Next, ProxyStep

\* Passes never overlap, and what asked for one during another, a signal or the
\* pass itself when it saw a turn in flight, is answered by one that begins after
\* it (scheduleSessionSweep and the running and dirty flags of push/sessions.ts).
THEOREM SessionCoalesces == Spec => Sweep!Spec
<1>1. Init => Sweep!Init /\ DirtyInPass
  BY DEF Init, Idle, Running, DirtyInPass, Sweep!Init
<1>2. TypeOK /\ DirtyInPass /\ [Next]_vars => DirtyInPass' /\ [Sweep!Next]_(Sweep!vars)
  BY NextServes DEF Serves
<1>3. Spec => []TypeOK
  <2>1. SweepInv => TypeOK
    BY DEF SweepInv
  <2>2. QED
    BY <2>1, SessionSweepInvariant, PTL
<1>4. QED
  BY <1>1, <1>2, <1>3, PTL DEF Spec, Sweep!Spec

=============================================================================
