--------------------------------- MODULE Feed ---------------------------------
(***************************************************************************)
(* The feed under its callers: the cron reconcile pass (one at a time,     *)
(* seeding or reporting), the other writers of rows and watermarks, the    *)
(* reader's HTTP calls, the persist timer, and the process being stopped   *)
(* or killed.                                                              *)
(***************************************************************************)
EXTENDS FeedStore

CONSTANTS
  WriteOutcomes, \* what a write to the state directory may return
  MaxTime        \* bound on the clock

ASSUME FeedSpecAssumption ==
  /\ WriteOutcomes \subseteq BOOLEAN
  /\ MaxTime \in Nat

VARIABLES
  feed,
  pass,   \* the cron pass under way: "none", "seeding" or "reporting"
  now     \* the wall clock

feedVars == <<feed, pass, now>>

FeedInit ==
  /\ feed = Loaded(EmptyFile)
  /\ pass = "none"
  /\ now = 1

-----------------------------------------------------------------------------
(* The cron pass, as cron.ts drives the store. *)

BeginPass ==
  /\ pass = "none"
  /\ pass' = IF HasSeeded(feed) THEN "reporting" ELSE "seeding"
  /\ UNCHANGED <<feed, now>>

\* A run found in the history on the first pass is remembered, not announced.
AdoptRun(run) ==
  /\ pass = "seeding"
  /\ ~HasRun(feed, run)
  /\ \E ok \in WriteOutcomes : feed' = MarkRunSeen(feed, run, ok)
  /\ UNCHANGED <<pass, now>>

\* A run nobody was told about.  Its row carries the time it ended, which may
\* be long before now.
AnnounceRun(run) ==
  /\ pass = "reporting"
  /\ ~HasRun(feed, run)
  /\ \E ok \in WriteOutcomes, at \in 1..now :
        feed' = AppendEntry(feed, [run |-> run, topic |-> NoTopic, at |-> at], ok)
  /\ UNCHANGED <<pass, now>>

\* hasRun answers yes: the pass skips the run, the index stays built.
SkipRun(run) ==
  /\ pass # "none"
  /\ HasRun(feed, run)
  /\ feed' = Indexed(feed)
  /\ UNCHANGED <<pass, now>>

\* The pass reaches its end, or gives up before markSeeded.
EndPass ==
  /\ pass # "none"
  /\ pass' = "none"
  /\ \/ \E ok \in WriteOutcomes :
          feed' = IF pass = "seeding" THEN MarkSeeded(feed, ok) ELSE feed
     \/ UNCHANGED feed
  /\ UNCHANGED now

-----------------------------------------------------------------------------
(* The other writers. *)

\* updates.ts: the agent's announcements and the backend going up and down.
ReportUpdate(topic) ==
  /\ \E ok \in WriteOutcomes :
        feed' = AppendUpdate(feed, [run |-> NoRun, topic |-> topic, at |-> now], ok)
  /\ UNCHANGED <<pass, now>>

\* kanban.ts and sessions.ts: the value last seen of a card or a session.
Observe(key, value) ==
  /\ \E ok \in WriteOutcomes : feed' = SetWatermark(feed, key, value, ok)
  /\ UNCHANGED <<pass, now>>

Prune(keep) ==
  /\ \E ok \in WriteOutcomes : feed' = PruneWatermarks(feed, Keys, keep, ok)
  /\ UNCHANGED <<pass, now>>

-----------------------------------------------------------------------------
(* The reader. *)

OpenScreen ==
  /\ \E ok \in WriteOutcomes : feed' = MarkRead(feed, ok)
  /\ UNCHANGED <<pass, now>>

ClearScreen ==
  /\ \E ok \in WriteOutcomes : feed' = ClearEntries(feed, ok)
  /\ UNCHANGED <<pass, now>>

-----------------------------------------------------------------------------
(* Timers and the process. *)

CooldownFires ==
  /\ feed.cooldown
  /\ \E ok \in WriteOutcomes : feed' = CooldownEnds(feed, ok)
  /\ UNCHANGED <<pass, now>>

Tick ==
  /\ now < MaxTime
  /\ now' = now + 1
  /\ UNCHANGED <<feed, pass>>

\* SIGINT or SIGTERM calls flushFeed.  The process lives on until the server
\* has closed its connections, so anything but a new pass may still happen.
Shutdown ==
  /\ \E ok \in WriteOutcomes : feed' = Flush(feed, ok)
  /\ UNCHANGED <<pass, now>>

\* The process exits or is killed: what only memory held is gone, and the next
\* process loads the file.
Crash ==
  /\ feed' = Loaded(feed.disk)
  /\ pass' = "none"
  /\ UNCHANGED now

FeedNext ==
  \/ BeginPass
  \/ \E run \in Runs : AdoptRun(run) \/ AnnounceRun(run) \/ SkipRun(run)
  \/ EndPass
  \/ \E topic \in Topics : ReportUpdate(topic)
  \/ \E key \in Keys, value \in Values : Observe(key, value)
  \/ \E keep \in SUBSET Keys : Prune(keep)
  \/ OpenScreen
  \/ ClearScreen
  \/ CooldownFires
  \/ Tick
  \/ Shutdown
  \/ Crash

FeedSpec == FeedInit /\ [][FeedNext]_feedVars

-----------------------------------------------------------------------------
(* Safety. *)

FeedTypeOK ==
  /\ feed \in FeedType
  /\ \A file \in {feed.mem, feed.disk} :
        Len(file.entries) <= MaxEntries /\ Len(file.seenRuns) <= SeenCap
  /\ pass \in {"none", "seeding", "reporting"}
  /\ now \in Nat

\* persist(): what is only in memory is owed to an armed timer, so one cooldown
\* is the most a kill can lose, unless the disk refused the last write.
NothingUnowed ==
  /\ feed.pending => feed.cooldown
  /\ feed.mem # feed.disk => feed.pending \/ feed.stale

\* seenSet(): the index answers hasRun exactly as the array would, across the
\* eviction that rewrites the array (markRunSeen) and a reload.
IndexIsExact ==
  feed.seenIndex.built => feed.seenIndex.ids = Elements(feed.mem.seenRuns)

\* The runs a file shows are among the runs it remembers: the bound on seenRuns
\* "must outlive the entries", in memory and in the file a restart would load.
SeenOutlivesEntries ==
  \A file \in {feed.mem, feed.disk} : \A i \in 1..Len(file.entries) :
    file.entries[i].run = NoRun \/ file.entries[i].run \in Elements(file.seenRuns)

\* No run has two rows, whatever was evicted, cleared, or lost to a kill.
NoRunTwice ==
  \A file \in {feed.mem, feed.disk} : \A i, j \in 1..Len(file.entries) :
    file.entries[i].run = file.entries[j].run => i = j \/ file.entries[i].run = NoRun

-----------------------------------------------------------------------------
(* Action properties. *)

\* clearEntries empties the list and not the memory behind it: clearing means
\* "I have read these", not "show them to me again".
ClearingForgetsNoRun ==
  [][ClearScreen => \A run \in Runs : HasRun(feed, run) => HasRun(feed', run)]_feedVars

=============================================================================
