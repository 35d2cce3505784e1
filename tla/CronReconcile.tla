---------------------------- MODULE CronReconcile ----------------------------
(***************************************************************************)
(* The cron reconcile pass of the proxy, server/src/push/cron.ts, over the *)
(* feed it writes and the gateway it reads: which finished run, or failed  *)
(* attempt at one, becomes a notification, and how often.                  *)
(*                                                                         *)
(* A pass is one async function.  Between two awaits it runs alone (the    *)
(* other handlers wait for Yielded); at an await anything may happen.      *)
(***************************************************************************)
EXTENDS FeedStore

CONSTANTS
  Jobs,
  JobOf,          \* the job of each run
  Attempts,       \* keys of failed attempts, which only the job record shows
  Scoped,         \* runs filed in the store of their job's own profile
  ActiveStore,    \* runs filed in the active profile's store
  AnswerOutcomes, \* whether a gateway read is answered
  Histories,      \* what may have ended before the install
  MaxRestarts     \* bound on kills and orderly stops

ASSUME CronAssumption ==
  /\ JobOf \in [Runs -> Jobs]
  /\ Attempts \subseteq Runs
  /\ Scoped \cup ActiveStore = Runs \ Attempts
  /\ AnswerOutcomes \subseteq BOOLEAN
  /\ Histories \subseteq SUBSET Runs
  /\ MaxRestarts \in Nat

VARIABLES
  \* the gateway
  history,   \* "none", "running" or "ended" for each run
  latest,    \* the job's latest_execution when it failed, else NoRun
  \* the proxy
  feed,
  sweep,     \* the interval is installed
  timer,     \* the settle timer is armed
  dirty,
  pass,      \* the locals of reconcile()
  stopping,  \* SIGTERM was handled and the process has not exited yet
  \* what happened
  old,       \* the runs that had ended before the install
  pushed,    \* how often each run was announced since the feed last forgot it
  forgotten, \* runs that newer ones pushed out of the feed's memory
  spoilt,    \* old runs a seeding pass was not shown, as a read of it failed; all of
             \* them after a restart that finds no complete pass on disk
  completed, \* a pass has run to its end, and the file remembers it
  restarts

gateway == <<history, latest>>
scheduler == <<sweep, timer, dirty>>
ghosts == <<old, spoilt, restarts>>
told == <<pushed, forgotten>>
vars == <<gateway, feed, scheduler, pass, stopping, told, completed, ghosts>>

Idle == [at |-> "idle", seeding |-> FALSE, latest |-> [j \in Jobs |-> NoRun],
         listed |-> {}, todo |-> {}, job |-> NoRun, found |-> {}, run |-> NoRun]

Init ==
  /\ old \in Histories
  /\ history = [r \in Runs |-> IF r \in old THEN "ended" ELSE "none"]
  /\ latest \in [Jobs -> (old \cap Attempts) \cup {NoRun}]
  /\ \A j \in Jobs : latest[j] # NoRun => JobOf[latest[j]] = j
  /\ feed = Loaded(EmptyFile)
  /\ sweep = FALSE /\ timer = FALSE /\ dirty = FALSE
  /\ pass = Idle
  /\ stopping = FALSE
  /\ pushed = [r \in Runs |-> 0] /\ forgotten = {}
  /\ spoilt = {}
  /\ completed = FALSE
  /\ restarts = 0

-----------------------------------------------------------------------------
(* The gateway. *)

RunStarts(r) ==
  /\ r \notin Attempts /\ history[r] = "none"
  /\ history' = [history EXCEPT ![r] = "running"]
  /\ latest' = [latest EXCEPT ![JobOf[r]] = NoRun]
  /\ UNCHANGED <<feed, scheduler, pass, stopping, ghosts, told, completed>>

RunEnds(r) ==
  /\ history[r] = "running"
  /\ history' = [history EXCEPT ![r] = "ended"]
  /\ UNCHANGED <<latest, feed, scheduler, pass, stopping, ghosts, told, completed>>

\* Refused before any inference: no session, only the job record says so.
AttemptFails(a) ==
  /\ a \in Attempts /\ history[a] = "none"
  /\ history' = [history EXCEPT ![a] = "ended"]
  /\ latest' = [latest EXCEPT ![JobOf[a]] = a]
  /\ UNCHANGED <<feed, scheduler, pass, stopping, ghosts, told, completed>>

-----------------------------------------------------------------------------
(* Asking for a pass. *)

Running == pass.at # "idle"

Yielded == pass.at # "loop"

\* scheduleCronReconcile.
Schedule ==
  /\ dirty' = (dirty \/ Running)
  /\ timer' = (timer \/ ~Running)

StartCronSweep ==
  /\ ~sweep /\ ~stopping
  /\ sweep' = TRUE
  /\ UNCHANGED <<gateway, feed, timer, dirty, pass, stopping, ghosts, told, completed>>

\* cron.changed arrives, or the interval elapses.
CronSignal ==
  /\ Yielded
  /\ Schedule
  /\ UNCHANGED <<gateway, feed, sweep, pass, stopping, ghosts, told, completed>>

IntervalElapses ==
  /\ sweep /\ CronSignal

-----------------------------------------------------------------------------
(* The pass. *)

TimerFires ==
  /\ timer /\ ~Running
  /\ timer' = FALSE
  /\ pass' = [Idle EXCEPT !.at = "jobs"]
  /\ UNCHANGED <<gateway, feed, sweep, dirty, stopping, ghosts, told, completed>>

\* The finally block.
Leave ==
  /\ pass' = Idle
  /\ dirty' = FALSE
  /\ timer' = (timer \/ dirty)

\* Mutated: "have we ever seen a run" in place of "has a pass ever completed".
SeedingUntilARun == feed.mem.seenRuns = << >>

\* Mutated: the first pass announces what it finds.
SeedingNever == FALSE

Seeding == ~HasSeeded(feed)

\* The job list arrives, or does not and the pass gives up.
JobsAnswer(ok) ==
  /\ pass.at = "jobs"
  /\ IF ok
     THEN /\ pass' = [pass EXCEPT !.at = "sessions", !.latest = latest, !.todo = Jobs,
                                  !.seeding = Seeding]
          /\ UNCHANGED <<timer, dirty>>
     ELSE Leave
  /\ UNCHANGED <<gateway, feed, sweep, stopping, ghosts, told, completed>>

\* The active store's cron sessions, read once for the pass; none if it fails.
SessionsAnswer(ok) ==
  /\ pass.at = "sessions"
  /\ pass' = [pass EXCEPT !.at = "loop",
                          !.listed = {r \in ActiveStore : ok /\ history[r] = "ended"}]
  /\ UNCHANGED <<gateway, feed, scheduler, stopping, ghosts, told, completed>>

\* Beyond SeenCap the oldest run is dropped, and counts as never announced.
Evicted == SeenSet(feed) \ SeenSet(feed')
Tells(announced) ==
  /\ forgotten' = forgotten \cup Evicted
  /\ pushed' = [q \in Runs |-> IF q \in Evicted THEN 0
                               ELSE IF q \in announced THEN pushed[q] + 1 ELSE pushed[q]]

\* Mutated: the row does not say which run it reports.
AnnounceUnnamed(r) ==
  /\ feed' = AppendEntry(feed, [run |-> NoRun, topic |-> NoTopic, at |-> 0], TRUE)
  /\ Tells({r})

Announce(r) ==
  /\ feed' = AppendEntry(feed, [run |-> r, topic |-> NoTopic, at |-> 0], TRUE)
  /\ Tells({r})

Adopt(r) ==
  /\ feed' = MarkRunSeen(feed, r, TRUE)
  /\ Tells({})

Known(r) ==
  /\ HasRun(feed, r)
  /\ feed' = Indexed(feed)
  /\ UNCHANGED told

\* reportFailedExecution, on the job record this pass was given.
ReportFailedExecution(a) ==
  \/ a = NoRun /\ UNCHANGED <<feed, told>>
  \/ a # NoRun /\ Known(a)
  \/ a # NoRun /\ ~HasRun(feed, a) /\ IF pass.seeding THEN Adopt(a) ELSE Announce(a)

\* The loop takes the next job and asks for its runs.
NextJob(j) ==
  /\ pass.at = "loop" /\ pass.found = {} /\ j \in pass.todo
  /\ ReportFailedExecution(pass.latest[j])
  /\ pass' = [pass EXCEPT !.at = "runs", !.job = j, !.todo = @ \ {j}]
  /\ UNCHANGED <<gateway, scheduler, stopping, ghosts, completed>>

\* Mutated: the session list is read only when the job's own profile has nothing.
RunsForFallback(j, scoped, listed) ==
  IF scoped # {} THEN scoped ELSE {r \in listed : JobOf[r] = j}

\* runsFor: the union of both stores, each run once.
RunsFor(j, scoped, listed) == scoped \cup {r \in listed : JobOf[r] = j}

\* Runs still in flight have no ended_at and are skipped.
RunsAnswer(ok) ==
  /\ pass.at = "runs"
  /\ LET scoped == {r \in Scoped : ok /\ JobOf[r] = pass.job /\ history[r] = "ended"}
     IN  pass' = [pass EXCEPT !.at = "loop", !.found = RunsFor(pass.job, scoped, pass.listed)]
  /\ spoilt' = spoilt \cup {r \in old \ Attempts : pass.seeding /\ JobOf[r] = pass.job /\ r \notin pass'.found}
  /\ UNCHANGED <<gateway, feed, scheduler, stopping, old, restarts, told, completed>>

\* A run that is known, adopted, or failed (which is announced without reading
\* its reply) takes no await.
TakeRow(r) ==
  /\ pass.at = "loop" /\ r \in pass.found
  /\ \/ Known(r)
     \/ ~HasRun(feed, r) /\ IF pass.seeding THEN Adopt(r) ELSE Announce(r)
  /\ pass' = [pass EXCEPT !.found = @ \ {r}]
  /\ UNCHANGED <<gateway, scheduler, stopping, ghosts, completed>>

\* A run that succeeded: its last message is fetched first.
FetchReply(r) ==
  /\ pass.at = "loop" /\ r \in pass.found
  /\ ~HasRun(feed, r) /\ ~pass.seeding
  /\ pass' = [pass EXCEPT !.found = @ \ {r}, !.at = "reply", !.run = r]
  /\ feed' = Indexed(feed)
  /\ UNCHANGED <<gateway, scheduler, stopping, ghosts, told, completed>>

\* Whatever it says, the run is announced; hasRun is not asked again.
ReplyAnswer ==
  /\ pass.at = "reply"
  /\ Announce(pass.run)
  /\ pass' = [pass EXCEPT !.at = "loop", !.run = NoRun]
  /\ UNCHANGED <<gateway, scheduler, stopping, ghosts, completed>>

Finish ==
  /\ pass.at = "loop" /\ pass.found = {} /\ pass.todo = {}
  /\ feed' = IF pass.seeding THEN MarkSeeded(feed, TRUE) ELSE feed
  /\ completed' = TRUE
  /\ Leave
  /\ UNCHANGED <<gateway, sweep, stopping, ghosts, told>>

-----------------------------------------------------------------------------
(* Timers and the process. *)

CooldownFires ==
  /\ Yielded /\ feed.cooldown
  /\ feed' = CooldownEnds(feed, TRUE)
  /\ UNCHANGED <<gateway, scheduler, pass, stopping, ghosts, told, completed>>

\* The SIGTERM handler: stopCronSweep, then flushFeed.  A pass under way goes on
\* until the process exits.
Shutdown ==
  /\ Yielded /\ ~stopping /\ restarts < MaxRestarts
  /\ stopping' = TRUE
  /\ restarts' = restarts + 1
  /\ sweep' = FALSE /\ timer' = FALSE
  /\ feed' = Flush(feed, TRUE)
  /\ UNCHANGED <<gateway, dirty, pass, old, spoilt, told, completed>>

Restarted ==
  /\ feed' = Loaded(feed.disk)
  /\ sweep' = FALSE /\ timer' = FALSE /\ dirty' = FALSE
  /\ pass' = Idle
  /\ stopping' = FALSE
  /\ completed' = (completed /\ HasSeeded(feed'))
  /\ spoilt' = IF feed.disk.seeded THEN spoilt ELSE Runs
  /\ UNCHANGED <<gateway, old, told>>

Exit ==
  /\ Yielded /\ stopping
  /\ Restarted
  /\ UNCHANGED restarts

Kill ==
  /\ restarts < MaxRestarts
  /\ restarts' = restarts + 1
  /\ Restarted

PassStep ==
  \/ \E ok \in AnswerOutcomes : JobsAnswer(ok) \/ SessionsAnswer(ok) \/ RunsAnswer(ok)
  \/ \E j \in Jobs : NextJob(j)
  \/ \E r \in Runs : TakeRow(r) \/ FetchReply(r)
  \/ ReplyAnswer
  \/ Finish

Next ==
  \/ \E r \in Runs : RunStarts(r) \/ RunEnds(r) \/ AttemptFails(r)
  \/ StartCronSweep \/ CronSignal \/ IntervalElapses \/ TimerFires
  \/ PassStep
  \/ CooldownFires
  \/ Shutdown \/ Exit \/ Kill

Spec == Init /\ [][Next]_vars

\* The proxy is started, its timers fire, every read is answered or timed out,
\* and no read fails for ever.
FairSpec ==
  /\ Spec
  /\ WF_vars(StartCronSweep) /\ WF_vars(IntervalElapses) /\ WF_vars(TimerFires)
  /\ WF_vars(PassStep)
  /\ WF_vars(CooldownFires) /\ WF_vars(Exit)
  /\ SF_vars(JobsAnswer(TRUE)) /\ SF_vars(SessionsAnswer(TRUE))
  /\ \A j \in Jobs : SF_vars(pass.job = j /\ RunsAnswer(TRUE))

-----------------------------------------------------------------------------

TypeOK ==
  /\ history \in [Runs -> {"none", "running", "ended"}]
  /\ latest \in [Jobs -> Attempts \cup {NoRun}]
  /\ feed \in FeedType
  /\ sweep \in BOOLEAN /\ timer \in BOOLEAN /\ dirty \in BOOLEAN
  /\ pass \in [at : {"idle", "jobs", "sessions", "loop", "runs", "reply"},
               seeding : BOOLEAN,
               latest : [Jobs -> Attempts \cup {NoRun}],
               listed : SUBSET ActiveStore,
               todo : SUBSET Jobs,
               job : Jobs \cup {NoRun},
               found : SUBSET (Runs \ Attempts),
               run : (Runs \ Attempts) \cup {NoRun}]
  /\ stopping \in BOOLEAN /\ completed \in BOOLEAN
  /\ old \subseteq Runs /\ spoilt \subseteq Runs /\ forgotten \subseteq Runs
  /\ pushed \in [Runs -> Nat]
  /\ restarts \in 0..MaxRestarts

\* "Dedupe is by run id": however many signals and passes, a run is announced
\* once per life of the process that was cut short, and once in all otherwise;
\* and once more each time newer runs have pushed it out of the feed's memory.
AnnouncedOnce == \A r \in Runs : pushed[r] <= 1 + restarts

\* "The first pass on a fresh install adopts history silently": a run that had
\* ended before the install is never announced, whatever fails and whenever the
\* process is restarted, unless the first pass was not shown this run, or did not
\* come to be complete on disk, or newer runs have pushed it out of the feed.
HistoryStaysSilentIfRead == \A r \in old \ (spoilt \cup forgotten) : pushed[r] = 0

\* Adopting is for the first pass: once a pass has run to its end, a run is
\* never remembered without being announced, unless a restart brings back what
\* only the file still knew.
NothingAdoptedLater ==
  [][\A r \in Runs \ forgotten :
       completed /\ r \notin SeenSet(feed) /\ r \in SeenSet(feed')
         => pushed'[r] = pushed[r] + 1]_vars

\* Whatever store it was filed in and whichever reads failed meanwhile, a run
\* that ended is known to the feed sooner or later; and so is a failed attempt,
\* unless the job's next attempt replaces it first.
RunsArrive ==
  /\ \A r \in Runs \ Attempts : history[r] = "ended" ~> HasRun(feed, r)
  /\ \A a \in Attempts :
       latest[JobOf[a]] = a ~> HasRun(feed, a) \/ latest[JobOf[a]] # a

=============================================================================
