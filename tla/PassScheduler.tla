---------------------------- MODULE PassScheduler ----------------------------
(***************************************************************************)
(* The skeleton shared by the three sweeps of the proxy (cron.ts,          *)
(* kanban.ts and sessions.ts in server/src/push): an interval and a signal *)
(* ask for a pass, a settle timer collapses a burst of asks, and an ask    *)
(* that lands during a pass is remembered by a flag.  Time is counted in   *)
(* ticks.  What a pass reads is left to the modules of the three sweeps;   *)
(* here it only takes time.                                                *)
(***************************************************************************)
EXTENDS Integers

CONSTANTS
  Settle,        \* SETTLE_MS: from an ask to the pass it causes
  ActiveSettle,  \* ACTIVE_SWEEP_MS: from a pass that wants another to that one
  Interval       \* SWEEP_MS

ASSUME SchedulerAssumption ==
  /\ Settle \in Nat /\ ActiveSettle \in Nat
  /\ Interval \in Nat \ {0}
  /\ Settle <= ActiveSettle

Off == -1

VARIABLES
  sweep,    \* ticks to the next interval, Off when the sweep is stopped
  timer,    \* ticks left on the settle timer, Off when it is not armed
  running,  \* the module's flag
  dirty,    \* the module's flag
  passes,   \* how many passes are actually under way
  waited    \* how long the oldest ask no pass has answered yet has been waiting
            \* while no pass was under way; Off when there is none

schedulerVars == <<sweep, timer, running, dirty, passes, waited>>

SchedulerTypeOK ==
  /\ sweep \in -1..Interval
  /\ timer \in -1..ActiveSettle
  /\ running \in BOOLEAN /\ dirty \in BOOLEAN
  /\ passes \in Nat
  /\ waited \in Nat \cup {Off}

SchedulerInit ==
  /\ sweep = Off /\ timer = Off
  /\ running = FALSE /\ dirty = FALSE
  /\ passes = 0 /\ waited = Off

-----------------------------------------------------------------------------

\* Mutated: each ask starts the settle delay again.
ScheduleAgain(delay) ==
  /\ dirty' = (dirty \/ running)
  /\ timer' = IF running THEN timer ELSE delay

\* scheduleCronReconcile, scheduleKanbanSweep, scheduleSessionSweep.
Schedule(delay) ==
  /\ dirty' = (dirty \/ running)
  /\ timer' = IF running \/ timer # Off THEN timer ELSE delay

Asked == waited' = IF waited = Off THEN 0 ELSE waited

\* cron.changed, sessions.changed or approval.cancelled.
Signal ==
  /\ Schedule(Settle)
  /\ Asked
  /\ UNCHANGED <<sweep, running, passes>>

\* start*Sweep.  Only the kanban sweep asks for a pass at once.
StartSweep ==
  /\ sweep = Off
  /\ sweep' = Interval
  /\ \/ Schedule(Settle) /\ Asked
     \/ UNCHANGED <<timer, dirty, waited>>
  /\ UNCHANGED <<running, passes>>

IntervalElapses ==
  /\ sweep = 0
  /\ sweep' = Interval
  /\ Schedule(Settle)
  /\ Asked
  /\ UNCHANGED <<running, passes>>

\* stop*Sweep: what the timer held is dropped, the flags are not.
StopSweep ==
  /\ sweep' = Off
  /\ timer' = Off
  /\ waited' = IF dirty THEN waited ELSE Off
  /\ UNCHANGED <<running, dirty, passes>>

\* The timer callback: the pass raises running before its first await.
TimerFires ==
  /\ timer = 0
  /\ timer' = Off
  /\ running' = TRUE
  /\ passes' = passes + 1
  /\ waited' = Off
  /\ UNCHANGED <<sweep, dirty>>

\* Mutated: the flag is lowered and nobody looks.
PassEndsDeaf(again) ==
  /\ passes > 0
  /\ passes' = passes - 1
  /\ running' = FALSE
  /\ dirty' = FALSE
  /\ timer' = IF again /\ timer = Off THEN ActiveSettle ELSE timer
  /\ UNCHANGED <<sweep, waited>>

\* The finally block.  `again': the session sweep saw a turn in flight.
PassEnds(again) ==
  /\ passes > 0
  /\ passes' = passes - 1
  /\ running' = FALSE
  /\ dirty' = FALSE
  /\ timer' = IF timer # Off THEN timer
              ELSE IF dirty THEN Settle
              ELSE IF again THEN ActiveSettle
              ELSE Off
  /\ UNCHANGED <<sweep, waited>>

Later(left) == IF left = Off THEN Off ELSE left - 1

\* Time passes while nothing is due.
TimePasses ==
  /\ timer # 0 /\ sweep # 0
  /\ timer' = Later(timer)
  /\ sweep' = Later(sweep)
  /\ waited' = IF waited = Off \/ passes > 0 THEN waited ELSE waited + 1
  /\ UNCHANGED <<running, dirty, passes>>

SchedulerNext ==
  \/ Signal \/ StartSweep \/ IntervalElapses \/ StopSweep
  \/ TimerFires
  \/ \E again \in BOOLEAN : PassEnds(again)
  \/ TimePasses

SchedulerSpec == SchedulerInit /\ [][SchedulerNext]_schedulerVars

\* JavaScript timers fire when due and every read of a pass is timed out.
FairSchedulerSpec ==
  /\ SchedulerSpec
  /\ WF_schedulerVars(TimePasses)
  /\ WF_schedulerVars(TimerFires)
  /\ WF_schedulerVars(IntervalElapses)
  /\ WF_schedulerVars(\E again \in BOOLEAN : PassEnds(again))

-----------------------------------------------------------------------------

\* Two passes never overlap: they would both find the same run unseen between
\* hasRun and appendEntry.
OnePassAtATime == passes <= 1 /\ (running <=> passes = 1)

\* A burst of asks cannot put the pass off: the oldest unanswered one waits, the
\* passes under way apart, no longer than the longest delay a timer is armed for.
ServedInTime == waited <= ActiveSettle

\* The skeleton implements the contract its callers rely on.
Contract == INSTANCE Coalescing
  WITH on <- sweep # Off, owed <- timer # Off \/ dirty, busy <- passes > 0

Coalesces == Contract!LiveSpec

=============================================================================
