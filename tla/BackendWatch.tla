---------------------------- MODULE BackendWatch ----------------------------
(***************************************************************************)
(* The backend's own rows in the updates feed, server/src/push/updates.ts: *)
(* what backendWentDown, the grace timer, backendCameBack and              *)
(* resetBackendWatch make of a link that drops and returns.                *)
(*                                                                         *)
(* Time is counted in ticks since the link dropped, up to Grace.  The three*)
(* kinds of row share one collapse key, so the feed shows the newest only. *)
(***************************************************************************)
EXTENDS Integers

CONSTANTS
  Conversations,   \* sessions that can be mid-turn
  Grace,           \* OUTAGE_GRACE_MS in ticks
  Floor            \* RESTART_FLOOR_MS in ticks

ASSUME WatchAssumption == Grace \in Nat /\ Floor \in Nat /\ Floor < Grace

\* outageTimer, outageReported, downSince and interrupted; -1 is null.
Watches ==
  {watch \in [timer : BOOLEAN, reported : BOOLEAN, since : -1..Grace,
              interrupted : SUBSET Conversations] :
     /\ ~(watch.timer /\ watch.reported)
     /\ watch.timer \/ watch.reported <=> watch.since # -1}

\* resetBackendWatch, and what backendCameBack leaves.
Quiet == [timer |-> FALSE, reported |-> FALSE, since |-> -1, interrupted |-> {}]

Rows == [kind : {"none", "down", "up", "restarted"}, names : SUBSET Conversations]
NoRow == [kind |-> "none", names |-> {}]

\* Mutated: every close starts the outage afresh.
WentDownAgain(watch, underWay) ==
  [timer |-> TRUE, reported |-> FALSE, since |-> 0, interrupted |-> underWay]

\* backendWentDown: only the first close of an outage counts.
WentDown(watch, underWay) ==
  IF watch.timer \/ watch.reported THEN watch
  ELSE [timer |-> TRUE, reported |-> FALSE, since |-> 0, interrupted |-> underWay]

Aged(watch) ==
  [watch EXCEPT !.since = IF @ \in 0..(Grace - 1) THEN @ + 1 ELSE @]

GraceOver(watch) == watch.timer /\ watch.since = Grace

Announced(watch) == [watch EXCEPT !.timer = FALSE, !.reported = TRUE]

DownRow(watch) == [kind |-> "down", names |-> watch.interrupted]

\* reportRestart's conditions: something was running, and the link was away for
\* longer than the proxy's own reconnect takes.
LostToRestart(watch) == watch.interrupted # {} /\ watch.since \notin 0..(Floor - 1)

\* Mutated: the timer is left to run.
CameBackLate(watch) == [watch EXCEPT !.reported = FALSE, !.interrupted = {}]

CameBack(watch) == Quiet

\* Mutated: a return past the floor is a recovery.
RowOnReturnAnyway(watch, row) ==
  IF watch.since \notin 0..(Floor - 1) THEN [kind |-> "up", names |-> {}] ELSE row

\* The row backendCameBack writes over the present one, if any.
RowOnReturn(watch, row) ==
  IF watch.reported THEN [kind |-> "up", names |-> {}]
  ELSE IF LostToRestart(watch) THEN [kind |-> "restarted", names |-> watch.interrupted]
  ELSE row

=============================================================================
