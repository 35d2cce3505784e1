--------------------------- MODULE MCCronReconcile ---------------------------
(* A small instance of the cron pass for TLC: a brief job with a run in its own
   profile's store, one filed in the active store, and a refused attempt. *)
EXTENDS CronReconcile, TLC

CONSTANTS brief, own, misfiled, refused

MCOneJob == [r \in {own, misfiled, refused} |-> brief]

\* Nothing had ended before the install, or everything.
MCHistories == {{}, Runs}

=============================================================================
