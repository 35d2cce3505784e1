--------------------------- MODULE MCSessionSweep ---------------------------
(* A small instance of the session sweep for TLC: one session. *)
EXTENDS SessionSweep

MCValues == [status : Status, count : 0..MaxCount]

MCNoMark == [status |-> "none", count |-> 0]

=============================================================================
