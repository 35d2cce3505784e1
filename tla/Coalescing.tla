----------------------------- MODULE Coalescing -----------------------------
(***************************************************************************)
(* What every sweep of the proxy promises its callers, whichever gateway   *)
(* state it reads: being asked is never forgotten, however many asks come  *)
(* together they are answered by one pass that begins after the last of    *)
(* them, and two passes never overlap.                                     *)
(***************************************************************************)
VARIABLES
  on,    \* the sweep's interval is installed
  owed,  \* somebody asked since the last pass began
  busy   \* a pass is under way

vars == <<on, owed, busy>>

TypeOK == on \in BOOLEAN /\ owed \in BOOLEAN /\ busy \in BOOLEAN

Init == ~on /\ ~owed /\ ~busy

\* Installing the sweep may ask for a first pass (the kanban sweep does).
Start ==
  /\ ~on /\ on'
  /\ (owed => owed')
  /\ UNCHANGED busy

Ask ==
  /\ owed'
  /\ UNCHANGED <<on, busy>>

Begin ==
  /\ owed /\ ~busy
  /\ ~owed' /\ busy'
  /\ UNCHANGED on

\* The pass itself may ask for another one (the session sweep does).
End ==
  /\ busy /\ ~busy'
  /\ (owed => owed')
  /\ UNCHANGED on

\* Stopped, and possibly killed.  Only here is an ask dropped.
Stop ==
  /\ ~on'
  /\ (owed' => owed)
  /\ (busy' => busy)

Next == Start \/ Ask \/ Begin \/ End \/ Stop

Spec == Init /\ [][Next]_vars

\* Weak fairness of Begin and of End, with ENABLED spelled out so that the
\* formula can be read through a refinement mapping.
LiveSpec == Spec /\ []<>(busy \/ ~owed) /\ []<>~busy

=============================================================================
