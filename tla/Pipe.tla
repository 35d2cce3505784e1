-------------------------------- MODULE Pipe --------------------------------
(***************************************************************************)
(* What the bridge promises for either direction: frames come out as they  *)
(* went in, each once, whole, in order and of its own type, until the pipe *)
(* breaks; a frame that does not come out of a pipe that holds is on its   *)
(* way.                                                                    *)
(***************************************************************************)
EXTENDS Naturals, Sequences

CONSTANT Frames

VARIABLES
  sent, got,  \* the frames one end wrote and the other read
  broken

vars == <<sent, got, broken>>

Init == sent = <<>> /\ got = <<>> /\ broken = FALSE

\* The writer may learn late that the pipe broke.
Send ==
  /\ \E f \in Frames : sent' = Append(sent, f)
  /\ UNCHANGED <<got, broken>>

\* What was on its way when the pipe broke may still come out.
Deliver ==
  /\ Len(got) < Len(sent)
  /\ got' = Append(got, sent[Len(got) + 1])
  /\ UNCHANGED <<sent, broken>>

Break == ~broken /\ broken' /\ UNCHANGED <<sent, got>>

Next == Send \/ Deliver \/ Break

Spec == Init /\ [][Next]_vars

\* Weak fairness of Deliver while the pipe holds, with ENABLED spelled out.
LiveSpec == Spec /\ []<>(broken \/ got = sent)

=============================================================================
