---------------------------- MODULE AccessSession ----------------------------
(***************************************************************************)
(* What the app believes about the way to its origin,                      *)
(* web/src/lib/accessSession.ts, as operators on one record: whether the   *)
(* Access session has expired (latched), whether this device can reach the *)
(* origin, and whether a probe of /healthz is in flight.                   *)
(*                                                                         *)
(* What a probe says about the backend behind the proxy is left out: it is *)
(* only the wording of a banner.                                           *)
(***************************************************************************)
EXTENDS Naturals

UnreachableAfter == 2

AccessType == [expired : BOOLEAN, unreachable : BOOLEAN,
               networkFailures : 0..UnreachableAfter, probing : BOOLEAN]

Unknown == [expired |-> FALSE, unreachable |-> FALSE, networkFailures |-> 0, probing |-> FALSE]

MarkHostReached(a) == [a EXCEPT !.networkFailures = 0, !.unreachable = FALSE]

\* Beyond the threshold the counter decides nothing, and is not counted.
MarkNetworkFailure(a) ==
  LET failures == IF a.networkFailures < UnreachableAfter THEN a.networkFailures + 1
                  ELSE UnreachableAfter
  IN  [a EXCEPT !.networkFailures = failures,
                !.unreachable = (@ \/ failures = UnreachableAfter)]

\* markExpired, and markAccessRefused, which is the same.
MarkExpired(a) == [a EXCEPT !.expired = TRUE]

\* probeAccess() up to its first await.
ProbeAccess(a) == IF a.expired THEN a ELSE [a EXCEPT !.probing = TRUE]

\* A response of any kind: the way is there, and `bounced' is the login page's
\* redirect or a 401.
ProbeAnswered(a, bounced) ==
  LET reached == [MarkHostReached(a) EXCEPT !.probing = FALSE]
  IN  IF bounced THEN MarkExpired(reached) ELSE reached

\* Mutated: a fetch that throws is taken for the login page.
ProbeThrewExpired(a) == [MarkExpired(a) EXCEPT !.probing = FALSE]

\* The fetch threw.
ProbeThrew(a) == [MarkNetworkFailure(a) EXCEPT !.probing = FALSE]

=============================================================================
