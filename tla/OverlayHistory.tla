--------------------------- MODULE OverlayHistory ---------------------------
(***************************************************************************)
(* The overlays of a page and the browser's history,                       *)
(* web/src/lib/useHistoryDismiss.ts: an entry per open overlay, what a     *)
(* back press closes, and how the entries of overlays that were closed in  *)
(* another way are taken off again.                                        *)
(*                                                                         *)
(* One step is one task of the page: an event or a popstate, the commit it *)
(* causes (every cleanup, then every effect) and the microtask behind it.  *)
(* Between two tasks history.back() is under way.                          *)
(***************************************************************************)
EXTENDS Integers, FiniteSets, SequencesExt

CONSTANTS
  Depth,       \* pages under the one on screen, as many as can be pressed away
  MaxOpened,   \* bound on overlays opened
  MaxPresses,  \* bound on back presses
  MaxPages,    \* bound on navigations
  MaxLate      \* bound on pops that take longer than a second

ASSUME OverlayAssumption ==
  /\ MaxOpened \in Nat /\ MaxPresses \in Nat /\ MaxPages \in Nat /\ MaxLate \in Nat
  /\ Depth \in Nat /\ Depth >= MaxPresses + MaxLate + MaxOpened

NoOverlay == 0      \* an entry without an __overlayId

VARIABLES
  stack,         \* history up to the entry on screen, by __overlayId
  liveOverlays,
  overlaySeq,
  unwinding,
  pops,          \* calls of history.back() under way
  \* what happened
  presses, dismissed, pagesBack, pages, late,
  races          \* which of Races have happened

overlayVars == <<stack, liveOverlays, overlaySeq, unwinding, pops,
                 presses, dismissed, pagesBack, pages, late, races>>

\* "early": something opened or was navigated to while a pop was under way;
\* "three": three overlays were open at once; "strand": a page went over the entry
\* of an overlay; "late": a pop took longer than a second.
Races == {"early", "three", "strand", "late"}

OverlayInit ==
  /\ stack = [i \in 1..(Depth + 1) |-> NoOverlay]
  /\ liveOverlays = {} /\ overlaySeq = 0
  /\ unwinding = FALSE /\ pops = 0
  /\ presses = 0 /\ dismissed = 0 /\ pagesBack = 0 /\ pages = 0 /\ late = 0
  /\ races = {}

-----------------------------------------------------------------------------
(* The hook. *)

Abandoned(entry, live) == entry # NoOverlay /\ entry \notin live

\* An overlay opens onto st: the entry of one that has gone is taken over.
Claim(st, live, id) ==
  IF Abandoned(Last(st), live) THEN ReplaceAt(st, Len(st), id) ELSE Append(st, id)

\* Mutated: does not ask whether a pop is under way.
UnwindEach(st, live, under, inFlight) ==
  LET goes == Abandoned(Last(st), live)
  IN  unwinding' = (under \/ goes) /\ pops' = inFlight + (IF goes THEN 1 ELSE 0)

\* unwind(): pop the top entry if it is nobody's, one pop at a time.
Unwind(st, live, under, inFlight) ==
  LET goes == ~under /\ Abandoned(Last(st), live)
  IN  unwinding' = (under \/ goes) /\ pops' = inFlight + (IF goes THEN 1 ELSE 0)

\* The overlays of `closing` close and, in the same commit, one may open.  The
\* unwind is asked for by a cleanup, and by the pop of an earlier one.
Commit(closing, opens, st, under, inFlight, resumed) ==
  LET rest == liveOverlays \ closing
      id == overlaySeq + 1
      live == IF opens THEN rest \cup {id} ELSE rest
      claimed == IF opens THEN Claim(st, rest, id) ELSE st
  IN  /\ opens => overlaySeq < MaxOpened
      /\ overlaySeq' = IF opens THEN id ELSE overlaySeq
      /\ liveOverlays' = live
      /\ stack' = claimed
      /\ IF closing # {} \/ resumed THEN Unwind(claimed, live, under, inFlight)
         ELSE unwinding' = under /\ pops' = inFlight

-----------------------------------------------------------------------------
(* A tap, or something that finished: overlays close, one opens, the router   *)
(* goes to another page, before the commit.                                   *)

Navigated(nav) ==
  CASE nav = "push" -> Append(stack, NoOverlay)
    [] nav = "replace" -> ReplaceAt(stack, Len(stack), NoOverlay)
    [] OTHER -> stack

RacesOfTap(closing, opens, nav) ==
  LET kept == liveOverlays \ closing
      early == pops > 0 /\ (opens \/ nav # "stay")
      three == opens /\ Cardinality(kept) > 1
      strand == nav # "stay" /\ (Last(Front(Navigated(nav))) # NoOverlay \/ Last(stack) \in kept)
  IN  (IF early THEN {"early"} ELSE {}) \cup (IF three THEN {"three"} ELSE {})
        \cup (IF strand THEN {"strand"} ELSE {})

Tap(closing, opens, nav) ==
  /\ closing # {} \/ opens \/ nav # "stay"
  /\ nav # "stay" => pages < MaxPages
  /\ pages' = pages + (IF nav # "stay" THEN 1 ELSE 0)
  /\ Commit(closing, opens, Navigated(nav), unwinding, pops, FALSE)
  /\ races' = races \cup RacesOfTap(closing, opens, nav)
  /\ UNCHANGED <<presses, dismissed, pagesBack, late>>

-----------------------------------------------------------------------------
(* The browser. *)

Back ==
  /\ presses < MaxPresses
  /\ presses' = presses + 1 /\ pops' = pops + 1
  /\ UNCHANGED <<stack, liveOverlays, overlaySeq, unwinding, dismissed, pagesBack, pages, late, races>>

\* The overlays whose onPop lands on an entry that is not their own.
LandedElsewhere(top) == liveOverlays \ {top}

\* Mutated: an unwind pops one entry.
ResumesNever == FALSE

\* The unwind goes on from the pop it waits for.
Resumes == unwinding

\* popstate: every overlay is told, and the unwind goes on.  An overlay that was
\* told may ask a question instead, which opens as it closes (FileViewer); that
\* one does so on a plain back press is a bound.
PopArrives(asks) ==
  LET st == Front(stack)
      closing == LandedElsewhere(Last(st))
  IN  /\ pops > 0 /\ Len(stack) > 1
      /\ asks => ~unwinding /\ closing # {}
      /\ Commit(closing, asks, st, FALSE, pops - 1, Resumes)
      /\ dismissed' = dismissed + Cardinality(closing)
      /\ pagesBack' = pagesBack + (IF Last(stack) = NoOverlay THEN 1 ELSE 0)
      /\ UNCHANGED <<presses, pages, late, races>>

\* The second is over before the pop comes.
EscapeFires ==
  /\ unwinding /\ late < MaxLate
  /\ unwinding' = FALSE
  /\ late' = late + 1 /\ races' = races \cup {"late"}
  /\ UNCHANGED <<stack, liveOverlays, overlaySeq, pops, presses, dismissed, pagesBack, pages>>

-----------------------------------------------------------------------------
OverlayNext ==
  \/ \E closing \in SUBSET liveOverlays, opens \in BOOLEAN, nav \in {"stay", "push", "replace"} :
       Tap(closing, opens, nav)
  \/ Back
  \/ \E asks \in BOOLEAN : PopArrives(asks)
  \/ EscapeFires

OverlaySpec == OverlayInit /\ [][OverlayNext]_overlayVars

-----------------------------------------------------------------------------
(* Properties. *)

AtRest == pops = 0 /\ ~unwinding
Clear(w) == races \cap w = {}

\* One entry each, and in the order they were opened.
HaveEntries(live) ==
  /\ live \subseteq ToSet(stack)
  /\ \A i, j \in DOMAIN stack : i < j /\ {stack[i], stack[j]} \subseteq live => stack[i] < stack[j]

\* Once the pops have come, every open overlay has its entry, in their order, and
\* the one on top is no overlay's that is gone; when none is open none is left
\* ("so it can't pile up"), however overlays were closed, handed over or nested.
EntriesMatch ==
  AtRest /\ Clear({"strand", "late"}) =>
    /\ HaveEntries(liveOverlays)
    /\ ~Abandoned(Last(stack), liveOverlays)
    /\ liveOverlays = {} => ToSet(stack) = {NoOverlay}

\* "Back means close the thing on screen": a press closes one overlay or goes
\* back one page, never both and never nothing ("swallows the next back press"),
\* and none is closed that nobody pressed for.
EveryPressCounts ==
  Clear(Races) =>
    /\ dismissed + pagesBack <= presses
    /\ AtRest => dismissed + pagesBack = presses

=============================================================================
