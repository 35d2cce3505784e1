---------------------------- MODULE SessionStore ----------------------------
(***************************************************************************)
(* The conversation the phone has on screen (web/src/store/session.ts,     *)
(* sessionModel.ts, serverRequests.ts), as operators on one record.        *)
(*                                                                         *)
(* A handle is <<conversation, run>>: the gateway names a runtime, and one *)
(* rebuilt for the same conversation has another name.  A row of the       *)
(* transcript is <<kind, prompt>>: the "user" bubble made here, one that   *)
(* "failed", the user's half as history "said" it, the "tool" card and the *)
(* "reply" of the prompt's turn, or a "note", which only this phone has.   *)
(* A turn has at most one tool call and one approval, so the prompt names  *)
(* those too.  Of an event only its type, handle and prompt are kept; the  *)
(* deltas are left out, and with them the text streamed so far.            *)
(*                                                                         *)
(* `asked' is the calls the gateway has not answered; `crossed' records    *)
(* the races the code does not guard against, for the properties.          *)
(***************************************************************************)
EXTENDS Naturals, Sequences, FiniteSets, SequencesExt

CONSTANTS Conv, Prompt, None

Kinds == {"user", "failed", "said", "tool", "reply", "note"}
RowType == Kinds \X (Prompt \cup {None})
UserKinds == {"user", "failed", "said"}

Closed == [open |-> FALSE, first |-> None]

\* The store as the page loads, with what serverRequests.ts and the client keep.
Loaded ==
  [here |-> None, h |-> None, rows |-> <<>>, running |-> FALSE, sheet |-> None,
   queued |-> None, inflight |-> None, rewinding |-> FALSE,
   up |-> FALSE, asked |-> {}, held |-> {}, floor |-> Closed, crossed |-> {}]

Cross(s, race) == [s EXCEPT !.crossed = @ \cup {race}]

\* Mutated: the outgoing conversation's queued message is kept.
ResetButQueue(s) ==
  [s EXCEPT !.here = None, !.h = None, !.rows = <<>>, !.running = FALSE, !.sheet = None,
            !.inflight = None, !.rewinding = FALSE]

\* reset()
Reset(s) ==
  [s EXCEPT !.here = None, !.h = None, !.rows = <<>>, !.running = FALSE, !.sheet = None,
            !.queued = None, !.inflight = None, !.rewinding = FALSE]

\* adoptSession()
AdoptSession(s, h) == [s EXCEPT !.h = h, !.here = h[1]]

\* hermes.call() with the socket open
Call(s, call) == [s EXCEPT !.asked = @ \cup {call}]

-----------------------------------------------------------------------------
(* Sending *)

Became(rows, old, new) == [i \in DOMAIN rows |-> IF rows[i] = old THEN new ELSE rows[i]]

\* rewind()'s finally
Rewound(s, call) == [s EXCEPT !.rewinding = (@ /\ ~call.rewound)]

\* The catch of submitPrompt(), whatever is on screen by then.
SubmitFailed(s, call) ==
  Rewound([Cross(s, "submit") EXCEPT !.running = FALSE,
                                     !.rows = Became(@, <<"user", call.p>>, <<"failed", call.p>>)], call)

SubmitPrompt(s, p, rewound) ==
  LET call == [k |-> "submit", h |-> s.h, p |-> p, rewound |-> rewound]
      shown == [s EXCEPT !.rows = Append(@, <<"user", p>>), !.running = TRUE, !.inflight = None]
  IN  IF s.h = None THEN Rewound(s, call)
      ELSE IF s.running THEN Rewound([s EXCEPT !.queued = p], call)
      ELSE IF s.up THEN Call(shown, call)
      ELSE SubmitFailed(shown, call)

\* The user's "Send now" on a message that was held.
SendNow(s) == SubmitPrompt([s EXCEPT !.queued = None], s.queued, FALSE)

\* resendFailed()
ResendFailed(s, i) == SubmitPrompt([s EXCEPT !.rows = RemoveAt(@, i)], s.rows[i][2], FALSE)

\* rewind() up to its await: the transcript it will cut is the one of now.
Rewind(s, i, p) ==
  LET call == [k |-> "undo", h |-> s.h, p |-> p, rows |-> s.rows, cut |-> i - 1,
               turns |-> Cardinality({j \in i..Len(s.rows) : s.rows[j][1] \in UserKinds})]
  IN  IF s.up THEN Call([s EXCEPT !.rewinding = TRUE], call) ELSE s

Undone(s, call) ==
  LET read == IF \E other \in s.asked : other.k = "history" THEN Cross(s, "ended") ELSE s
      late == IF call.h = s.h /\ call.rows = s.rows THEN read ELSE Cross(read, "rewind")
  IN  SubmitPrompt([late EXCEPT !.rows = SubSeq(call.rows, 1, call.cut)], call.p, TRUE)

UndoFailed(s) == [Cross(s, "rewind") EXCEPT !.rewinding = FALSE]

-----------------------------------------------------------------------------
(* The prompts that block a turn *)

\* applyServerRequest(): held whatever is on screen, shown if it is its own.
ApplyServerRequest(s, h, p) ==
  LET known == [s EXCEPT !.held = @ \cup {p}]
  IN  IF s.h # h THEN known ELSE [known EXCEPT !.sheet = [p |-> p, srq |-> TRUE]]

\* cancelServerRequest(), by an id that no other runtime's request has
CancelServerRequest(s, h, p) ==
  [s EXCEPT !.held = @ \ {p}, !.sheet = IF s.h = h /\ @ = [p |-> p, srq |-> TRUE] THEN None ELSE @]

\* Mutated: the sheet stays away.
RespondForgotten(s, call) == IF call.h = s.h THEN s ELSE Cross(s, "sheet")

RespondFailed(s, call) ==
  LET alone == \A other \in s.asked : other.k # "respond"
      late == IF call.h = s.h /\ s.running /\ alone THEN s ELSE Cross(s, "sheet")
  IN  [late EXCEPT !.sheet = IF @ = None THEN call.sheet ELSE @]

\* respondApproval(): a response frame if the request came over this socket,
\* a call otherwise.
Respond(s) ==
  LET call == [k |-> "respond", h |-> s.h, sheet |-> s.sheet]
      cleared == [s EXCEPT !.sheet = None, !.held = IF s.sheet.srq THEN @ \ {s.sheet.p} ELSE @]
  IN  IF s.sheet.srq /\ s.sheet.p \in s.held THEN Call(cleared, [call EXCEPT !.k = "response"])
      ELSE IF s.up THEN Call(cleared, call)
      ELSE RespondFailed(cleared, call)

\* A request that came as one and had ended leaves a notice.
Responded(s, call, ended) ==
  IF ended /\ call.sheet.srq THEN [s EXCEPT !.rows = Append(@, <<"note", None>>)] ELSE s

-----------------------------------------------------------------------------
(* What the gateway says of a conversation *)

\* The client delivers the open requests of an answer before the answer.
DeliverOpenRequests(s, res) == IF res.ask = None THEN s ELSE ApplyServerRequest(s, res.h, res.ask)

\* Mutated: a turn that is found running is noted, one that is over is not.
ApplyLiveStateOnce(s, res) ==
  [s EXCEPT !.running = (@ \/ res.p # None), !.inflight = res.p, !.crossed = @ \ {"submit", "outrun", "revived"},
            !.sheet = IF res.ask # None /\ (@ = None \/ ~@.srq)
                      THEN [p |-> res.ask, srq |-> FALSE] ELSE @]

ApplyLiveState(s, res) ==
  [s EXCEPT !.running = (res.p # None), !.inflight = res.p, !.crossed = @ \ {"submit", "outrun", "revived"},
            !.sheet = IF res.ask # None /\ (@ = None \/ ~@.srq)
                      THEN [p |-> res.ask, srq |-> FALSE] ELSE @]

LoadHistory(s, rows, resync) ==
  LET there == \E i \in DOMAIN rows : rows[i] = <<"said", s.inflight>>
      grafted == s.running /\ s.inflight # None /\ ~there
  IN  [s EXCEPT !.rows = IF grafted THEN Append(rows, <<"said", s.inflight>>) ELSE rows,
                !.queued = IF resync THEN @ ELSE None]

\* Mutated: as much history as there is on screen counts as nothing new.
ApplyResyncIfLonger(s, rows, running) ==
  IF Len(rows) <= Len(s.rows) THEN s
  ELSE LET loaded == LoadHistory(s, rows, TRUE)
       IN  IF running THEN loaded ELSE [loaded EXCEPT !.running = FALSE, !.inflight = None]

ApplyResync(s, rows, running) ==
  IF Len(rows) < Len(s.rows) THEN s
  ELSE LET loaded == LoadHistory(s, rows, TRUE)
       IN  IF running THEN loaded ELSE [loaded EXCEPT !.running = FALSE, !.inflight = None]

-----------------------------------------------------------------------------
(* Events *)

\* message.complete, which releases what was typed meanwhile.
Complete(s, f) ==
  LET over == [s EXCEPT !.running = FALSE, !.sheet = None, !.inflight = None,
                        !.rows = Append(@, <<"reply", f.p>>)]
  IN  IF s.queued = None \/ f.stopped THEN over ELSE SendNow(over)

\* applyEvent(), past the check that the event is this conversation's
Fold(s, f) ==
  CASE f.t = "start"    -> [s EXCEPT !.running = TRUE]
    [] f.t = "work"     -> [s EXCEPT !.running = TRUE, !.rows = Append(@, <<"tool", f.p>>)]
    [] f.t = "complete" -> Complete(s, f)
    [] OTHER            -> s

\* Mutated: every event is taken for this conversation's.
ApplyEventOfAny(s, f) ==
  IF s.h = None THEN s
  ELSE Fold([s EXCEPT !.floor.first = IF s.floor.open /\ @ = None THEN f ELSE @], f)

ApplyEvent(s, f) ==
  IF f.h # s.h THEN s
  ELSE Fold([s EXCEPT !.floor.first = IF s.floor.open /\ @ = None THEN f ELSE @], f)

BeginReplayWindow(s) == [s EXCEPT !.floor = [open |-> TRUE, first |-> None]]

\* Mutated: all of them.
UnseenOrNot(s, events) == Len(events)

\* applyReplay(): how many of the frames after the last message.start, which are
\* those before the first one that came live.
Unseen(s, events) ==
  IF ~s.floor.open \/ s.floor.first = None THEN Len(events)
  ELSE LET live == {i \in DOMAIN events : events[i] = s.floor.first}
       IN  IF live = {} THEN 0 ELSE (CHOOSE i \in live : \A j \in live : i <= j) - 1

Replayed(s, events, i) ==
  IF i \in DOMAIN events /\ events[i].h = s.h THEN Fold(s, events[i]) ELSE s

\* A turn has a tool call and an end, so these are the first two of them at most.
ApplyReplay(s, events) ==
  LET unseen == SubSeq(events, 1, Unseen(s, events))
  IN  Replayed(Replayed([s EXCEPT !.floor = Closed], unseen, 1), unseen, 2)

=============================================================================
