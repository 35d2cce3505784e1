----------------------------- MODULE ChatProofs -----------------------------
(***************************************************************************)
(* Whose things the phone shows and the gateway runs, and whether its stop *)
(* button is right, for any number of conversations and prompts, any       *)
(* length of the wire and however often the socket drops, calls are lost   *)
(* or the user changes his mind.                                           *)
(*                                                                         *)
(* The argument is ownership.  A prompt belongs to the conversation it was *)
(* typed in (`typed', which is a history of the model and not in the code),*)
(* and whatever names a prompt, a row, a queued message, a sheet, a call,  *)
(* an answer or an event, names a conversation with it: on the wire and at *)
(* the gateway by its handle, on the screen by `here'.  ChatInv says that  *)
(* the two agree everywhere at once, for each hands to the others what it  *)
(* holds.  What makes it inductive is the part about the screen: an answer *)
(* to a resume or a history is taken by whatever is on screen when it      *)
(* comes, with no check of its own, so the invariant must say that the     *)
(* screen cannot have moved on meanwhile: one boot at a time (Fits and the *)
(* two conjuncts before it), and a reattach whose conversation is still    *)
(* here as long as its effect is alive (Syncs).                            *)
(*                                                                         *)
(* ChatInv says it in two modes.  Strictly (b is TRUE), a prompt names the *)
(* conversation it was typed in; that does not survive the races ChatScreen*)
(* records as "boots" and "rewind" (Clean).  Otherwise it only says that a *)
(* prompt is one and a conversation is one, and survives the second.       *)
(*                                                                         *)
(* The second argument is about the stop button, and needs ChatInv in its  *)
(* weaker mode.  On the wire, a frame that tells whether a conversation    *)
(* runs is true at the gateway unless an event comes after it (Track); the *)
(* gateway keeps it so whatever it does (Serves).  The phone either waits  *)
(* for the answer of its reattach (Awaits), or agrees with the gateway but *)
(* for the events still under way (Settled).  Once things are quiet it     *)
(* waits for nothing and nothing is under way.                             *)
(***************************************************************************)
EXTENDS ChatScreen, SequenceTheorems, WellFoundedInduction, TLAPS

-----------------------------------------------------------------------------
(* What is at home in a conversation.  t is `typed'.                        *)

Handles == Conv \X Nat
Known(t) == Conv \cap t.born
Own(t, c) == IF t.strict THEN {p \in Prompt : c \in Conv /\ t.typed[p] = c} ELSE Prompt
TurnRow(t, c) == (Kinds \ {"note"}) \X Own(t, c)
OwnRow(t, c) == TurnRow(t, c) \cup {<<"note", None>>}
OwnEvent(t) ==
  {f \in [t : {"work", "complete"}, h : Handles, p : Prompt, stopped : BOOLEAN] : f.p \in Own(t, f.h[1])}

Later(t, u) ==
  /\ t.strict <=> u.strict
  /\ Known(t) \subseteq Known(u) /\ \A c : Own(t, c) \subseteq Own(u, c)

\* The races that are left out.
Clean(x, t) == x.crossed \cap (IF t.strict THEN {"boots", "rewind"} ELSE {"boots"}) = {}
SheetClean(x, t) == x.crossed \cap (IF t.strict THEN {"boots", "rewind", "sheet"} ELSE {"boots"}) = {}

Shape(x) == DOMAIN x = {"here", "h", "rows", "running", "sheet", "queued", "inflight", "rewinding",
                        "up", "asked", "held", "floor", "crossed"}

\* A call asks for what belongs to the conversation it names.
CallOwn(t, call) ==
  /\ call.k \in {"submit", "undo", "respond", "response", "stop", "resume", "history", "since", "create"}
  /\ call.k \in {"submit", "undo", "respond", "response", "stop", "history", "since"} => call.h \in Handles
  /\ call.k \in {"submit", "undo"} => call.p \in Own(t, call.h[1])
  /\ call.k = "undo" => call.rows \in Seq(OwnRow(t, call.h[1])) /\ call.cut \in 0..Len(call.rows)
  /\ call.k = "resume" => call.c \in Known(t)
  /\ call.k \in {"resume", "history"} => call.by \in {"boot", "sync"}
SheetOwn(t, call) == call.k = "respond" => call.sheet \in [p : Own(t, call.h[1]), srq : BOOLEAN]

\* What is on screen belongs to the conversation that is.
Sound(x, t) ==
  /\ x.h \in Handles \cup {None}
  /\ x.here = IF x.h = None THEN None ELSE x.h[1]
  /\ x.h # None => x.here \in Known(t)
  /\ x.running \in BOOLEAN /\ (x.running => x.h # None)
  /\ x.rows \in Seq(OwnRow(t, x.here))
  /\ x.queued \in Own(t, x.here) \cup {None}
  /\ x.inflight \in Own(t, x.here) \cup {None}
  /\ \A call \in x.asked : CallOwn(t, call)
  /\ x.h = None /\ "sheet" \notin x.crossed => x.sheet = None
  /\ SheetClean(x, t) => /\ x.sheet \in [p : Own(t, x.here), srq : BOOLEAN] \cup {None}
                      /\ \A call \in x.asked : SheetOwn(t, call)

\* The calls whose answers the screen takes as they come.
Opens(call) == call.k = "create" \/ (call.k \in {"resume", "history"} /\ call.by = "boot")
Syncs(call) == call.k \in {"resume", "history"} /\ call.by = "sync"

Fits(p, call) ==
  /\ Opens(call) => /\ call.m \in p.screen.booting
                    /\ IF call.k = "history" THEN p.s.here = call.h[1] ELSE p.s.h = None
  /\ Syncs(call) => /\ call.m \in Nat /\ call.m <= p.screen.visit
                    /\ p.screen.watching /\ call.m = p.screen.visit
                         => p.s.here = IF call.k = "resume" THEN call.c ELSE call.h[1]

\* A boot trails in its own visit, which nobody watches until it is over.
TrailsFit(v) == \A b \in v.trailing : b.m \in Nat /\ b.m <= v.visit /\ (v.watching => b.m # v.visit)

SoundPhone(p, t) ==
  /\ Sound(p.s, t)
  /\ p.screen.visit \in Nat /\ p.screen.intent \in Known(t) \cup {None}
  /\ \A m \in p.screen.booting : m \in Nat /\ m <= p.screen.visit
  /\ p.screen.watching => p.screen.visit \notin p.screen.booting
  /\ TrailsFit(p.screen)
  /\ \A m, n \in p.screen.booting : m = n
  /\ \A a, b \in p.s.asked : Opens(a) /\ Opens(b) => a = b
  /\ \A call \in p.s.asked : Fits(p, call)

\* An answer is about the conversation that was asked about.
AnswerOwn(t, call, res) ==
  /\ call.k = "resume" => /\ res.h \in Handles /\ res.h[1] = call.c
                          /\ res.p \in Own(t, call.c) \cup {None} /\ res.ask \in Own(t, call.c) \cup {None}
  /\ call.k = "history" => res \in Seq(OwnRow(t, call.h[1]))
  /\ call.k = "since" => /\ res.h \in Handles /\ res.ask \in Own(t, res.h[1]) \cup {None}
                         /\ res.events \in Seq(OwnEvent(t))
  /\ call.k = "create" => res \in Handles /\ res[1] \in Known(t)

FrameOwn(t, f) ==
  /\ f.t \in {"answer", "start", "work", "complete", "ask", "cancel"}
  /\ f.t = "answer" /\ f.ok => AnswerOwn(t, f.call, f.res)
  /\ f.t # "answer" => f.h \in Handles /\ f.p \in Own(t, f.h[1])

Conversation(t, c) ==
  [born : BOOLEAN, up : BOOLEAN, run : Nat, on : BOOLEAN, hist : Seq(TurnRow(t, c)), ring : Seq(OwnEvent(t)),
   turn : [p : Own(t, c), worked : BOOLEAN, ask : {"no", "open", "over"}] \cup {None}]

PhoneShape(p) ==
  /\ DOMAIN p = {"s", "screen"} /\ Shape(p.s)
  /\ DOMAIN p.screen = {"shown", "visit", "booting", "trailing", "watching", "intent"}

PhoneOK(p, t) == PhoneShape(p) /\ (Clean(p.s, t) => SoundPhone(p, t))

\* What the variables say: whose each prompt is, or (b is FALSE) only that it is
\* one, and which conversations there are.
Now(b) == [strict |-> b, typed |-> typed, born |-> {c \in Conv : gw[c].born}]
Then(b) == [strict |-> b, typed |-> typed', born |-> {c \in Conv : gw'[c].born}]

Shaped == Shape(s) /\ DOMAIN screen = {"shown", "visit", "booting", "trailing", "watching", "intent"}
TypedOK(d) == d \in [Prompt -> Conv \cup {None}]
InboxOK(calls, t) == \A call \in calls : CallOwn(t, Of(call))
WireOK(w, t) == w \in Seq(Range(w)) /\ \A f \in Range(w) : FrameOwn(t, f)
GatewayOK(g, t) == DOMAIN g = Conv /\ \A c \in Conv : g[c] \in Conversation(t, c)

World(b) == TypedOK(typed) /\ InboxOK(inbox, Now(b)) /\ WireOK(wire, Now(b)) /\ GatewayOK(gw, Now(b))
Has(b) == Shaped /\ (Clean(s, Now(b)) => SoundPhone(Phone, Now(b)) /\ World(b))

\* The same after a step.
NextWorld(b) ==
  TypedOK(typed') /\ InboxOK(inbox', Then(b)) /\ WireOK(wire', Then(b)) /\ GatewayOK(gw', Then(b))
Gets(b) == PhoneOK(Phone', Then(b)) /\ (Clean(s', Then(b)) => NextWorld(b))

ChatInv == \A b \in BOOLEAN : Has(b)

-----------------------------------------------------------------------------
(* The store.  A step of it stays in its conversation, and asks for plain  *)
(* things only.                                                            *)

Plain == {"submit", "undo", "respond", "response", "stop"}

StoreOK(x, t) == Shape(x) /\ (Clean(x, t) => Sound(x, t))

Within(x, y) ==
  /\ Shape(y) /\ x.crossed \cap {"boots", "rewind", "sheet", "back"} \subseteq y.crossed
  /\ y.here = x.here /\ y.h = x.h
  /\ \A call \in y.asked : call \in x.asked \/ call.k \in Plain

LEMMA CrossWithin ==
  ASSUME NEW x, NEW t, StoreOK(x, t), NEW race
  PROVE  StoreOK(Cross(x, race), t) /\ Within(x, Cross(x, race))
BY DEF StoreOK, Within, Shape, Clean, Sound, SheetClean, Cross

LEMMA RewoundWithin ==
  ASSUME NEW x, NEW t, StoreOK(x, t), NEW call
  PROVE  StoreOK(Rewound(x, call), t) /\ Within(x, Rewound(x, call))
BY DEF StoreOK, Within, Shape, Clean, Sound, SheetClean, Rewound

LEMMA CallWithin ==
  ASSUME NEW x, NEW t, StoreOK(x, t), NEW call, call.k \in Plain,
         Clean(x, t) => CallOwn(t, call), SheetClean(x, t) => SheetOwn(t, call)
  PROVE  StoreOK(Call(x, call), t) /\ Within(x, Call(x, call))
BY DEF StoreOK, Within, Shape, Clean, Sound, SheetClean, Call

LEMMA RowsBecome ==
  ASSUME NEW S, NEW rows \in Seq(S), NEW old, NEW new \in S
  PROVE  Became(rows, old, new) \in Seq(S)
<1>1. DOMAIN rows = 1..Len(rows) /\ Len(rows) \in Nat /\ \A i \in DOMAIN rows : rows[i] \in S
  OBVIOUS
<1>2. Became(rows, old, new) \in [1..Len(rows) -> S]
  BY <1>1 DEF Became
<1>3. QED
  BY <1>1, <1>2, SeqDef

LEMMA FailedAgain ==
  ASSUME NEW t, NEW c, NEW rows \in Seq(OwnRow(t, c)), NEW p
  PROVE  Became(rows, <<"user", p>>, <<"failed", p>>) \in Seq(OwnRow(t, c))
<1> DEFINE new == Became(rows, <<"user", p>>, <<"failed", p>>)
<1>1. CASE p \in Own(t, c)
  <2>1. <<"failed", p>> \in OwnRow(t, c)
    BY <1>1 DEF OwnRow, TurnRow, Kinds
  <2>2. QED
    BY <2>1, RowsBecome
<1>2. CASE p \notin Own(t, c)
  <2>1. \A i \in DOMAIN rows : rows[i] # <<"user", p>>
    BY <1>2 DEF OwnRow, TurnRow, Kinds
  <2>2. new = [i \in DOMAIN rows |-> rows[i]]
    BY <2>1 DEF Became
  <2>3. QED
    BY <2>2
<1>3. QED
  BY <1>1, <1>2

LEMMA CutRows ==
  ASSUME NEW S, NEW rows \in Seq(S), NEW n \in 0..Len(rows)
  PROVE  SubSeq(rows, 1, n) \in Seq(S)
BY SubSeqProperties

LEMMA LessRows ==
  ASSUME NEW S, NEW rows \in Seq(S), NEW i \in DOMAIN rows
  PROVE  RemoveAt(rows, i) \in Seq(S)
<1>1. SubSeq(rows, 1, i - 1) \in Seq(S) /\ SubSeq(rows, i + 1, Len(rows)) \in Seq(S)
  <2>1. i \in 1..Len(rows) /\ i - 1 \in Int /\ i + 1 \in Int /\ Len(rows) \in Int
    OBVIOUS
  <2>2. (\A j \in 1..(i - 1) : rows[j] \in S) /\ (\A j \in (i + 1)..Len(rows) : rows[j] \in S)
    BY <2>1
  <2>3. QED
    BY <2>1, <2>2, SubSeqProperties
<1>2. QED
  BY <1>1 DEF RemoveAt

LEMMA SubmitFailedWithin ==
  ASSUME NEW x, NEW t, StoreOK(x, t), NEW call
  PROVE  StoreOK(SubmitFailed(x, call), t) /\ Within(x, SubmitFailed(x, call))
<1> DEFINE y == SubmitFailed(x, call)
           rows == Became(x.rows, <<"user", call.p>>, <<"failed", call.p>>)
<1>1. Clean(x, t) => rows \in Seq(OwnRow(t, x.here))
  BY FailedAgain DEF StoreOK, Sound
<1>2. /\ Shape(y) /\ y.rows = rows
      /\ y.here = x.here /\ y.h = x.h /\ y.queued = x.queued /\ y.inflight = x.inflight /\ y.asked = x.asked
      /\ y.sheet = x.sheet /\ y.running = FALSE /\ y.crossed = x.crossed \cup {"submit"}
  BY DEF StoreOK, Shape, SubmitFailed, Rewound, Cross
<1> HIDE DEF y, rows
<1>3. StoreOK(y, t) /\ Within(x, y)
  BY <1>1, <1>2 DEF StoreOK, Within, Clean, SheetClean, Sound
<1>4. QED
  BY <1>3 DEF y

\* A prompt is sent where it is at home, if a conversation is open.
LEMMA SubmitWithin ==
  ASSUME NEW x, NEW t, StoreOK(x, t), NEW p, NEW rewound, Clean(x, t) /\ x.h # None => p \in Own(t, x.here)
  PROVE  StoreOK(SubmitPrompt(x, p, rewound), t) /\ Within(x, SubmitPrompt(x, p, rewound))
<1> DEFINE call == [k |-> "submit", h |-> x.h, p |-> p, rewound |-> rewound]
           shown == [x EXCEPT !.rows = Append(@, <<"user", p>>), !.running = TRUE, !.inflight = None]
           held == [x EXCEPT !.queued = p]
<1>1. CASE x.h = None
  <2>1. SubmitPrompt(x, p, rewound) = Rewound(x, call)
    BY <1>1 DEF SubmitPrompt
  <2>2. QED
    BY <2>1, RewoundWithin
<1>2. CASE x.h # None /\ x.running
  <2>1. StoreOK(held, t) /\ Within(x, held)
    BY <1>2 DEF StoreOK, Within, Shape, Clean, Sound, SheetClean
  <2>2. SubmitPrompt(x, p, rewound) = Rewound(held, call)
    BY <1>2 DEF SubmitPrompt
  <2> HIDE DEF held, call
  <2>3. StoreOK(Rewound(held, call), t) /\ Within(held, Rewound(held, call))
    BY <2>1, RewoundWithin
  <2>4. QED
    BY <2>1, <2>2, <2>3 DEF Within
<1>3. CASE x.h # None /\ ~x.running
  <2>1. Clean(x, t) => Append(x.rows, <<"user", p>>) \in Seq(OwnRow(t, x.here))
    <3>1. Clean(x, t) => <<"user", p>> \in OwnRow(t, x.here) /\ x.rows \in Seq(OwnRow(t, x.here))
      BY <1>3 DEF OwnRow, TurnRow, Kinds, StoreOK, Sound
    <3>2. QED
      BY <3>1
  <2>2. StoreOK(shown, t) /\ Within(x, shown)
    BY <1>3, <2>1 DEF StoreOK, Within, Shape, Clean, Sound, SheetClean
  <2>3. Clean(x, t) => CallOwn(t, call)
    BY <1>3 DEF CallOwn, StoreOK, Sound
  <2>4. call.k = "submit" /\ SheetOwn(t, call)
    BY DEF SheetOwn
  <2>5. SubmitPrompt(x, p, rewound) = IF x.up THEN Call(shown, call) ELSE SubmitFailed(shown, call)
    BY <1>3 DEF SubmitPrompt
  <2>6. Clean(shown, t) => Clean(x, t)
    BY <2>2 DEF Within, Clean
  <2> HIDE DEF shown, call
  <2>7. StoreOK(Call(shown, call), t) /\ Within(shown, Call(shown, call))
    BY <2>2, <2>3, <2>4, <2>6, CallWithin DEF Plain
  <2>8. StoreOK(SubmitFailed(shown, call), t) /\ Within(shown, SubmitFailed(shown, call))
    BY <2>2, SubmitFailedWithin
  <2>9. QED
    BY <2>2, <2>5, <2>7, <2>8 DEF Within
<1>4. QED
  BY <1>1, <1>2, <1>3

LEMMA WithinTwice ==
  ASSUME NEW x, NEW y, NEW z, Within(x, y), Within(y, z)
  PROVE  Within(x, z)
BY DEF Within

\* What is still clean was clean.
LEMMA WithinClean ==
  ASSUME NEW x, NEW y, NEW t, Within(x, y)
  PROVE  (Clean(y, t) => Clean(x, t)) /\ (SheetClean(y, t) => SheetClean(x, t)) /\ (SheetClean(x, t) => Clean(x, t))
BY DEF Within, Clean, SheetClean

\* A prompt in the queue, a row that failed.
LEMMA SendNowWithin ==
  ASSUME NEW x, NEW t, StoreOK(x, t), x.queued # None
  PROVE  StoreOK(SendNow(x), t) /\ Within(x, SendNow(x))
<1> DEFINE y == [x EXCEPT !.queued = None]
<1>1. StoreOK(y, t) /\ Within(x, y)
  BY DEF StoreOK, Within, Shape, Clean, Sound, SheetClean
<1>2. Clean(x, t) => x.queued \in Own(t, x.here)
  BY DEF StoreOK, Sound
<1>3. SendNow(x) = SubmitPrompt(y, x.queued, FALSE)
  BY DEF SendNow
<1> HIDE DEF y
<1>4. Clean(y, t) => x.queued \in Own(t, y.here)
  BY <1>1, <1>2, WithinClean DEF Within
<1>5. QED
  BY <1>1, <1>3, <1>4, SubmitWithin, WithinTwice

LEMMA ResendFailedWithin ==
  ASSUME NEW x, NEW t, StoreOK(x, t), NEW i \in DOMAIN x.rows, x.rows[i][1] = "failed"
  PROVE  StoreOK(ResendFailed(x, i), t) /\ Within(x, ResendFailed(x, i))
<1> DEFINE y == [x EXCEPT !.rows = RemoveAt(@, i)]
<1>1. Clean(x, t) => RemoveAt(x.rows, i) \in Seq(OwnRow(t, x.here))
  BY LessRows DEF StoreOK, Sound
<1>2. StoreOK(y, t) /\ Within(x, y)
  BY <1>1 DEF StoreOK, Within, Shape, Clean, Sound, SheetClean
<1>3. Clean(x, t) => x.rows[i][2] \in Own(t, x.here)
  <2>1. Clean(x, t) => x.rows[i] \in OwnRow(t, x.here)
    BY DEF StoreOK, Sound
  <2>2. QED
    BY <2>1 DEF OwnRow, TurnRow
<1>4. ResendFailed(x, i) = SubmitPrompt(y, x.rows[i][2], FALSE)
  BY DEF ResendFailed
<1> HIDE DEF y
<1>5. Clean(y, t) => x.rows[i][2] \in Own(t, y.here)
  BY <1>2, <1>3, WithinClean DEF Within
<1>6. QED
  BY <1>2, <1>4, <1>5, SubmitWithin, WithinTwice

LEMMA RewindWithin ==
  ASSUME NEW x, NEW t, StoreOK(x, t), NEW i \in DOMAIN x.rows, NEW p, x.h # None,
         Clean(x, t) => p \in Own(t, x.here)
  PROVE  StoreOK(Rewind(x, i, p), t) /\ Within(x, Rewind(x, i, p))
<1> DEFINE turns == Cardinality({j \in i..Len(x.rows) : x.rows[j][1] \in UserKinds})
           call == [k |-> "undo", h |-> x.h, p |-> p, rows |-> x.rows, cut |-> i - 1, turns |-> turns]
           y == [x EXCEPT !.rewinding = TRUE]
<1>1. StoreOK(y, t) /\ Within(x, y)
  BY DEF StoreOK, Within, Shape, Clean, Sound, SheetClean
<1>2. Clean(x, t) => CallOwn(t, call)
  <2>1. Clean(x, t) => i - 1 \in 0..Len(x.rows)
    BY DEF StoreOK, Sound
  <2>2. QED
    BY <2>1 DEF CallOwn, StoreOK, Sound
<1>3. call.k = "undo" /\ SheetOwn(t, call)
  BY DEF SheetOwn
<1>4. Rewind(x, i, p) = IF x.up THEN Call(y, call) ELSE x
  BY DEF Rewind
<1>5. StoreOK(x, t) /\ Within(x, x)
  BY DEF StoreOK, Within
<1> HIDE DEF y, call
<1>6. StoreOK(Call(y, call), t) /\ Within(y, Call(y, call))
  BY <1>1, <1>2, <1>3, WithinClean, CallWithin DEF Plain
<1>7. QED
  BY <1>1, <1>4, <1>5, <1>6, WithinTwice

\* Prompts that are not told apart are at home everywhere.
LEMMA OwnAnywhere ==
  ASSUME NEW t, ~t.strict, NEW c, NEW d
  PROVE  Own(t, c) = Own(t, d) /\ OwnRow(t, c) = OwnRow(t, d)
BY DEF Own, OwnRow, TurnRow

\* The transcript is cut and the prompt sent only where both belong.
LEMMA UndoneWithin ==
  ASSUME NEW x, NEW t, StoreOK(x, t), NEW call, call.k = "undo", Clean(x, t) => CallOwn(t, call)
  PROVE  StoreOK(Undone(x, call), t) /\ Within(x, Undone(x, call))
<1> DEFINE read == IF \E other \in x.asked : other.k = "history" THEN Cross(x, "ended") ELSE x
           late == IF call.h = x.h /\ call.rows = x.rows THEN read ELSE Cross(read, "rewind")
           y == [late EXCEPT !.rows = SubSeq(call.rows, 1, call.cut)]
<1>1. /\ StoreOK(late, t) /\ Within(x, late)
      /\ Clean(late, t) => Clean(x, t) /\ (t.strict => call.h = x.h)
  <2>1. StoreOK(read, t) /\ Within(x, read)
    BY CrossWithin DEF StoreOK, Within
  <2> HIDE DEF read
  <2>2. StoreOK(late, t) /\ Within(read, late)
    BY <2>1, CrossWithin DEF StoreOK, Within
  <2>3. Clean(late, t) /\ t.strict => call.h = x.h
    BY <2>1 DEF Clean, Cross, StoreOK, Shape
  <2>4. QED
    BY <2>1, <2>2, <2>3, WithinTwice, WithinClean
<1>2. Clean(late, t) => Clean(x, t) /\ (t.strict => call.h = x.h)
  BY <1>1
<1>3. Clean(late, t) => /\ SubSeq(call.rows, 1, call.cut) \in Seq(OwnRow(t, x.here))
                        /\ call.p \in Own(t, x.here)
  <2> HIDE DEF late
  <2>1. Clean(late, t) => /\ call.rows \in Seq(OwnRow(t, call.h[1])) /\ call.cut \in 0..Len(call.rows)
                          /\ call.p \in Own(t, call.h[1])
    BY <1>2 DEF CallOwn
  <2>2. Clean(late, t) => SubSeq(call.rows, 1, call.cut) \in Seq(OwnRow(t, call.h[1]))
    BY <2>1, CutRows
  <2>3. CASE t.strict
    <3>1. Clean(late, t) => x.here = call.h[1]
      BY <1>2, <2>3, ChatAssumption DEF CallOwn, Handles, StoreOK, Sound
    <3>2. QED
      BY <2>1, <2>2, <3>1
  <2>4. CASE ~t.strict
    BY <2>1, <2>2, <2>4, OwnAnywhere
  <2>5. QED
    BY <2>3, <2>4
<1>4. Undone(x, call) = SubmitPrompt(y, call.p, TRUE)
  BY DEF Undone
<1> HIDE DEF late
<1>5. StoreOK(y, t) /\ Within(late, y)
  BY <1>1, <1>3 DEF StoreOK, Within, Shape, Clean, Sound, SheetClean
<1> HIDE DEF y
<1>6. Clean(y, t) => call.p \in Own(t, y.here)
  BY <1>1, <1>3, <1>5, WithinClean DEF Within
<1>7. StoreOK(SubmitPrompt(y, call.p, TRUE), t) /\ Within(y, SubmitPrompt(y, call.p, TRUE))
  BY <1>5, <1>6, SubmitWithin
<1>8. QED
  BY <1>1, <1>4, <1>5, <1>7, WithinTwice

LEMMA UndoFailedWithin ==
  ASSUME NEW x, NEW t, StoreOK(x, t)
  PROVE  StoreOK(UndoFailed(x), t) /\ Within(x, UndoFailed(x))
BY DEF StoreOK, Within, Shape, Clean, Sound, SheetClean, Cross, UndoFailed

-----------------------------------------------------------------------------
(* Sheets *)

LEMMA ServerRequestWithin ==
  ASSUME NEW x, NEW t, StoreOK(x, t), NEW h \in Handles, NEW p, Clean(x, t) => p \in Own(t, h[1])
  PROVE  StoreOK(ApplyServerRequest(x, h, p), t) /\ Within(x, ApplyServerRequest(x, h, p))
<1>1. h # None
  BY ChatAssumption DEF Handles
<1>2. QED
  BY <1>1 DEF StoreOK, Within, Shape, Clean, Sound, SheetClean, ApplyServerRequest

LEMMA CancelWithin ==
  ASSUME NEW x, NEW t, StoreOK(x, t), NEW h, NEW p
  PROVE  StoreOK(CancelServerRequest(x, h, p), t) /\ Within(x, CancelServerRequest(x, h, p))
BY DEF StoreOK, Within, Shape, Clean, Sound, SheetClean, CancelServerRequest

\* A sheet is put back where it was.
LEMMA RespondFailedWithin ==
  ASSUME NEW x, NEW t, StoreOK(x, t), NEW call, call.k = "respond",
         Clean(x, t) => CallOwn(t, call), SheetClean(x, t) => SheetOwn(t, call)
  PROVE  StoreOK(RespondFailed(x, call), t) /\ Within(x, RespondFailed(x, call))
<1> DEFINE alone == \A other \in x.asked : other.k # "respond"
           late == IF call.h = x.h /\ x.running /\ alone THEN x ELSE Cross(x, "sheet")
<1>0. "sheet" \notin late.crossed => call.h = x.h
  BY DEF Cross, StoreOK, Shape
<1>1. StoreOK(late, t) /\ Within(x, late)
  BY CrossWithin DEF StoreOK, Within
<1>2. SheetClean(late, t) => SheetClean(x, t) /\ Clean(x, t) /\ (t.strict => call.h = x.h)
  BY <1>1, WithinClean DEF SheetClean, Cross, StoreOK, Shape
<1>3. RespondFailed(x, call) = [late EXCEPT !.sheet = IF @ = None THEN call.sheet ELSE @]
  BY DEF RespondFailed
<1> HIDE DEF late
<1>4. SheetClean(late, t) => call.sheet \in [p : Own(t, x.here), srq : BOOLEAN]
  <2>1. SheetClean(late, t) /\ t.strict => x.h # None
    BY <1>2, ChatAssumption DEF CallOwn, Handles
  <2>2. SheetClean(late, t) /\ t.strict => call.h[1] = x.here
    BY <1>2, <2>1 DEF StoreOK, Sound
  <2>3. Own(t, call.h[1]) \subseteq Own(t, x.here) \/ t.strict
    BY DEF Own
  <2>4. QED
    BY <1>2, <2>2, <2>3 DEF SheetOwn
<1>5. Clean(x, t) /\ "sheet" \notin late.crossed => x.h # None
  BY <1>0, ChatAssumption DEF CallOwn, Handles
<1>6. QED
  BY <1>1, <1>3, <1>4, <1>5 DEF StoreOK, Within, Shape, Clean, Sound, SheetClean

LEMMA RespondWithin ==
  ASSUME NEW x, NEW t, StoreOK(x, t), x.h # None, x.sheet # None
  PROVE  StoreOK(Respond(x), t) /\ Within(x, Respond(x))
<1> DEFINE call == [k |-> "respond", h |-> x.h, sheet |-> x.sheet]
           response == [call EXCEPT !.k = "response"]
           cleared == [x EXCEPT !.sheet = None, !.held = IF x.sheet.srq THEN @ \ {x.sheet.p} ELSE @]
<1>1. StoreOK(cleared, t) /\ Within(x, cleared)
  BY DEF StoreOK, Within, Shape, Clean, Sound, SheetClean
<1>2. /\ call.k = "respond" /\ response.k = "response" /\ SheetOwn(t, response)
      /\ Clean(x, t) => CallOwn(t, call) /\ CallOwn(t, response)
      /\ SheetClean(x, t) => SheetOwn(t, call)
  BY WithinClean DEF CallOwn, SheetOwn, StoreOK, Sound, Clean, SheetClean
<1>3. Respond(x) = IF x.sheet.srq /\ x.sheet.p \in x.held THEN Call(cleared, response)
                   ELSE IF x.up THEN Call(cleared, call) ELSE RespondFailed(cleared, call)
  BY DEF Respond
<1> HIDE DEF call, response, cleared
<1>4. (Clean(cleared, t) => Clean(x, t)) /\ (SheetClean(cleared, t) => SheetClean(x, t))
  BY <1>1, WithinClean
<1>5. StoreOK(Call(cleared, response), t) /\ Within(cleared, Call(cleared, response))
  BY <1>1, <1>2, <1>4, CallWithin DEF Plain
<1>6. StoreOK(Call(cleared, call), t) /\ Within(cleared, Call(cleared, call))
  BY <1>1, <1>2, <1>4, CallWithin DEF Plain
<1>7. StoreOK(RespondFailed(cleared, call), t) /\ Within(cleared, RespondFailed(cleared, call))
  BY <1>1, <1>2, <1>4, RespondFailedWithin
<1>8. QED
  BY <1>1, <1>3, <1>5, <1>6, <1>7, WithinTwice

LEMMA RespondedWithin ==
  ASSUME NEW x, NEW t, StoreOK(x, t), NEW call, NEW ended
  PROVE  StoreOK(Responded(x, call, ended), t) /\ Within(x, Responded(x, call, ended))
<1>1. Clean(x, t) => Append(x.rows, <<"note", None>>) \in Seq(OwnRow(t, x.here))
  <2>1. <<"note", None>> \in OwnRow(t, x.here)
    BY DEF OwnRow, TurnRow
  <2>2. QED
    BY <2>1 DEF StoreOK, Sound
<1>2. QED
  BY <1>1 DEF StoreOK, Within, Shape, Clean, Sound, SheetClean, Responded

-----------------------------------------------------------------------------
(* What the gateway says *)

LEMMA OpenRequestsWithin ==
  ASSUME NEW x, NEW t, StoreOK(x, t), NEW res,
         Clean(x, t) => res.h \in Handles /\ res.ask \in Own(t, res.h[1]) \cup {None}
  PROVE  StoreOK(DeliverOpenRequests(x, res), t) /\ Within(x, DeliverOpenRequests(x, res))
<1>1. CASE res.ask = None
  BY <1>1 DEF DeliverOpenRequests, StoreOK, Within
<1>2. CASE res.ask # None /\ Clean(x, t)
  BY <1>2, ServerRequestWithin DEF DeliverOpenRequests
<1>3. CASE res.ask # None /\ ~Clean(x, t)
  BY <1>3 DEF DeliverOpenRequests, ApplyServerRequest, StoreOK, Within, Shape, Clean
<1>4. QED
  BY <1>1, <1>2, <1>3

LEMMA LiveStateWithin ==
  ASSUME NEW x, NEW t, StoreOK(x, t), NEW res,
         Clean(x, t) => x.h # None /\ res.p \in Own(t, x.here) \cup {None} /\ res.ask \in Own(t, x.here) \cup {None}
  PROVE  StoreOK(ApplyLiveState(x, res), t) /\ Within(x, ApplyLiveState(x, res))
BY DEF StoreOK, Within, Shape, Clean, Sound, SheetClean, ApplyLiveState

LEMMA LoadWithin ==
  ASSUME NEW x, NEW t, StoreOK(x, t), NEW rows, NEW resync, Clean(x, t) => rows \in Seq(OwnRow(t, x.here))
  PROVE  StoreOK(LoadHistory(x, rows, resync), t) /\ Within(x, LoadHistory(x, rows, resync))
<1> DEFINE there == \E i \in DOMAIN rows : rows[i] = <<"said", x.inflight>>
           grafted == x.running /\ x.inflight # None /\ ~there
           loaded == IF grafted THEN Append(rows, <<"said", x.inflight>>) ELSE rows
<1>1. Clean(x, t) => loaded \in Seq(OwnRow(t, x.here))
  <2>1. Clean(x, t) /\ grafted => <<"said", x.inflight>> \in OwnRow(t, x.here)
    BY DEF StoreOK, Sound, OwnRow, TurnRow, Kinds
  <2> HIDE DEF grafted
  <2>2. CASE grafted
    BY <2>1, <2>2
  <2>3. CASE ~grafted
    BY <2>3
  <2>4. QED
    BY <2>2, <2>3
<1>2. LoadHistory(x, rows, resync) = [x EXCEPT !.rows = loaded, !.queued = IF resync THEN @ ELSE None]
  BY DEF LoadHistory
<1> HIDE DEF loaded
<1>3. QED
  BY <1>1, <1>2 DEF StoreOK, Within, Shape, Clean, Sound, SheetClean

LEMMA ResyncWithin ==
  ASSUME NEW x, NEW t, StoreOK(x, t), NEW rows, NEW running, Clean(x, t) => rows \in Seq(OwnRow(t, x.here))
  PROVE  StoreOK(ApplyResync(x, rows, running), t) /\ Within(x, ApplyResync(x, rows, running))
<1> DEFINE y == LoadHistory(x, rows, TRUE)
           z == [y EXCEPT !.running = FALSE, !.inflight = None]
<1>1. StoreOK(y, t) /\ Within(x, y)
  BY LoadWithin
<1>2. ApplyResync(x, rows, running) = IF Len(rows) < Len(x.rows) THEN x ELSE IF running THEN y ELSE z
  BY DEF ApplyResync
<1>3. StoreOK(x, t) /\ Within(x, x)
  BY DEF StoreOK, Within
<1> HIDE DEF y
<1>4. StoreOK(z, t) /\ Within(y, z)
  BY <1>1 DEF StoreOK, Within, Shape, Clean, Sound, SheetClean
<1>5. QED
  BY <1>1, <1>2, <1>3, <1>4, WithinTwice

-----------------------------------------------------------------------------
(* Events *)

LEMMA CompleteWithin ==
  ASSUME NEW x, NEW t, StoreOK(x, t), NEW f, Clean(x, t) => f.p \in Own(t, x.here)
  PROVE  StoreOK(Complete(x, f), t) /\ Within(x, Complete(x, f))
<1> DEFINE over == [x EXCEPT !.running = FALSE, !.sheet = None, !.inflight = None,
                             !.rows = Append(@, <<"reply", f.p>>)]
<1>1. Clean(x, t) => Append(x.rows, <<"reply", f.p>>) \in Seq(OwnRow(t, x.here))
  <2>1. Clean(x, t) => <<"reply", f.p>> \in OwnRow(t, x.here) /\ x.rows \in Seq(OwnRow(t, x.here))
    BY DEF OwnRow, TurnRow, Kinds, StoreOK, Sound
  <2>2. QED
    BY <2>1
<1>2. StoreOK(over, t) /\ Within(x, over)
  BY <1>1 DEF StoreOK, Within, Shape, Clean, Sound, SheetClean
<1>3. over.queued = x.queued
  BY DEF StoreOK, Shape
<1>4. Complete(x, f) = IF x.queued = None \/ f.stopped THEN over ELSE SendNow(over)
  BY DEF Complete
<1> HIDE DEF over
<1>5. x.queued # None => StoreOK(SendNow(over), t) /\ Within(over, SendNow(over))
  BY <1>2, <1>3, SendNowWithin
<1>6. QED
  BY <1>2, <1>4, <1>5, WithinTwice

LEMMA FoldWithin ==
  ASSUME NEW x, NEW t, StoreOK(x, t), NEW f, Clean(x, t) => x.h # None /\ f.p \in Own(t, x.here)
  PROVE  StoreOK(Fold(x, f), t) /\ Within(x, Fold(x, f))
<1>1. CASE f.t = "start"
  <2>1. Fold(x, f) = [x EXCEPT !.running = TRUE]
    BY <1>1 DEF Fold
  <2>2. QED
    BY <2>1 DEF StoreOK, Within, Shape, Clean, Sound, SheetClean
<1>2. CASE f.t = "work"
  <2>1. Fold(x, f) = [x EXCEPT !.running = TRUE, !.rows = Append(@, <<"tool", f.p>>)]
    BY <1>2 DEF Fold
  <2>2. Clean(x, t) => Append(x.rows, <<"tool", f.p>>) \in Seq(OwnRow(t, x.here))
    <3>1. Clean(x, t) => <<"tool", f.p>> \in OwnRow(t, x.here) /\ x.rows \in Seq(OwnRow(t, x.here))
      BY DEF OwnRow, TurnRow, Kinds, StoreOK, Sound
    <3>2. QED
      BY <3>1
  <2>3. QED
    BY <2>1, <2>2 DEF StoreOK, Within, Shape, Clean, Sound, SheetClean
<1>3. CASE f.t = "complete"
  BY <1>3, CompleteWithin DEF Fold
<1>4. CASE f.t \notin {"start", "work", "complete"}
  BY <1>4 DEF Fold, StoreOK, Within
<1>5. QED
  BY <1>1, <1>2, <1>3, <1>4

\* An event is folded in only if it is this conversation's.
LEMMA EventWithin ==
  ASSUME NEW x, NEW t, StoreOK(x, t), NEW f, Clean(x, t) => f.h \in Handles /\ f.p \in Own(t, f.h[1])
  PROVE  StoreOK(ApplyEvent(x, f), t) /\ Within(x, ApplyEvent(x, f))
<1> DEFINE y == [x EXCEPT !.floor.first = IF x.floor.open /\ @ = None THEN f ELSE @]
<1>1. StoreOK(y, t) /\ Within(x, y)
  BY DEF StoreOK, Within, Shape, Clean, Sound, SheetClean
<1>2. ApplyEvent(x, f) = IF f.h # x.h THEN x ELSE Fold(y, f)
  BY DEF ApplyEvent
<1> HIDE DEF y
<1>3. f.h = x.h /\ Clean(y, t) => y.h # None /\ f.p \in Own(t, y.here)
  BY <1>1, WithinClean, ChatAssumption DEF Within, Handles, StoreOK, Sound
<1>4. f.h = x.h => StoreOK(Fold(y, f), t) /\ Within(y, Fold(y, f))
  BY <1>1, <1>3, FoldWithin
<1>5. QED
  BY <1>1, <1>2, <1>4, WithinTwice DEF StoreOK, Within

LEMMA WindowWithin ==
  ASSUME NEW x, NEW t, StoreOK(x, t)
  PROVE  StoreOK(BeginReplayWindow(x), t) /\ Within(x, BeginReplayWindow(x))
BY DEF StoreOK, Within, Shape, Clean, Sound, SheetClean, BeginReplayWindow

LEMMA ReplayedWithin ==
  ASSUME NEW x, NEW t, StoreOK(x, t), NEW events, NEW i,
         Clean(x, t) => \A j \in DOMAIN events : events[j] \in OwnEvent(t)
  PROVE  StoreOK(Replayed(x, events, i), t) /\ Within(x, Replayed(x, events, i))
<1>1. CASE i \in DOMAIN events /\ events[i].h = x.h
  <2>1. Clean(x, t) => x.h # None /\ events[i].p \in Own(t, x.here)
    BY <1>1, ChatAssumption DEF OwnEvent, Handles, StoreOK, Sound
  <2>2. QED
    BY <1>1, <2>1, FoldWithin DEF Replayed
<1>2. CASE ~(i \in DOMAIN events /\ events[i].h = x.h)
  BY <1>2 DEF Replayed, StoreOK, Within
<1>3. QED
  BY <1>1, <1>2

LEMMA UnseenInRange ==
  ASSUME NEW x, NEW S, NEW events \in Seq(S)
  PROVE  Unseen(x, events) \in 0..Len(events)
<1> DEFINE live == {i \in DOMAIN events : events[i] = x.floor.first}
           First(i) == \A j \in live : i <= j
<1>1. CASE live = {} \/ ~x.floor.open \/ x.floor.first = None
  BY <1>1 DEF Unseen
<1>2. CASE live # {} /\ x.floor.open /\ x.floor.first # None
  <2>1. live \subseteq Nat
    OBVIOUS
  <2>2. \E i \in live : First(i)
    <3> HIDE DEF live
    <3>1. PICK m \in live : \A n \in live : ~(<<n, m>> \in OpToRel(<, Nat))
      BY <1>2, <2>1, NatLessThanWellFounded, WFMin
    <3>2. \A n \in live : ~(n < m)
      BY <2>1, <3>1 DEF OpToRel
    <3>3. First(m)
      BY <2>1, <3>2
    <3>4. QED
      BY <3>3
  <2>3. (CHOOSE i \in live : First(i)) \in live
    <3> HIDE DEF live, First
    <3>1. QED
      BY <2>2
  <2>4. QED
    BY <1>2, <2>3 DEF Unseen
<1>3. QED
  BY <1>1, <1>2

LEMMA ReplayWithin ==
  ASSUME NEW x, NEW t, StoreOK(x, t), NEW events, Clean(x, t) => events \in Seq(OwnEvent(t))
  PROVE  StoreOK(ApplyReplay(x, events), t) /\ Within(x, ApplyReplay(x, events))
<1> DEFINE unseen == SubSeq(events, 1, Unseen(x, events))
           y == [x EXCEPT !.floor = Closed]
           z == Replayed(y, unseen, 1)
<1>1. StoreOK(y, t) /\ Within(x, y)
  BY DEF StoreOK, Within, Shape, Clean, Sound, SheetClean
<1>2. Clean(x, t) => \A j \in DOMAIN unseen : unseen[j] \in OwnEvent(t)
  <2>1. Clean(x, t) => unseen \in Seq(OwnEvent(t))
    BY UnseenInRange, CutRows
  <2> HIDE DEF unseen
  <2>2. QED
    BY <2>1
<1>3. ApplyReplay(x, events) = Replayed(z, unseen, 2)
  BY DEF ApplyReplay
<1> HIDE DEF unseen, y
<1>4. StoreOK(z, t) /\ Within(y, z)
  BY <1>1, <1>2, ReplayedWithin, WithinClean
<1> HIDE DEF z
<1>5. StoreOK(Replayed(z, unseen, 2), t) /\ Within(z, Replayed(z, unseen, 2))
  BY <1>1, <1>2, <1>4, ReplayedWithin, WithinClean
<1>6. QED
  BY <1>1, <1>3, <1>4, <1>5, WithinTwice

-----------------------------------------------------------------------------
(* The phone: the store and the screen *)

Onward(p, q) == p.s.crossed \cap {"boots", "rewind", "sheet", "back"} \subseteq q.s.crossed

NoneOpens(p) == \A a \in p.s.asked : ~Opens(a)

\* A call that has just been taken from those the phone waits for, or is about
\* to be one of them.
Pending(p, t, call) ==
  /\ CallOwn(t, call) /\ (SheetClean(p.s, t) => SheetOwn(t, call)) /\ Fits(p, call)
  /\ Opens(call) => NoneOpens(p)

LEMMA OnwardClean ==
  ASSUME NEW p, NEW q, NEW t, Onward(p, q)
  PROVE  (Clean(q.s, t) => Clean(p.s, t)) /\ (SheetClean(q.s, t) => SheetClean(p.s, t))
BY DEF Onward, Clean, SheetClean

\* All that matters of a screen.
SameScreen(v, w) ==
  /\ DOMAIN v = DOMAIN w /\ v.booting = w.booting /\ v.trailing = w.trailing /\ v.visit = w.visit
  /\ v.intent = w.intent
  /\ v.watching <=> w.watching

LEMMA SamePhone ==
  ASSUME NEW q, NEW t, PhoneOK(q, t), NEW r,
         DOMAIN r = {"s", "screen"}, r.s = q.s, SameScreen(r.screen, q.screen)
  PROVE  PhoneOK(r, t)
BY DEF PhoneOK, PhoneShape, SoundPhone, Fits, SameScreen, TrailsFit

LEMMA StoreMoves ==
  ASSUME NEW p, NEW t, PhoneOK(p, t), NEW y, StoreOK(y, t), Within(p.s, y)
  PROVE  /\ PhoneOK([p EXCEPT !.s = y], t) /\ Onward(p, [p EXCEPT !.s = y])
         /\ NoneOpens(p) => NoneOpens([p EXCEPT !.s = y])
<1> DEFINE q == [p EXCEPT !.s = y]
<1>1. q.s = y /\ q.screen = p.screen /\ PhoneShape(q)
  BY DEF PhoneOK, PhoneShape, StoreOK
<1>2. \A call : call.k \in Plain => ~Opens(call) /\ ~Syncs(call)
  BY DEF Plain, Opens, Syncs
<1> HIDE DEF q
<1>3. Clean(q.s, t) => SoundPhone(q, t)
  <2>1. SUFFICES ASSUME Clean(y, t) PROVE SoundPhone(q, t)
    BY <1>1
  <2>2. SoundPhone(p, t) /\ Sound(y, t)
    BY <2>1, WithinClean DEF PhoneOK, StoreOK
  <2>3. y.here = p.s.here /\ y.h = p.s.h /\ \A call \in y.asked : call \in p.s.asked \/ call.k \in Plain
    BY DEF Within
  <2>4. \A call \in y.asked : Fits(q, call)
    BY <1>1, <1>2, <2>2, <2>3 DEF SoundPhone, Fits
  <2>5. QED
    BY <1>1, <1>2, <2>2, <2>3, <2>4 DEF SoundPhone
<1>4. Onward(p, q) /\ (NoneOpens(p) => NoneOpens(q))
  BY <1>1, <1>2 DEF Onward, Within, NoneOpens
<1>5. QED
  BY <1>1, <1>3, <1>4 DEF q, PhoneOK

LEMMA AskOK ==
  ASSUME NEW p, NEW t, PhoneOK(p, t), NEW call, Clean(p.s, t) => Pending(p, t, call)
  PROVE  PhoneOK([p EXCEPT !.s = Call(@, call)], t) /\ Onward(p, [p EXCEPT !.s = Call(@, call)])
<1> DEFINE q == [p EXCEPT !.s = Call(@, call)]
<1>1. /\ q.s = Call(p.s, call) /\ q.screen = p.screen /\ PhoneShape(q)
      /\ q.s.asked = p.s.asked \cup {call} /\ q.s.here = p.s.here /\ q.s.h = p.s.h /\ q.s.crossed = p.s.crossed
  BY DEF PhoneOK, PhoneShape, Shape, Call
<1>2. Clean(p.s, t) => Sound(q.s, t)
  <2>1. Clean(p.s, t) => Sound(p.s, t)
    BY DEF PhoneOK, SoundPhone
  <2>2. QED
    BY <1>1, <2>1 DEF Sound, Call, Pending, PhoneOK, PhoneShape, Shape, SheetClean
<1> HIDE DEF q
<1>3. Clean(q.s, t) => SoundPhone(q, t)
  BY <1>1, <1>2 DEF PhoneOK, SoundPhone, Pending, Fits, NoneOpens, Clean
<1>4. QED
  BY <1>1, <1>3 DEF q, PhoneOK, Onward

LEMMA TakeOK ==
  ASSUME NEW p, NEW t, PhoneOK(p, t), NEW call \in p.s.asked
  PROVE  /\ PhoneOK([p EXCEPT !.s.asked = @ \ {call}], t)
         /\ Onward(p, [p EXCEPT !.s.asked = @ \ {call}])
         /\ Clean(p.s, t) => Pending([p EXCEPT !.s.asked = @ \ {call}], t, call)
<1> DEFINE q == [p EXCEPT !.s.asked = @ \ {call}]
<1>1. /\ q.screen = p.screen /\ PhoneShape(q)
      /\ q.s.asked = p.s.asked \ {call} /\ q.s.here = p.s.here /\ q.s.h = p.s.h /\ q.s.crossed = p.s.crossed
  BY DEF PhoneOK, PhoneShape, Shape
<1>2. Clean(p.s, t) => Sound(q.s, t)
  <2>1. Clean(p.s, t) => Sound(p.s, t)
    BY DEF PhoneOK, SoundPhone
  <2>2. QED
    BY <1>1, <2>1 DEF Sound, PhoneOK, PhoneShape, Shape, SheetClean
<1> HIDE DEF q
<1>3. Clean(q.s, t) => SoundPhone(q, t)
  BY <1>1, <1>2 DEF PhoneOK, SoundPhone, Fits, Clean
<1>4. Clean(p.s, t) => Pending(q, t, call)
  BY <1>1 DEF PhoneOK, SoundPhone, Sound, Pending, Fits, NoneOpens, SheetClean
<1>5. QED
  BY <1>1, <1>3, <1>4 DEF q, PhoneOK, Onward

-----------------------------------------------------------------------------
(* Opening a conversation *)

LEMMA BootedOK ==
  ASSUME NEW p, NEW t, PhoneOK(p, t), NEW m, Clean(p.s, t) => NoneOpens(p)
  PROVE  /\ PhoneOK(Booted(p, m), t) /\ Onward(p, Booted(p, m)) /\ Booted(p, m).s = p.s
         /\ Booted(p, m).screen.visit = p.screen.visit
BY DEF PhoneOK, PhoneShape, SoundPhone, Fits, NoneOpens, Onward, Booted, TrailsFit

\* The boot of a visit nobody watches goes on to its REST reads.
LEMMA TrailsOK ==
  ASSUME NEW p, NEW t, PhoneOK(p, t), NEW call,
         Clean(p.s, t) => NoneOpens(p) /\ call.m \in p.screen.booting
  PROVE  /\ PhoneOK(Trails(p, call), t) /\ Onward(p, Trails(p, call)) /\ Trails(p, call).s = p.s
         /\ Trails(p, call).screen.visit = p.screen.visit
<1> DEFINE q == Booted(p, call.m)
           b == [m |-> call.m, url |-> call.url]
           r == Trails(p, call)
<1>1. PhoneOK(q, t) /\ Onward(p, q) /\ q.s = p.s /\ q.screen.visit = p.screen.visit
  BY BootedOK
<1>2. q.screen.watching = p.screen.watching /\ q.screen.trailing = p.screen.trailing
  BY DEF Booted, PhoneOK, PhoneShape
<1>3. r = [q EXCEPT !.screen.trailing = @ \cup {b}]
  BY DEF Trails
<1>4. b.m = call.m
  OBVIOUS
<1>5. Clean(p.s, t) => /\ call.m \in Nat /\ call.m <= p.screen.visit
                       /\ p.screen.watching => call.m # p.screen.visit
  BY DEF PhoneOK, SoundPhone
<1> HIDE DEF q, b, r
<1>6. /\ DOMAIN r = {"s", "screen"} /\ r.s = q.s
      /\ r.screen = [q.screen EXCEPT !.trailing = @ \cup {b}]
  BY <1>1, <1>3 DEF PhoneOK, PhoneShape
<1>7. /\ PhoneShape(r) /\ r.screen.visit = q.screen.visit /\ r.screen.booting = q.screen.booting
      /\ r.screen.watching = q.screen.watching /\ r.screen.intent = q.screen.intent
      /\ r.screen.trailing = q.screen.trailing \cup {b}
  BY <1>1, <1>6 DEF PhoneOK, PhoneShape
<1>8. Clean(r.s, t) => TrailsFit(r.screen)
  BY <1>1, <1>2, <1>4, <1>5, <1>6, <1>7 DEF PhoneOK, SoundPhone, TrailsFit
<1>9. PhoneOK(r, t) /\ Onward(q, r)
  BY <1>1, <1>6, <1>7, <1>8 DEF PhoneOK, SoundPhone, Fits, Onward
<1>10. QED
  BY <1>1, <1>6, <1>7, <1>9 DEF r, Onward

LEMMA EmptyIsOwn ==
  ASSUME NEW S
  PROVE  <<>> \in Seq(S)
OBVIOUS

\* A boot is of this visit or an earlier one.
Boots(p, m) == m \in Nat /\ m <= p.screen.visit

LEMMA BootingOK ==
  ASSUME NEW p, NEW t, PhoneOK(p, t), NEW m, Clean(p.s, t) => Boots(p, m)
  PROVE  /\ PhoneOK(Booting(p, m), t) /\ Onward(p, Booting(p, m))
         /\ Clean(Booting(p, m).s, t) => NoneOpens(Booting(p, m))
         /\ Booting(p, m).s.h = None /\ m \in Booting(p, m).screen.booting
<1> DEFINE q == Booting(p, m)
           races == IF p.screen.booting = {} THEN {} ELSE {"boots"}
<1>1. /\ PhoneShape(q) /\ q.s.asked = p.s.asked /\ q.s.crossed = p.s.crossed \cup races
      /\ q.s.h = None /\ q.s.here = None /\ q.s.rows = <<>> /\ q.s.sheet = None /\ q.s.queued = None
      /\ q.s.inflight = None /\ q.s.running = FALSE
      /\ q.screen.booting = p.screen.booting \cup {m} /\ ~q.screen.watching
      /\ q.screen.visit = p.screen.visit /\ q.screen.intent = p.screen.intent
      /\ q.screen.trailing = p.screen.trailing
  <2> DEFINE crossed == IF p.screen.booting = {} THEN p.s ELSE Cross(p.s, "boots")
  <2>1. Shape(crossed) /\ crossed.asked = p.s.asked /\ crossed.crossed = p.s.crossed \cup races
    BY DEF PhoneOK, PhoneShape, Shape, Cross
  <2>2. q = [p EXCEPT !.s = Reset(crossed), !.screen.booting = @ \cup {m}, !.screen.watching = FALSE]
    BY DEF Booting
  <2> HIDE DEF crossed, q
  <2>3. q.s = Reset(crossed) /\ q.screen = [p.screen EXCEPT !.booting = @ \cup {m}, !.watching = FALSE]
        /\ DOMAIN q = {"s", "screen"}
    BY <2>2 DEF PhoneOK, PhoneShape
  <2>4. /\ Shape(q.s) /\ q.s.asked = p.s.asked /\ q.s.crossed = p.s.crossed \cup races
        /\ q.s.h = None /\ q.s.here = None /\ q.s.rows = <<>> /\ q.s.sheet = None /\ q.s.queued = None
        /\ q.s.inflight = None /\ q.s.running = FALSE
    BY <2>1, <2>3 DEF Reset, Shape
  <2>5. QED
    BY <2>3, <2>4 DEF PhoneOK, PhoneShape
<1> HIDE DEF q
<1>2. Clean(q.s, t) => p.screen.booting = {} /\ Clean(p.s, t)
  BY <1>1 DEF Clean
<1>3. Clean(q.s, t) => NoneOpens(q)
  BY <1>1, <1>2 DEF PhoneOK, SoundPhone, Fits, NoneOpens
<1>4. Clean(q.s, t) => Sound(q.s, t)
  BY <1>1, <1>2, EmptyIsOwn DEF PhoneOK, SoundPhone, Sound, SheetClean
<1>5. Clean(q.s, t) => SoundPhone(q, t)
  BY <1>1, <1>2, <1>3, <1>4 DEF PhoneOK, SoundPhone, Fits, NoneOpens, Boots, TrailsFit
<1>6. QED
  BY <1>1, <1>3, <1>5 DEF q, PhoneOK, Onward

LEMMA StartNewOK ==
  ASSUME NEW p, NEW t, PhoneOK(p, t), NEW m, Clean(p.s, t) => Boots(p, m)
  PROVE  PhoneOK(StartNew(p, m), t) /\ Onward(p, StartNew(p, m))
<1> DEFINE q == Booting(p, m)
           call == [k |-> "create", m |-> m]
<1>1. /\ PhoneOK(q, t) /\ Onward(p, q)
      /\ Clean(q.s, t) => NoneOpens(q)
      /\ q.s.h = None /\ m \in q.screen.booting
  BY BootingOK
<1>2. StartNew(p, m) = IF BootingRef(p, m) THEN p
                       ELSE IF p.s.up THEN [q EXCEPT !.s = Call(@, call)] ELSE Booted(q, m)
  BY DEF StartNew
<1>3. Clean(q.s, t) => Pending(q, t, call)
  BY <1>1 DEF Pending, CallOwn, SheetOwn, Fits, Opens, Syncs
<1> HIDE DEF q, call
<1>4. PhoneOK([q EXCEPT !.s = Call(@, call)], t) /\ Onward(q, [q EXCEPT !.s = Call(@, call)])
  BY <1>1, <1>3, AskOK
<1>5. PhoneOK(Booted(q, m), t) /\ Onward(q, Booted(q, m))
  BY <1>1, BootedOK
<1>6. QED
  BY <1>1, <1>2, <1>4, <1>5 DEF Onward

LEMMA DoResumeOK ==
  ASSUME NEW p, NEW t, PhoneOK(p, t), NEW c, NEW m, NEW url,
         Clean(p.s, t) => c \in Known(t) /\ Boots(p, m)
  PROVE  PhoneOK(DoResume(p, c, m, url), t) /\ Onward(p, DoResume(p, c, m, url))
<1> DEFINE q == Booting(p, m)
           call == [k |-> "resume", c |-> c, by |-> "boot", m |-> m, url |-> url]
<1>1. /\ PhoneOK(q, t) /\ Onward(p, q)
      /\ Clean(q.s, t) => NoneOpens(q)
      /\ q.s.h = None /\ m \in q.screen.booting
  BY BootingOK
<1>2. DoResume(p, c, m, url) = IF BootingRef(p, m) THEN p ELSE [q EXCEPT !.s = Call(@, call)]
  BY DEF DoResume
<1> HIDE DEF q
<1>3. Clean(q.s, t) => Pending(q, t, call)
  BY <1>1, OnwardClean DEF Pending, CallOwn, SheetOwn, Fits, Opens, Syncs
<1> HIDE DEF call
<1>4. PhoneOK([q EXCEPT !.s = Call(@, call)], t) /\ Onward(q, [q EXCEPT !.s = Call(@, call)])
  BY <1>1, <1>3, AskOK
<1>5. QED
  BY <1>1, <1>2, <1>4 DEF Onward

LEMMA IntentOK ==
  ASSUME NEW p, NEW t, PhoneOK(p, t)
  PROVE  /\ PhoneOK([p EXCEPT !.screen.intent = None], t)
         /\ Onward(p, [p EXCEPT !.screen.intent = None])
BY DEF PhoneOK, PhoneShape, SoundPhone, Fits, Onward, TrailsFit

LEMMA BootEffectOK ==
  ASSUME NEW p, NEW t, PhoneOK(p, t)
  PROVE  PhoneOK(BootEffect(p), t) /\ Onward(p, BootEffect(p))
<1> DEFINE m == p.screen.visit
           c == p.screen.intent
<1>1. PhoneOK(StartNew(p, m), t) /\ Onward(p, StartNew(p, m))
  <2>1. Clean(p.s, t) => Boots(p, m)
    BY DEF PhoneOK, SoundPhone, Boots
  <2>2. QED
    BY <2>1, StartNewOK
<1>2. c # None => PhoneOK(DoResume(p, c, m, TRUE), t) /\ Onward(p, DoResume(p, c, m, TRUE))
  <2>1. c # None /\ Clean(p.s, t) => c \in Known(t) /\ Boots(p, m)
    BY DEF PhoneOK, SoundPhone, Boots
  <2> HIDE DEF m, c
  <2>2. QED
    BY <2>1, DoResumeOK
<1>3. /\ PhoneOK([p EXCEPT !.screen.intent = None], t)
      /\ Onward(p, [p EXCEPT !.screen.intent = None])
  BY IntentOK
<1>4. \/ BootEffect(p) \in {p, StartNew(p, m), [p EXCEPT !.screen.intent = None]}
      \/ c # None /\ BootEffect(p) = DoResume(p, c, m, TRUE)
  BY DEF BootEffect
<1>5. Onward(p, p)
  BY DEF Onward
<1> HIDE DEF m, c
<1>6. QED
  BY <1>1, <1>2, <1>3, <1>4, <1>5

LEMMA ClearIntentOK ==
  ASSUME NEW p, NEW t, PhoneOK(p, t)
  PROVE  PhoneOK(ClearIntent(p), t) /\ Onward(p, ClearIntent(p))
BY IntentOK, BootEffectOK DEF ClearIntent, Onward

LEMMA TrailedOK ==
  ASSUME NEW p, NEW t, PhoneOK(p, t), NEW b
  PROVE  PhoneOK(Trailed(p, b), t) /\ Onward(p, Trailed(p, b))
<1> DEFINE done == [p EXCEPT !.screen.trailing = @ \ {b}]
<1>1. PhoneOK(done, t) /\ Onward(p, done)
  BY DEF PhoneOK, PhoneShape, SoundPhone, Fits, Onward, TrailsFit
<1>2. Trailed(p, b) = IF b.url THEN ClearIntent(done) ELSE done
  BY DEF Trailed
<1> HIDE DEF done
<1>3. QED
  BY <1>1, <1>2, ClearIntentOK DEF Onward

\* The phone attaches to a runtime of the conversation it is in, or to any if it
\* is in none.
Adopts(p, h) == [p EXCEPT !.s = AdoptSession(@, h), !.screen.watching = FALSE]
Adoptable(p, t, h) ==
  /\ h \in Handles /\ h[1] \in Known(t) /\ (p.s.h # None => p.s.h[1] = h[1])
  /\ \A a \in p.s.asked : Opens(a) => a.k = "history" /\ a.h[1] = h[1]

LEMMA AdoptMoves ==
  ASSUME NEW p, NEW t, PhoneOK(p, t), NEW h, Clean(p.s, t) => Adoptable(p, t, h)
  PROVE  /\ PhoneOK(Adopts(p, h), t) /\ Onward(p, Adopts(p, h)) /\ Adopts(p, h).s.here = h[1]
         /\ Adopts(p, h).s.asked = p.s.asked
         /\ NoneOpens(p) => NoneOpens(Adopts(p, h))
<1> DEFINE q == Adopts(p, h)
<1>1. /\ PhoneShape(q) /\ q.s.asked = p.s.asked /\ q.s.crossed = p.s.crossed /\ q.s.rows = p.s.rows
      /\ q.s.queued = p.s.queued /\ q.s.inflight = p.s.inflight /\ q.s.sheet = p.s.sheet
      /\ q.s.h = h /\ q.s.here = h[1] /\ ~q.screen.watching /\ q.s.running = p.s.running
      /\ q.screen.booting = p.screen.booting /\ q.screen.trailing = p.screen.trailing
      /\ q.screen.visit = p.screen.visit /\ q.screen.intent = p.screen.intent
  BY DEF PhoneOK, PhoneShape, Shape, AdoptSession, Adopts
<1> HIDE DEF q
<1>2. Clean(p.s, t) => /\ Sound(p.s, t) /\ h # None /\ h[1] \in Conv
                       /\ h \in Handles /\ h[1] \in Known(t) /\ (p.s.h # None => p.s.h[1] = h[1])
  BY ChatAssumption DEF PhoneOK, SoundPhone, Handles, Adoptable
<1>3. Clean(p.s, t) => Own(t, p.s.here) \subseteq Own(t, h[1])
  BY <1>2, ChatAssumption DEF Sound, Own
<1>4. Clean(p.s, t) => p.s.rows \in Seq(OwnRow(t, h[1]))
  <2>1. Clean(p.s, t) => OwnRow(t, p.s.here) \subseteq OwnRow(t, h[1])
    BY <1>3 DEF OwnRow, TurnRow
  <2>2. QED
    BY <1>2, <2>1 DEF Sound
<1>5. Clean(q.s, t) => Sound(q.s, t)
  BY <1>1, <1>2, <1>3, <1>4 DEF Sound, Clean, SheetClean
<1>6. Clean(q.s, t) => SoundPhone(q, t)
  BY <1>1, <1>5 DEF PhoneOK, SoundPhone, Fits, Clean, Adoptable, TrailsFit
<1>7. PhoneOK(q, t) /\ Onward(p, q) /\ (NoneOpens(p) => NoneOpens(q))
  BY <1>1, <1>6 DEF PhoneOK, Onward, NoneOpens
<1>8. QED
  BY <1>1, <1>7 DEF q

LEMMA HistoryAnsweredOK ==
  ASSUME NEW p, NEW t, PhoneOK(p, t), NEW call, call.k = "history", call.by = "boot", NEW rows,
         Clean(p.s, t) => Pending(p, t, call) /\ rows \in Seq(OwnRow(t, call.h[1]))
  PROVE  PhoneOK(HistoryAnswered(p, call, rows), t) /\ Onward(p, HistoryAnswered(p, call, rows))
<1> DEFINE fresh == IF p.s.rows = <<>> /\ p.s.queued = None THEN p.s ELSE Cross(p.s, "over")
           y == LoadHistory(fresh, rows, FALSE)
           q == [p EXCEPT !.s = y]
<1>1. StoreOK(p.s, t)
  BY DEF PhoneOK, PhoneShape, SoundPhone, StoreOK
<1>2. Clean(p.s, t) => NoneOpens(p) /\ call.m \in p.screen.booting /\ rows \in Seq(OwnRow(t, p.s.here))
  BY DEF Pending, Fits, Opens
<1>3. StoreOK(fresh, t) /\ Within(p.s, fresh)
  BY <1>1, CrossWithin DEF StoreOK, Within
<1> HIDE DEF fresh
<1>4. Clean(fresh, t) => rows \in Seq(OwnRow(t, fresh.here))
  BY <1>2, <1>3, WithinClean DEF Within
<1>5. StoreOK(y, t) /\ Within(p.s, y)
  BY <1>3, <1>4, LoadWithin, WithinTwice
<1>6. HistoryAnswered(p, call, rows) = Trails(q, call) /\ q.screen = p.screen
  BY DEF HistoryAnswered, fresh, PhoneOK, PhoneShape
<1> HIDE DEF y
<1>7. PhoneOK(q, t) /\ Onward(p, q) /\ (NoneOpens(p) => NoneOpens(q))
  BY <1>5, StoreMoves
<1>8. Clean(q.s, t) => NoneOpens(q) /\ call.m \in q.screen.booting
  BY <1>2, <1>6, <1>7, OnwardClean
<1> HIDE DEF q
<1>9. QED
  BY <1>6, <1>7, <1>8, TrailsOK DEF Onward

LEMMA HistoryFailedOK ==
  ASSUME NEW p, NEW t, PhoneOK(p, t), NEW call, call.k = "history", call.by = "boot",
         Clean(p.s, t) => Pending(p, t, call)
  PROVE  PhoneOK(HistoryFailed(p, call), t) /\ Onward(p, HistoryFailed(p, call))
<1> DEFINE q == [p EXCEPT !.s = Cross(@, "bare")]
<1>1. StoreOK(p.s, t)
  BY DEF PhoneOK, PhoneShape, SoundPhone, StoreOK
<1>2. Clean(p.s, t) => NoneOpens(p) /\ call.m \in p.screen.booting
  BY DEF Pending, Fits, Opens
<1>3. PhoneOK(q, t) /\ Onward(p, q) /\ (NoneOpens(p) => NoneOpens(q))
  BY <1>1, CrossWithin, StoreMoves
<1>4. HistoryFailed(p, call) = Trails(q, call) /\ q.screen = p.screen
  BY DEF HistoryFailed, PhoneOK, PhoneShape
<1>5. Clean(q.s, t) => NoneOpens(q) /\ call.m \in q.screen.booting
  BY <1>2, <1>3, <1>4, OnwardClean
<1> HIDE DEF q
<1>6. QED
  BY <1>3, <1>4, <1>5, TrailsOK DEF Onward

LEMMA CreateAnsweredOK ==
  ASSUME NEW p, NEW t, PhoneOK(p, t), NEW call, call.k = "create", NEW h,
         Clean(p.s, t) => Pending(p, t, call) /\ h \in Handles /\ h[1] \in Known(t)
  PROVE  PhoneOK(CreateAnswered(p, call, h), t) /\ Onward(p, CreateAnswered(p, call, h))
<1> DEFINE q == Adopts(p, h)
<1>1. Clean(p.s, t) => NoneOpens(p) /\ p.s.h = None
  BY DEF Pending, Fits, Opens
<1>2. PhoneOK(q, t) /\ Onward(p, q) /\ (NoneOpens(p) => NoneOpens(q))
  <2>1. Clean(p.s, t) => Adoptable(p, t, h)
    BY <1>1 DEF NoneOpens, Adoptable
  <2>2. QED
    BY <2>1, AdoptMoves
<1>3. CreateAnswered(p, call, h) = Booted(q, call.m)
  BY DEF CreateAnswered, Adopts
<1> HIDE DEF q
<1>4. Clean(q.s, t) => NoneOpens(q)
  BY <1>1, <1>2, OnwardClean
<1>5. PhoneOK(Booted(q, call.m), t) /\ Onward(q, Booted(q, call.m))
  BY <1>2, <1>4, BootedOK
<1>6. QED
  BY <1>2, <1>3, <1>5 DEF Onward

\* The conversation is on screen, and its history is asked for.
LEMMA ResumeAnsweredOK ==
  ASSUME NEW p, NEW t, PhoneOK(p, t), NEW call, call.k = "resume", call.by = "boot", NEW res,
         Clean(p.s, t) => Pending(p, t, call) /\ AnswerOwn(t, call, res)
  PROVE  PhoneOK(ResumeAnswered(p, call, res), t) /\ Onward(p, ResumeAnswered(p, call, res))
<1> DEFINE adopted == Adopts(p, res.h)
           y == ApplyLiveState(adopted.s, res)
           open == [adopted EXCEPT !.s = y]
           next == [k |-> "history", h |-> res.h, by |-> "boot", m |-> call.m, url |-> call.url]
           asked == [open EXCEPT !.s = Call(@, next)]
<1>1. Clean(p.s, t) => NoneOpens(p) /\ p.s.h = None /\ call.m \in p.screen.booting
  BY DEF Pending, Fits, Opens
<1>2. /\ PhoneOK(adopted, t) /\ Onward(p, adopted) /\ adopted.s.here = res.h[1]
      /\ NoneOpens(p) => NoneOpens(adopted)
  <2>1. Clean(p.s, t) => Adoptable(p, t, res.h)
    BY <1>1 DEF AnswerOwn, Pending, CallOwn, NoneOpens, Adoptable
  <2>2. QED
    BY <2>1, AdoptMoves
<1>3. /\ adopted.s = AdoptSession(p.s, res.h) /\ adopted.screen = [p.screen EXCEPT !.watching = FALSE]
      /\ adopted.screen.booting = p.screen.booting /\ DOMAIN adopted = {"s", "screen"}
  BY DEF PhoneOK, PhoneShape, Adopts
<1>4. /\ ResumeAnswered(p, call, res).s = Call(y, next)
      /\ ResumeAnswered(p, call, res).screen = adopted.screen
      /\ DOMAIN ResumeAnswered(p, call, res) = {"s", "screen"}
  BY <1>3 DEF ResumeAnswered, PhoneOK, PhoneShape
<1> HIDE DEF adopted
<1>5. StoreOK(y, t) /\ Within(adopted.s, y)
  <2>1. StoreOK(adopted.s, t)
    BY <1>2 DEF PhoneOK, PhoneShape, SoundPhone, StoreOK
  <2>2. Clean(adopted.s, t) => /\ adopted.s.h # None
                               /\ res.p \in Own(t, adopted.s.here) \cup {None}
                               /\ res.ask \in Own(t, adopted.s.here) \cup {None}
    BY <1>2, <1>3, OnwardClean, ChatAssumption DEF AnswerOwn, Handles, AdoptSession, PhoneOK, PhoneShape, Shape
  <2>3. QED
    BY <2>1, <2>2, LiveStateWithin
<1> HIDE DEF y
<1>6. PhoneOK(open, t) /\ Onward(adopted, open) /\ (NoneOpens(adopted) => NoneOpens(open))
  BY <1>2, <1>5, StoreMoves
<1>7. open.s = y /\ open.screen = adopted.screen /\ open.s.here = res.h[1]
  BY <1>2, <1>3, <1>5 DEF Within
<1> HIDE DEF open
<1>8. Clean(open.s, t) => Clean(p.s, t)
  BY <1>2, <1>6, OnwardClean
<1>9. Clean(open.s, t) => Pending(open, t, next)
  BY <1>1, <1>2, <1>3, <1>6, <1>7, <1>8 DEF Pending, CallOwn, SheetOwn, Fits, Opens, Syncs, AnswerOwn
<1> HIDE DEF next
<1>10. PhoneOK(asked, t) /\ Onward(open, asked)
  BY <1>6, <1>9, AskOK
<1>11. /\ ResumeAnswered(p, call, res).s = asked.s /\ ResumeAnswered(p, call, res).screen = asked.screen
  BY <1>4, <1>6, <1>7 DEF PhoneOK, PhoneShape
<1> HIDE DEF asked
<1>12. PhoneOK(ResumeAnswered(p, call, res), t)
  BY <1>4, <1>10, <1>11, SamePhone DEF SameScreen
<1>13. QED
  BY <1>2, <1>6, <1>10, <1>11, <1>12 DEF Onward

LEMMA ResumeFailedOK ==
  ASSUME NEW p, NEW t, PhoneOK(p, t), NEW call, call.k = "resume", call.by = "boot",
         Clean(p.s, t) => Pending(p, t, call)
  PROVE  PhoneOK(ResumeFailed(p, call), t) /\ Onward(p, ResumeFailed(p, call))
<1> DEFINE q == Booted(p, call.m)
<1>1. PhoneOK(q, t) /\ Onward(p, q) /\ (Clean(q.s, t) => Boots(q, call.m))
  <2>1. Clean(p.s, t) => NoneOpens(p) /\ Boots(p, call.m)
    BY DEF Pending, Opens, Fits, PhoneOK, SoundPhone, Boots
  <2>2. QED
    BY <2>1, BootedOK DEF Boots
<1>2. ResumeFailed(p, call) = StartNew(q, call.m)
  BY DEF ResumeFailed
<1> HIDE DEF q
<1>3. QED
  BY <1>1, <1>2, StartNewOK DEF Onward

-----------------------------------------------------------------------------
(* The reconnect effect *)

\* No reattach of this visit is under way.
NoneSyncs(p) == \A a \in p.s.asked : Syncs(a) => a.m # p.screen.visit

LEMMA EffectsOK ==
  ASSUME NEW p, NEW t, PhoneOK(p, t), Clean(p.s, t) => NoneSyncs(p)
  PROVE  PhoneOK(Effects(p), t) /\ Onward(p, Effects(p))
<1> DEFINE q == BootEffect(p)
           m == p.screen.visit
           call == [k |-> "resume", c |-> p.s.here, by |-> "sync", m |-> m]
           back == [q EXCEPT !.s = Cross(@, "back")]
           watched == [p EXCEPT !.screen.watching = TRUE]
           asked == [watched EXCEPT !.s = Call(@, call)]
<1>1. PhoneOK(q, t) /\ Onward(p, q)
  BY BootEffectOK
<1>2. PhoneOK(back, t) /\ Onward(q, back)
  <2> HIDE DEF q
  <2>1. StoreOK(q.s, t)
    BY <1>1 DEF PhoneOK, PhoneShape, SoundPhone, StoreOK
  <2>2. QED
    BY <1>1, <2>1, CrossWithin, StoreMoves
<1>3. CASE Effects(p) \in {q, back}
  <2> HIDE DEF q, back
  <2>1. QED
    BY <1>1, <1>2, <1>3 DEF Onward
<1>4. CASE Effects(p) \notin {q, back}
  <2>1. /\ p.s.h # None /\ p.screen.intent = None
        /\ Effects(p) = [q EXCEPT !.s = Call(@, call), !.screen.watching = TRUE]
    BY <1>4 DEF Effects, ReconnectEffect
  <2>2. q = p /\ ~BootingRef(p, m)
    <3>1. q = p
      BY <2>1 DEF BootEffect
    <3>2. QED
      BY <1>4, <3>1 DEF Effects, ReconnectEffect
  <2> HIDE DEF q
  <2>3. /\ PhoneShape(watched) /\ watched.s = p.s /\ watched.screen.booting = p.screen.booting
        /\ watched.screen.visit = p.screen.visit /\ watched.screen.intent = p.screen.intent
        /\ watched.screen.trailing = p.screen.trailing
        /\ watched.screen = [p.screen EXCEPT !.watching = TRUE]
    BY DEF PhoneOK, PhoneShape
  <2>4. /\ Effects(p).s = Call(p.s, call) /\ Effects(p).screen = watched.screen
        /\ DOMAIN Effects(p) = {"s", "screen"}
    BY <2>1, <2>2, <2>3 DEF PhoneOK, PhoneShape
  <2> HIDE DEF watched
  <2>5. PhoneOK(watched, t) /\ Onward(p, watched)
    BY <2>2, <2>3 DEF PhoneOK, SoundPhone, Fits, NoneSyncs, Onward, TrailsFit, BootingRef
  <2>6. Clean(watched.s, t) => Pending(watched, t, call)
    <3>1. Clean(p.s, t) => p.s.here \in Known(t) /\ m \in Nat
      BY <2>1, ChatAssumption DEF PhoneOK, SoundPhone, Sound, Handles
    <3>2. QED
      BY <2>3, <3>1 DEF Pending, CallOwn, SheetOwn, Fits, Opens, Syncs
  <2> HIDE DEF call
  <2>7. PhoneOK(asked, t) /\ Onward(watched, asked)
    BY <2>5, <2>6, AskOK
  <2>8. asked.s = Call(p.s, call) /\ asked.screen = watched.screen
    BY <2>3 DEF PhoneShape
  <2> HIDE DEF asked
  <2>9. PhoneOK(Effects(p), t)
    BY <2>4, <2>7, <2>8, SamePhone DEF SameScreen
  <2>10. QED
    BY <2>4, <2>5, <2>7, <2>8, <2>9 DEF Onward
<1>5. QED
  BY <1>3, <1>4

LEMMA SyncFailedOK ==
  ASSUME NEW p, NEW t, PhoneOK(p, t), NEW call, call.k \in {"resume", "history"}, call.by # "boot",
         Clean(p.s, t) => Pending(p, t, call)
  PROVE  PhoneOK(SyncFailed(p, call), t) /\ Onward(p, SyncFailed(p, call))
<1>1. CASE ~Alive(p, call)
  BY <1>1 DEF SyncFailed, Onward
<1>2. CASE Alive(p, call)
  <2>1. Clean(p.s, t) => p.s.here \in Known(t) /\ Boots(p, call.m)
    <3>1. Clean(p.s, t) => Boots(p, call.m) /\ p.s.here = IF call.k = "resume" THEN call.c ELSE call.h[1]
      BY <1>2 DEF Pending, Fits, Syncs, Alive, Boots, CallOwn
    <3>2. Clean(p.s, t) => p.s.here # None
      BY <3>1, ChatAssumption DEF Pending, CallOwn, Handles, Known
    <3>3. QED
      BY <3>1, <3>2 DEF PhoneOK, SoundPhone, Sound
  <2>2. SyncFailed(p, call) = DoResume(p, p.s.here, call.m, FALSE)
    BY <1>2 DEF SyncFailed
  <2>3. QED
    BY <2>1, <2>2, DoResumeOK
<1>3. QED
  BY <1>1, <1>2

\* The conversation stays, whether its runtime was rebuilt or not.
LEMMA SyncResumedOK ==
  ASSUME NEW p, NEW t, PhoneOK(p, t), NEW call, call.k = "resume", call.by # "boot", NEW res,
         Clean(p.s, t) => Pending(p, t, call) /\ AnswerOwn(t, call, res)
  PROVE  PhoneOK(SyncResumed(p, call, res), t) /\ Onward(p, SyncResumed(p, call, res))
<1> DEFINE q == SyncResumed(p, call, res)
           rebuilt == res.h # p.s.h
           stale == IF p.s.sheet # None /\ p.s.sheet.p # res.ask THEN Cross(p.s, "stale") ELSE p.s
           known == [p EXCEPT !.s = stale]
           moved == Adopts(known, res.h)
           told == [moved EXCEPT !.s = Cross(@, "rebuilt")]
           adopted == IF rebuilt THEN told ELSE known
           y == ApplyLiveState(adopted.s, res)
           live == [adopted EXCEPT !.s = y]
           next == [k |-> "history", h |-> res.h, by |-> "sync", m |-> call.m, p |-> res.p]
           asked == [live EXCEPT !.s = Call(@, next)]
<1>1. CASE ~Alive(p, call)
  BY <1>1 DEF SyncResumed, Onward
<1>2. CASE Alive(p, call)
  <2>1. /\ p.screen.watching /\ call.m = p.screen.visit
        /\ Clean(p.s, t) => /\ res.h \in Handles /\ res.h[1] = p.s.here /\ p.s.here \in Known(t)
                         /\ res.p \in Own(t, p.s.here) \cup {None} /\ res.ask \in Own(t, p.s.here) \cup {None}
    BY <1>2 DEF Pending, Fits, Syncs, Alive, CallOwn, AnswerOwn
  <2>2. StoreOK(p.s, t) /\ PhoneShape(p)
    BY DEF PhoneOK, PhoneShape, SoundPhone, StoreOK
  <2>3. StoreOK(stale, t) /\ Within(p.s, stale)
    BY <2>2, CrossWithin DEF StoreOK, Within
  <2>4. PhoneOK(known, t) /\ Onward(p, known)
    BY <2>3, StoreMoves
  <2>5. known.s = stale /\ known.screen = p.screen
    BY <2>2 DEF PhoneShape
  <2> HIDE DEF stale
  <2>6. /\ moved.s = AdoptSession(stale, res.h) /\ moved.screen = [p.screen EXCEPT !.watching = FALSE]
        /\ told.s = Cross(moved.s, "rebuilt") /\ told.screen = moved.screen
        /\ PhoneShape(told)
    BY <2>2, <2>3, <2>5 DEF PhoneShape, StoreOK, Shape, AdoptSession, Cross, Adopts
  <2>7. PhoneOK(moved, t) /\ Onward(known, moved) /\ moved.s.here = res.h[1]
    <3>1. Clean(known.s, t) => Clean(p.s, t) /\ known.s.here = p.s.here /\ known.s.h = p.s.h
      BY <2>3, <2>5, WithinClean DEF Within
    <3>2. Clean(known.s, t) => /\ res.h \in Handles /\ res.h[1] \in Known(t)
                               /\ known.s.h # None => known.s.h[1] = res.h[1]
      BY <2>1, <2>2, <3>1 DEF StoreOK, Sound
    <3>3. Clean(known.s, t) => \A a \in known.s.asked : Opens(a) => a.k = "history" /\ a.h[1] = res.h[1]
      <4>1. Clean(known.s, t) => \A a \in known.s.asked : Fits(known, a)
        BY <2>4 DEF PhoneOK, SoundPhone
      <4>2. Clean(known.s, t) => known.s.here = res.h[1] /\ known.s.h # None
        BY <2>1, <2>4, <3>1, ChatAssumption DEF PhoneOK, SoundPhone, Sound, Known
      <4>3. QED
        BY <4>1, <4>2 DEF Fits
    <3>4. Clean(known.s, t) => Adoptable(known, t, res.h)
      BY <3>2, <3>3 DEF Adoptable
    <3> HIDE DEF known
    <3>5. QED
      BY <2>4, <3>4, AdoptMoves
  <2> HIDE DEF known, moved
  <2>8. PhoneOK(told, t) /\ Onward(moved, told) /\ told.s.here = res.h[1]
    <3>1. StoreOK(moved.s, t)
      BY <2>7 DEF PhoneOK, PhoneShape, SoundPhone, StoreOK
    <3>2. StoreOK(Cross(moved.s, "rebuilt"), t) /\ Within(moved.s, Cross(moved.s, "rebuilt"))
      BY <3>1, CrossWithin
    <3>3. QED
      BY <2>6, <2>7, <3>2, StoreMoves DEF Within
  <2> HIDE DEF told
  <2>9. PhoneOK(adopted, t) /\ Onward(p, adopted)
    BY <2>4, <2>7, <2>8 DEF Onward
  <2>10. Clean(adopted.s, t) => Clean(p.s, t) /\ adopted.s.here = p.s.here
    <3>1. Clean(adopted.s, t) => Clean(p.s, t)
      BY <2>9, OnwardClean
    <3>2. known.s.here = p.s.here
      BY <2>3, <2>5 DEF Within
    <3>3. QED
      BY <2>1, <2>8, <3>1, <3>2
  <2>11. /\ adopted.screen.booting = p.screen.booting /\ adopted.screen.visit = p.screen.visit
         /\ SameScreen([p.screen EXCEPT !.watching = ~rebuilt], adopted.screen)
    BY <2>1, <2>2, <2>5, <2>6 DEF PhoneShape, SameScreen
  <2>12. /\ q.s = Call(ApplyLiveState(IF rebuilt THEN Cross(AdoptSession(stale, res.h), "rebuilt") ELSE stale, res), next)
         /\ q.screen = [p.screen EXCEPT !.watching = ~rebuilt]
         /\ DOMAIN q = {"s", "screen"}
    BY <1>2, <2>2 DEF SyncResumed, PhoneShape, stale
  <2>13. q.s = Call(y, next) /\ SameScreen(q.screen, adopted.screen)
    BY <2>5, <2>6, <2>11, <2>12
  <2> HIDE DEF adopted
  <2>14. StoreOK(y, t) /\ Within(adopted.s, y)
    <3>1. StoreOK(adopted.s, t)
      BY <2>9 DEF PhoneOK, PhoneShape, SoundPhone, StoreOK
    <3>2. Clean(adopted.s, t) => adopted.s.h # None
      BY <2>1, <2>10, <3>1, ChatAssumption DEF StoreOK, Sound, Known
    <3>3. QED
      BY <2>1, <2>10, <3>1, <3>2, LiveStateWithin
  <2> HIDE DEF y
  <2>15. PhoneOK(live, t) /\ Onward(adopted, live)
    BY <2>9, <2>14, StoreMoves
  <2>16. live.s = y /\ live.screen = adopted.screen /\ y.here = adopted.s.here /\ DOMAIN live = {"s", "screen"}
    BY <2>9, <2>14 DEF PhoneOK, PhoneShape, Within
  <2> HIDE DEF live
  <2>17. Clean(live.s, t) => Clean(p.s, t) /\ live.s.here = res.h[1]
    BY <2>1, <2>10, <2>15, <2>16, OnwardClean
  <2>18. Clean(live.s, t) => Pending(live, t, next)
    <3>1. Clean(live.s, t) => live.screen.visit \in Nat
      BY <2>15 DEF PhoneOK, SoundPhone
    <3>2. QED
      BY <2>1, <2>11, <2>16, <2>17, <3>1 DEF Pending, CallOwn, SheetOwn, Fits, Opens, Syncs
  <2> HIDE DEF next
  <2>19. PhoneOK(asked, t) /\ Onward(live, asked)
    BY <2>15, <2>18, AskOK
  <2>20. asked.s = q.s /\ SameScreen(q.screen, asked.screen)
    BY <2>13, <2>16
  <2> HIDE DEF asked, q
  <2>21. PhoneOK(q, t)
    BY <2>12, <2>19, <2>20, SamePhone
  <2>22. Onward(p, q)
    BY <2>9, <2>15, <2>19, <2>20 DEF Onward
  <2>23. QED
    BY <2>21, <2>22 DEF q
<1>3. QED
  BY <1>1, <1>2

LEMMA RacedWithin ==
  ASSUME NEW x, NEW t, StoreOK(x, t), NEW races
  PROVE  /\ StoreOK([x EXCEPT !.crossed = @ \cup races], t)
         /\ Within(x, [x EXCEPT !.crossed = @ \cup races])
BY DEF StoreOK, Within, Shape, Clean, Sound, SheetClean

LEMMA SyncHistoryOK ==
  ASSUME NEW p, NEW t, PhoneOK(p, t), NEW call, call.k = "history", call.by # "boot", NEW rows,
         Clean(p.s, t) => Pending(p, t, call) /\ rows \in Seq(OwnRow(t, call.h[1]))
  PROVE  PhoneOK(SyncHistory(p, call, rows), t) /\ Onward(p, SyncHistory(p, call, rows))
<1> DEFINE running == call.p # None
           raced == (IF Len(rows) < Len(p.s.rows) THEN {"longer"} ELSE {})
                    \cup (IF running /\ Contains(p.s.rows \o rows, <<"reply", call.p>>) THEN {"ended", "outrun"} ELSE {})
                    \cup (IF ~running /\ p.s.running THEN {"outrun"} ELSE {})
           noted == [p.s EXCEPT !.crossed = @ \cup raced]
           synced == ApplyResync(noted, rows, running)
           window == BeginReplayWindow(synced)
           next == [k |-> "since", h |-> call.h, m |-> call.m]
           replaying == [p EXCEPT !.s = window]
           asked == [replaying EXCEPT !.s = Call(@, next)]
<1>1. CASE ~Alive(p, call)
  BY <1>1 DEF SyncHistory, Onward
<1>2. CASE Alive(p, call)
  <2>1. Clean(p.s, t) => call.h \in Handles /\ rows \in Seq(OwnRow(t, p.s.here))
    BY <1>2 DEF Pending, Fits, Syncs, Alive, CallOwn
  <2>2. StoreOK(p.s, t) /\ PhoneShape(p)
    BY DEF PhoneOK, PhoneShape, SoundPhone, StoreOK
  <2>3. SyncHistory(p, call, rows) = IF running THEN [p EXCEPT !.s = Call(window, next)] ELSE [p EXCEPT !.s = synced]
    BY <1>2 DEF SyncHistory
  <2> HIDE DEF raced
  <2>4. StoreOK(noted, t) /\ Within(p.s, noted)
    BY <2>2, RacedWithin
  <2> HIDE DEF noted, running
  <2>5. Clean(noted, t) => rows \in Seq(OwnRow(t, noted.here))
    BY <2>1, <2>4, WithinClean DEF Within
  <2>6. StoreOK(synced, t) /\ Within(p.s, synced)
    BY <2>4, <2>5, ResyncWithin, WithinTwice
  <2> HIDE DEF synced
  <2>7. StoreOK(window, t) /\ Within(p.s, window)
    BY <2>6, WindowWithin, WithinTwice
  <2> HIDE DEF window
  <2>8. PhoneOK([p EXCEPT !.s = synced], t) /\ Onward(p, [p EXCEPT !.s = synced])
    BY <2>6, StoreMoves
  <2>9. PhoneOK(replaying, t) /\ Onward(p, replaying)
    BY <2>7, StoreMoves
  <2>10. asked = [p EXCEPT !.s = Call(window, next)]
    BY <2>2 DEF PhoneShape
  <2> HIDE DEF replaying
  <2>11. Clean(replaying.s, t) => Pending(replaying, t, next)
    BY <2>1, <2>9, OnwardClean DEF Pending, CallOwn, SheetOwn, Fits, Opens, Syncs
  <2> HIDE DEF next
  <2>12. PhoneOK(asked, t) /\ Onward(replaying, asked)
    BY <2>9, <2>11, AskOK
  <2>13. QED
    BY <2>3, <2>8, <2>9, <2>10, <2>12 DEF Onward
<1>3. QED
  BY <1>1, <1>2

LEMMA SyncReplayedOK ==
  ASSUME NEW p, NEW t, PhoneOK(p, t), NEW call, NEW events, Clean(p.s, t) => events \in Seq(OwnEvent(t))
  PROVE  PhoneOK(SyncReplayed(p, call, events), t) /\ Onward(p, SyncReplayed(p, call, events))
<1> DEFINE these == IF Alive(p, call) THEN events ELSE <<>>
           replayed == ApplyReplay(p.s, these)
           raced == (IF replayed.running /\ ~p.s.running THEN {"revived"} ELSE {})
                    \cup (IF \E other \in p.s.asked : other.k = "since" THEN {"shut"} ELSE {})
           y == [replayed EXCEPT !.crossed = @ \cup raced]
<1>1. Clean(p.s, t) => these \in Seq(OwnEvent(t))
  BY EmptyIsOwn
<1>2. SyncReplayed(p, call, events) = [p EXCEPT !.s = y]
  BY DEF SyncReplayed
<1>3. StoreOK(p.s, t)
  BY DEF PhoneOK, PhoneShape, SoundPhone, StoreOK
<1> HIDE DEF these, raced
<1>4. StoreOK(replayed, t) /\ Within(p.s, replayed)
  BY <1>1, <1>3, ReplayWithin
<1> HIDE DEF replayed
<1>5. StoreOK(y, t) /\ Within(p.s, y)
  BY <1>4, RacedWithin, WithinTwice
<1> HIDE DEF y
<1>6. QED
  BY <1>2, <1>5, StoreMoves

-----------------------------------------------------------------------------
(* Frames *)

\* A step of the store alone, for a call that is plain.
LEMMA FailedOK ==
  ASSUME NEW p, NEW t, PhoneOK(p, t), NEW call, Clean(p.s, t) => Pending(p, t, call)
  PROVE  PhoneOK(Failed(p, call), t) /\ Onward(p, Failed(p, call))
<1>1. StoreOK(p.s, t)
  BY DEF PhoneOK, PhoneShape, SoundPhone, StoreOK
<1>2. (Clean(p.s, t) => CallOwn(t, call)) /\ (SheetClean(p.s, t) => SheetOwn(t, call))
  BY DEF Pending, Clean, SheetClean
<1>3. CASE call.k = "resume"
  BY <1>3, ResumeFailedOK, SyncFailedOK DEF Failed
<1>4. CASE call.k = "history"
  BY <1>4, HistoryFailedOK, SyncFailedOK DEF Failed
<1>5. CASE call.k = "since"
  BY <1>5, SyncReplayedOK, EmptyIsOwn DEF Failed
<1>6. CASE call.k = "create"
  <2>1. Clean(p.s, t) => NoneOpens(p)
    BY <1>6 DEF Pending, Opens
  <2>2. QED
    BY <1>6, <2>1, BootedOK DEF Failed
<1>7. CASE call.k = "submit"
  BY <1>1, <1>7, SubmitFailedWithin, StoreMoves DEF Failed
<1>8. CASE call.k = "undo"
  BY <1>1, <1>8, UndoFailedWithin, StoreMoves DEF Failed
<1>9. CASE call.k = "respond"
  BY <1>1, <1>2, <1>9, RespondFailedWithin, StoreMoves DEF Failed
<1>10. CASE call.k \notin {"resume", "history", "since", "create", "submit", "undo", "respond"}
  BY <1>10 DEF Failed, Onward
<1>11. QED
  BY <1>3, <1>4, <1>5, <1>6, <1>7, <1>8, <1>9, <1>10

\* The open requests of an answer leave the call pending.
LEMMA RequestsFirst ==
  ASSUME NEW p, NEW t, PhoneOK(p, t), NEW call, NEW res,
         Clean(p.s, t) => /\ Pending(p, t, call) /\ res.h \in Handles
                       /\ res.ask \in Own(t, res.h[1]) \cup {None}
  PROVE  LET told == [p EXCEPT !.s = DeliverOpenRequests(@, res)]
         IN  PhoneOK(told, t) /\ Onward(p, told) /\ (Clean(told.s, t) => Pending(told, t, call))
<1> DEFINE y == DeliverOpenRequests(p.s, res)
           told == [p EXCEPT !.s = y]
<1>1. StoreOK(p.s, t) /\ PhoneShape(p)
  BY DEF PhoneOK, PhoneShape, SoundPhone, StoreOK
<1>2. StoreOK(y, t) /\ Within(p.s, y)
  BY <1>1, OpenRequestsWithin
<1> HIDE DEF y
<1>3. PhoneOK(told, t) /\ Onward(p, told) /\ (NoneOpens(p) => NoneOpens(told))
  BY <1>2, StoreMoves
<1>4. told.s = y /\ told.screen = p.screen /\ y.here = p.s.here /\ y.h = p.s.h
  BY <1>1, <1>2 DEF PhoneShape, Within
<1> HIDE DEF told
<1>5. Clean(told.s, t) => Pending(told, t, call)
  BY <1>3, <1>4, OnwardClean DEF Pending, Fits
<1>6. PhoneOK(told, t) /\ Onward(p, told) /\ (Clean(told.s, t) => Pending(told, t, call))
  BY <1>3, <1>5
<1>7. QED
  BY <1>6 DEF told, y

LEMMA AnsweredOK ==
  ASSUME NEW p, NEW t, PhoneOK(p, t), NEW f,
         Clean(p.s, t) => Pending(p, t, f.call) /\ AnswerOwn(t, f.call, f.res)
  PROVE  PhoneOK(Answered(p, f), t) /\ Onward(p, Answered(p, f))
<1> DEFINE call == f.call
           told == [p EXCEPT !.s = DeliverOpenRequests(@, f.res)]
<1>1. StoreOK(p.s, t)
  BY DEF PhoneOK, PhoneShape, SoundPhone, StoreOK
<1>2. Clean(p.s, t) => CallOwn(t, call)
  BY DEF Pending
<1>3. CASE call.k = "resume"
  <2>1. PhoneOK(told, t) /\ Onward(p, told) /\ (Clean(told.s, t) => Pending(told, t, call))
    BY <1>3, RequestsFirst DEF AnswerOwn
  <2>2. Clean(told.s, t) => AnswerOwn(t, call, f.res)
    BY <2>1, OnwardClean
  <2>3. Answered(p, f) = IF call.by = "boot" THEN ResumeAnswered(told, call, f.res) ELSE SyncResumed(told, call, f.res)
    BY <1>3 DEF Answered
  <2> HIDE DEF told
  <2>4. call.by = "boot" => /\ PhoneOK(ResumeAnswered(told, call, f.res), t)
                            /\ Onward(told, ResumeAnswered(told, call, f.res))
    BY <1>3, <2>1, <2>2, ResumeAnsweredOK
  <2>5. call.by # "boot" => /\ PhoneOK(SyncResumed(told, call, f.res), t)
                            /\ Onward(told, SyncResumed(told, call, f.res))
    BY <1>3, <2>1, <2>2, SyncResumedOK
  <2>6. QED
    BY <2>1, <2>3, <2>4, <2>5 DEF Onward
<1>4. CASE call.k = "history"
  BY <1>4, HistoryAnsweredOK, SyncHistoryOK DEF Answered, AnswerOwn
<1>5. CASE call.k = "since"
  <2>1. PhoneOK(told, t) /\ Onward(p, told)
    BY <1>5, RequestsFirst DEF AnswerOwn
  <2>2. Clean(told.s, t) => f.res.events \in Seq(OwnEvent(t))
    BY <1>5, <2>1, OnwardClean DEF AnswerOwn
  <2>3. Answered(p, f) = SyncReplayed(told, call, f.res.events)
    BY <1>5 DEF Answered
  <2> HIDE DEF told
  <2>4. QED
    BY <2>1, <2>2, <2>3, SyncReplayedOK DEF Onward
<1>6. CASE call.k = "create"
  BY <1>6, CreateAnsweredOK DEF Answered, AnswerOwn
<1>7. CASE call.k = "submit"
  BY <1>1, <1>7, RewoundWithin, StoreMoves DEF Answered
<1>8. CASE call.k = "undo"
  BY <1>1, <1>2, <1>8, UndoneWithin, StoreMoves DEF Answered
<1>9. CASE call.k = "respond"
  BY <1>1, <1>9, RespondedWithin, StoreMoves DEF Answered
<1>10. CASE call.k \notin {"resume", "history", "since", "create", "submit", "undo", "respond"}
  BY <1>10 DEF Answered, Onward
<1>11. QED
  BY <1>3, <1>4, <1>5, <1>6, <1>7, <1>8, <1>9, <1>10

LEMMA ReceivedOK ==
  ASSUME NEW p, NEW t, PhoneOK(p, t), NEW f, Clean(p.s, t) => FrameOwn(t, f)
  PROVE  PhoneOK(Received(p, f), t) /\ Onward(p, Received(p, f))
<1> DEFINE known == [p EXCEPT !.s.asked = @ \ {f.call}]
<1>1. StoreOK(p.s, t)
  BY DEF PhoneOK, PhoneShape, SoundPhone, StoreOK
<1>2. CASE f.t = "answer" /\ f.call \notin p.s.asked
  BY <1>2 DEF Received, Onward
<1>3. CASE f.t = "answer" /\ f.call \in p.s.asked
  <2>1. PhoneOK(known, t) /\ Onward(p, known) /\ (Clean(p.s, t) => Pending(known, t, f.call))
    BY <1>3, TakeOK
  <2>2. Received(p, f) = IF f.ok THEN Answered(known, f) ELSE Failed(known, f.call)
    BY <1>3 DEF Received
  <2> HIDE DEF known
  <2>3. Clean(known.s, t) => Pending(known, t, f.call)
    BY <2>1, OnwardClean
  <2>4. PhoneOK(Failed(known, f.call), t) /\ Onward(known, Failed(known, f.call))
    BY <2>1, <2>3, FailedOK
  <2>5. f.ok /\ Clean(known.s, t) => AnswerOwn(t, f.call, f.res)
    BY <1>3, <2>1, OnwardClean DEF FrameOwn
  <2>6. f.ok => PhoneOK(Answered(known, f), t) /\ Onward(known, Answered(known, f))
    BY <2>1, <2>3, <2>5, AnsweredOK
  <2>7. QED
    BY <2>1, <2>2, <2>4, <2>6 DEF Onward
<1>4. CASE f.t = "ask"
  <2>1. StoreOK(ApplyServerRequest(p.s, f.h, f.p), t) /\ Within(p.s, ApplyServerRequest(p.s, f.h, f.p))
    <3>1. CASE Clean(p.s, t)
      BY <1>1, <1>4, <3>1, ServerRequestWithin DEF FrameOwn
    <3>2. CASE ~Clean(p.s, t)
      BY <1>1, <3>2 DEF ApplyServerRequest, StoreOK, Within, Shape, Clean
    <3>3. QED
      BY <3>1, <3>2
  <2>2. QED
    BY <1>4, <2>1, StoreMoves DEF Received
<1>5. CASE f.t = "cancel"
  BY <1>1, <1>5, CancelWithin, StoreMoves DEF Received
<1>6. CASE f.t \notin {"answer", "ask", "cancel"}
  <2>1. StoreOK(ApplyEvent(p.s, f), t) /\ Within(p.s, ApplyEvent(p.s, f))
    BY <1>1, <1>6, EventWithin DEF FrameOwn
  <2>2. QED
    BY <1>6, <2>1, StoreMoves DEF Received, Onward
<1>7. QED
  BY <1>2, <1>3, <1>4, <1>5, <1>6

-----------------------------------------------------------------------------
(* What was typed stays where it was typed. *)

LEMMA SeqGrows ==
  ASSUME NEW A, NEW B, A \subseteq B, NEW q \in Seq(A)
  PROVE  q \in Seq(B)
OBVIOUS

LEMMA OwnGrows ==
  ASSUME NEW t, NEW u, Later(t, u)
  PROVE  /\ \A c : Own(t, c) \subseteq Own(u, c) /\ OwnRow(t, c) \subseteq OwnRow(u, c)
                /\ TurnRow(t, c) \subseteq TurnRow(u, c)
         /\ OwnEvent(t) \subseteq OwnEvent(u)
<1>1. \A c : Own(t, c) \subseteq Own(u, c)
  BY DEF Later
<1>2. \A c : OwnRow(t, c) \subseteq OwnRow(u, c) /\ TurnRow(t, c) \subseteq TurnRow(u, c)
  BY <1>1 DEF OwnRow, TurnRow
<1>3. OwnEvent(t) \subseteq OwnEvent(u)
  BY <1>1 DEF OwnEvent
<1>4. QED
  BY <1>1, <1>2, <1>3

LEMMA CallsStayOwn ==
  ASSUME NEW t, NEW u, Later(t, u), NEW call
  PROVE  (CallOwn(t, call) => CallOwn(u, call)) /\ (SheetOwn(t, call) => SheetOwn(u, call))
<1>1. \A c : Own(t, c) \subseteq Own(u, c) /\ OwnRow(t, c) \subseteq OwnRow(u, c)
  BY OwnGrows
<1>2. \A c : \A rows \in Seq(OwnRow(t, c)) : rows \in Seq(OwnRow(u, c))
  BY <1>1, SeqGrows
<1>3. Known(t) \subseteq Known(u)
  BY DEF Later
<1>4. QED
  BY <1>1, <1>2, <1>3 DEF CallOwn, SheetOwn

LEMMA PhoneStaysOK ==
  ASSUME NEW t, NEW u, Later(t, u), NEW p, PhoneOK(p, t)
  PROVE  PhoneOK(p, u)
<1>1. Clean(p.s, t) => Sound(p.s, u)
  <2>1. SUFFICES ASSUME Sound(p.s, t) PROVE Sound(p.s, u)
    BY DEF PhoneOK, SoundPhone
  <2>2. p.s.rows \in Seq(OwnRow(u, p.s.here))
    BY <2>1, OwnGrows, SeqGrows DEF Sound
  <2>3. \A call \in p.s.asked : CallOwn(u, call)
    BY <2>1, CallsStayOwn DEF Sound
  <2>4. SheetClean(p.s, t) => \A call \in p.s.asked : SheetOwn(u, call)
    BY <2>1, CallsStayOwn DEF Sound
  <2>5. Own(t, p.s.here) \subseteq Own(u, p.s.here)
    BY OwnGrows
  <2>6. SheetClean(p.s, t) => p.s.sheet \in [p : Own(u, p.s.here), srq : BOOLEAN] \cup {None}
    BY <2>1, <2>5 DEF Sound
  <2>7. SheetClean(p.s, u) <=> SheetClean(p.s, t)
    BY DEF Later, SheetClean
  <2>8. QED
    BY <2>1, <2>2, <2>3, <2>4, <2>5, <2>6, <2>7 DEF Sound, Later
<1>2. (Clean(p.s, u) => Clean(p.s, t)) /\ Known(t) \subseteq Known(u)
  BY DEF Later, Clean
<1>3. QED
  BY <1>1, <1>2 DEF PhoneOK, SoundPhone

LEMMA FramesStayOwn ==
  ASSUME NEW t, NEW u, Later(t, u), NEW f, FrameOwn(t, f)
  PROVE  FrameOwn(u, f)
<1>1. ASSUME NEW call, NEW res, AnswerOwn(t, call, res) PROVE AnswerOwn(u, call, res)
  <2>1. call.k = "history" => res \in Seq(OwnRow(u, call.h[1]))
    BY <1>1, OwnGrows, SeqGrows DEF AnswerOwn
  <2>2. call.k = "since" => res.events \in Seq(OwnEvent(u))
    BY <1>1, OwnGrows, SeqGrows DEF AnswerOwn
  <2>3. QED
    BY <1>1, <2>1, <2>2, OwnGrows DEF AnswerOwn, Later
<1>2. QED
  BY <1>1, OwnGrows DEF FrameOwn

LEMMA ConversationGrows ==
  ASSUME NEW t, NEW u, Later(t, u), NEW c, NEW g \in Conversation(t, c)
  PROVE  g \in Conversation(u, c)
<1>1. /\ g.hist \in Seq(TurnRow(t, c)) /\ g.ring \in Seq(OwnEvent(t))
      /\ g.turn \in [p : Own(t, c), worked : BOOLEAN, ask : {"no", "open", "over"}] \cup {None}
  BY DEF Conversation
<1>2. g.hist \in Seq(TurnRow(u, c)) /\ g.ring \in Seq(OwnEvent(u))
  BY <1>1, OwnGrows, SeqGrows
<1>3. g.turn \in [p : Own(u, c), worked : BOOLEAN, ask : {"no", "open", "over"}] \cup {None}
  <2>1. Own(t, c) \subseteq Own(u, c)
    BY OwnGrows
  <2>2. QED
    BY <1>1, <2>1
<1>4. QED
  BY <1>2, <1>3 DEF Conversation

LEMMA TypingIsLater ==
  ASSUME NEW b \in BOOLEAN, TypedOK(typed), NEW p \in Prompt, typed[p] = None, NEW c \in Conv,
         typed' = [typed EXCEPT ![p] = c], UNCHANGED gw
  PROVE  Later(Now(b), Then(b)) /\ TypedOK(typed') /\ p \in Own(Then(b), c)
BY ChatAssumption DEF TypedOK, Later, Own, Known, Now, Then

LEMMA SameNow ==
  ASSUME NEW b \in BOOLEAN, UNCHANGED <<typed, gw>>
  PROVE  Then(b) = Now(b)
BY DEF Now, Then

\* What is left out does not depend on the time.
LEMMA CleanThen ==
  ASSUME NEW b \in BOOLEAN, NEW x
  PROVE  Clean(x, Then(b)) <=> Clean(x, Now(b))
BY DEF Clean, Now, Then

LEMMA FramesOfSeq ==
  ASSUME NEW S, NEW q \in Seq(S)
  PROVE  q \in Seq(Range(q)) /\ Range(q) \subseteq S
BY DEF Range

-----------------------------------------------------------------------------
(* Steps of the phone *)

LEMMA InvPhone ==
  ASSUME NEW b \in BOOLEAN, Has(b)
  PROVE  PhoneOK(Phone, Now(b)) /\ Phone.s = s /\ Phone.screen = screen
BY DEF Has, Shaped, PhoneOK, PhoneShape, Phone

LEMMA WorldLater ==
  ASSUME NEW b \in BOOLEAN, World(b), Later(Now(b), Then(b)), UNCHANGED <<wire, gw>>
  PROVE  /\ WireOK(wire', Then(b)) /\ GatewayOK(gw', Then(b))
         /\ \A call \in inbox : CallOwn(Then(b), Of(call))
<1>1. WireOK(wire', Then(b))
  BY FramesStayOwn DEF World, WireOK
<1>2. GatewayOK(gw', Then(b))
  BY ConversationGrows DEF World, GatewayOK
<1>3. \A call \in inbox : CallOwn(Then(b), Of(call))
  BY CallsStayOwn DEF World, InboxOK
<1>4. QED
  BY <1>1, <1>2, <1>3

LEMMA FewerAsked ==
  ASSUME NEW p, NEW t, PhoneOK(p, t), NEW r, DOMAIN r = {"s", "screen"}, r.screen = p.screen,
         NEW asked, asked \subseteq p.s.asked, r.s = [p.s EXCEPT !.asked = asked]
  PROVE  PhoneOK(r, t)
<1>1. /\ PhoneShape(r) /\ r.s.asked = asked /\ r.s.here = p.s.here /\ r.s.h = p.s.h /\ r.s.crossed = p.s.crossed
  BY DEF PhoneOK, PhoneShape, Shape
<1>2. Clean(p.s, t) => Sound(r.s, t)
  <2>1. Clean(p.s, t) => Sound(p.s, t)
    BY DEF PhoneOK, SoundPhone
  <2>2. QED
    BY <1>1, <2>1 DEF Sound, PhoneOK, PhoneShape, Shape, SheetClean
<1>3. Clean(r.s, t) => SoundPhone(r, t)
  BY <1>1, <1>2 DEF PhoneOK, SoundPhone, Fits, Clean
<1>4. QED
  BY <1>1, <1>3 DEF PhoneOK

\* The user's steps, and those the socket makes the phone take.
LEMMA PhoneSteps ==
  ASSUME NEW b \in BOOLEAN, Has(b), NEW q, Is(q), Onward(Phone, q), PhoneOK(q, Then(b)), UNCHANGED gw,
         Clean(s, Now(b)) => TypedOK(typed') /\ Later(Now(b), Then(b)),
         UNCHANGED wire \/ (UNCHANGED typed /\ (Clean(s, Now(b)) => WireOK(wire', Now(b))))
  PROVE  Gets(b)
<1>1. PhoneOK(Phone', Then(b))
  <2>1. /\ Phone'.s = [q.s EXCEPT !.asked = {call \in q.s.asked : call.k # "response"}]
        /\ Phone'.screen = q.screen /\ DOMAIN Phone' = {"s", "screen"}
    BY DEF Is, Phone
  <2>2. QED
    BY <2>1, FewerAsked
<1>2. Clean(s', Then(b)) => Clean(s, Now(b)) /\ Clean(q.s, Then(b))
  <2>1. s'.crossed = q.s.crossed
    BY DEF Is, PhoneOK, PhoneShape, Shape
  <2>2. Clean(s', Then(b)) => Clean(q.s, Then(b)) /\ Clean(q.s, Now(b))
    BY <2>1, CleanThen DEF Clean
  <2>3. QED
    BY <2>2, InvPhone, OnwardClean
<1>3. Clean(s', Then(b)) => InboxOK(inbox', Then(b))
  <2>1. SUFFICES ASSUME Clean(s', Then(b)), NEW call \in inbox' PROVE CallOwn(Then(b), Of(call))
    BY DEF InboxOK
  <2>2. CASE call \in inbox
    BY <1>2, <2>1, <2>2, CallsStayOwn DEF Has, World, InboxOK
  <2>3. CASE call \in q.s.asked
    BY <1>2, <2>1, <2>3 DEF PhoneOK, SoundPhone, Sound, CallOwn, Of
  <2>4. QED
    BY <2>1, <2>2, <2>3 DEF Is
<1>4. Clean(s', Then(b)) => WireOK(wire', Then(b)) /\ GatewayOK(gw', Then(b))
  <2>1. Clean(s, Now(b)) => World(b)
    BY DEF Has
  <2>2. CASE UNCHANGED wire
    BY <1>2, <2>1, <2>2, WorldLater
  <2>3. CASE UNCHANGED typed /\ (Clean(s, Now(b)) => WireOK(wire', Now(b)))
    <3>1. Then(b) = Now(b) /\ gw' = gw
      BY <2>3, SameNow
    <3>2. QED
      BY <1>2, <2>1, <2>3, <3>1 DEF World
  <2>4. QED
    BY <2>2, <2>3
<1>5. QED
  BY <1>1, <1>2, <1>3, <1>4 DEF Gets, NextWorld

LEMMA SameTyped ==
  ASSUME NEW b \in BOOLEAN, Has(b), UNCHANGED <<typed, gw>>
  PROVE  Then(b) = Now(b) /\ (Clean(s, Now(b)) => TypedOK(typed') /\ Later(Now(b), Then(b)))
BY SameNow DEF Has, World, Later

LEMMA ReceiveOK ==
  ASSUME NEW b \in BOOLEAN, Has(b), Receive
  PROVE  Gets(b)
<1>0. PhoneOK(Phone, Now(b)) /\ Phone.s = s /\ Phone.screen = screen
  BY InvPhone
<1> DEFINE f == Head(wire)
           q == Received(Phone, f)
<1>1. Clean(s, Now(b)) => WireOK(wire', Now(b)) /\ FrameOwn(Now(b), f)
  <2>1. SUFFICES ASSUME Clean(s, Now(b)) PROVE WireOK(wire', Now(b)) /\ FrameOwn(Now(b), f)
    OBVIOUS
  <2>2. wire \in Seq(Range(wire)) /\ wire # <<>> /\ wire' = Tail(wire)
    BY <2>1 DEF Has, World, WireOK, Receive
  <2>3. f \in Range(wire) /\ wire' \in Seq(Range(wire))
    BY <2>2
  <2>4. wire' \in Seq(Range(wire')) /\ Range(wire') \subseteq Range(wire)
    BY <2>3, FramesOfSeq
  <2>5. QED
    BY <2>1, <2>2, <2>3, <2>4 DEF Has, World, WireOK
<1>2. PhoneOK(q, Now(b)) /\ Onward(Phone, q)
  BY <1>1, <1>0, ReceivedOK
<1>3. Is(q) /\ UNCHANGED <<gw, typed>>
  BY DEF Receive
<1> HIDE DEF q, f
<1>4. QED
  BY <1>1, <1>2, <1>3, SameTyped, PhoneSteps

LEMMA ReopenOK ==
  ASSUME NEW b \in BOOLEAN, Has(b), Reopen, ~Failing
  PROVE  Gets(b)
<1>0. PhoneOK(Phone, Now(b)) /\ Phone.s = s /\ Phone.screen = screen
  BY InvPhone
<1> DEFINE p == [Phone EXCEPT !.s.up = TRUE]
           q == Effects(p)
<1>1. s.asked = {}
  BY DEF Reopen, Failing
<1>2. PhoneOK(p, Now(b)) /\ Onward(Phone, p) /\ p.s.asked = s.asked
  <2>1. StoreOK(s, Now(b))
    BY <1>0 DEF PhoneOK, PhoneShape, SoundPhone, StoreOK
  <2>2. StoreOK([s EXCEPT !.up = TRUE], Now(b)) /\ Within(s, [s EXCEPT !.up = TRUE])
    BY <2>1 DEF StoreOK, Within, Shape, Clean, Sound, SheetClean
  <2>3. p = [Phone EXCEPT !.s = [s EXCEPT !.up = TRUE]]
    BY <1>0 DEF Phone
  <2>4. p.s = [s EXCEPT !.up = TRUE]
    BY DEF Phone
  <2>5. QED
    BY <2>1, <2>2, <2>3, <2>4, <1>0, StoreMoves DEF StoreOK, Shape
<1>3. Is(q) /\ UNCHANGED <<wire, gw, typed>>
  BY DEF Reopen
<1> HIDE DEF p
<1>4. PhoneOK(q, Now(b)) /\ Onward(p, q)
  BY <1>1, <1>2, EffectsOK DEF NoneSyncs
<1> HIDE DEF q
<1>5. QED
  BY <1>2, <1>3, <1>4, SameTyped, PhoneSteps DEF Onward

LEMMA BootTrailedOK ==
  ASSUME NEW b \in BOOLEAN, Has(b), BootTrailed
  PROVE  Gets(b)
<1>0. PhoneOK(Phone, Now(b)) /\ Phone.s = s /\ Phone.screen = screen
  BY InvPhone
<1>1. PICK boot \in screen.trailing : Is(Trailed(Phone, boot))
  BY DEF BootTrailed
<1>2. PhoneOK(Trailed(Phone, boot), Now(b)) /\ Onward(Phone, Trailed(Phone, boot))
  BY <1>0, TrailedOK
<1>3. UNCHANGED <<wire, gw, typed>>
  BY DEF BootTrailed
<1>4. QED
  BY <1>1, <1>2, <1>3, SameTyped, PhoneSteps

\* A visit is new: nothing the phone waits for is of it.
LEMMA VisitOK ==
  ASSUME NEW b \in BOOLEAN, Has(b), NEW p, PhoneShape(p), p.s = s, p.screen.booting = screen.booting,
         p.screen.trailing = screen.trailing, p.screen.visit = screen.visit + 1,
         Clean(s, Now(b)) => p.screen.intent \in Known(Now(b)) \cup {None}
  PROVE  PhoneOK(p, Now(b)) /\ Onward(Phone, p) /\ (Clean(p.s, Now(b)) => NoneSyncs(p))
<1>1. Phone.s = s /\ Phone.screen = screen
  BY DEF Phone
<1>2. Clean(s, Now(b)) => SoundPhone(Phone, Now(b))
  BY DEF Has, World
<1>3. Clean(s, Now(b)) => \A call \in s.asked : Fits(p, call) /\ (Syncs(call) => call.m # p.screen.visit)
  BY <1>1, <1>2 DEF SoundPhone, Fits
<1>4. Clean(s, Now(b)) => SoundPhone(p, Now(b))
  BY <1>1, <1>2, <1>3 DEF SoundPhone, TrailsFit
<1>5. QED
  BY <1>1, <1>3, <1>4 DEF PhoneOK, Onward, NoneSyncs

LEMMA OpenOK ==
  ASSUME NEW b \in BOOLEAN, Has(b), NEW c \in Conv, Open(c)
  PROVE  Gets(b)
<1>0. PhoneOK(Phone, Now(b)) /\ Phone.s = s /\ Phone.screen = screen
  BY InvPhone
<1> DEFINE p == [Phone EXCEPT !.screen.intent = c]
           v == [Phone EXCEPT !.screen.intent = c, !.screen.shown = TRUE, !.screen.visit = @ + 1]
<1>1. UNCHANGED <<wire, gw, typed>> /\ c \in Known(Now(b)) /\ (Is(BootEffect(p)) \/ Is(Effects(v)))
  BY DEF Open, Known, Now
<1>2. CASE Is(BootEffect(p))
  <2>1. PhoneOK(p, Now(b)) /\ Onward(Phone, p)
    BY <1>0, <1>1 DEF PhoneOK, PhoneShape, SoundPhone, Fits, Onward, TrailsFit
  <2> HIDE DEF p
  <2>2. PhoneOK(BootEffect(p), Now(b)) /\ Onward(p, BootEffect(p))
    BY <2>1, BootEffectOK
  <2>3. QED
    BY <1>1, <1>2, <2>1, <2>2, SameTyped, PhoneSteps DEF Onward
<1>3. CASE Is(Effects(v))
  <2>1. /\ PhoneShape(v) /\ v.s = s /\ v.screen.booting = screen.booting /\ v.screen.trailing = screen.trailing
        /\ v.screen.visit = screen.visit + 1 /\ v.screen.intent = c
    BY DEF Has, World, Shaped, PhoneShape, Phone
  <2> HIDE DEF v
  <2>2. PhoneOK(v, Now(b)) /\ Onward(Phone, v) /\ (Clean(v.s, Now(b)) => NoneSyncs(v))
    BY <1>1, <2>1, VisitOK
  <2>3. PhoneOK(Effects(v), Now(b)) /\ Onward(v, Effects(v))
    BY <2>2, EffectsOK
  <2>4. QED
    BY <1>1, <1>3, <2>2, <2>3, SameTyped, PhoneSteps DEF Onward
<1>4. QED
  BY <1>1, <1>2, <1>3

LEMMA ReturnOK ==
  ASSUME NEW b \in BOOLEAN, Has(b), Return
  PROVE  Gets(b)
<1> DEFINE v == [Phone EXCEPT !.screen.shown = TRUE, !.screen.visit = @ + 1]
<1>1. UNCHANGED <<wire, gw, typed>> /\ Is(Effects(v))
  BY DEF Return
<1>2. /\ PhoneShape(v) /\ v.s = s /\ v.screen.booting = screen.booting /\ v.screen.trailing = screen.trailing
      /\ v.screen.visit = screen.visit + 1 /\ v.screen.intent = screen.intent
  BY DEF Has, World, Shaped, PhoneShape, Phone
<1>3. Clean(s, Now(b)) => screen.intent \in Known(Now(b)) \cup {None}
  BY DEF Has, World, SoundPhone, Phone
<1> HIDE DEF v
<1>4. PhoneOK(v, Now(b)) /\ Onward(Phone, v) /\ (Clean(v.s, Now(b)) => NoneSyncs(v))
  BY <1>2, <1>3, VisitOK
<1>5. PhoneOK(Effects(v), Now(b)) /\ Onward(v, Effects(v))
  BY <1>4, EffectsOK
<1>6. QED
  BY <1>1, <1>4, <1>5, SameTyped, PhoneSteps DEF Onward

\* The screen goes, and with it the effect that watched the socket.
LEMMA Unwatched ==
  ASSUME NEW b \in BOOLEAN, Has(b), DOMAIN screen' = DOMAIN screen, screen'.booting = screen.booting,
         screen'.trailing = screen.trailing, screen'.visit = screen.visit, screen'.intent \in {screen.intent, None}, ~screen'.watching,
         StoreOK(s', Now(b)), Within(s, s')
  PROVE  PhoneOK(Phone', Now(b))
<1>1. PhoneShape(Phone') /\ (Clean(s', Now(b)) => Clean(s, Now(b)))
  BY WithinClean DEF Has, Shaped, StoreOK, PhoneShape, Phone
<1>2. Phone'.s = s' /\ Phone'.screen = screen'
  BY DEF Phone
<1>3. ASSUME Clean(s', Now(b)) PROVE SoundPhone(Phone', Now(b))
  <2>1. SoundPhone(Phone, Now(b)) /\ Phone.s = s /\ Phone.screen = screen
    BY <1>1, <1>3 DEF Has, Phone
  <2>2. \A call : call.k \in Plain => ~Opens(call) /\ ~Syncs(call)
    BY DEF Plain, Opens, Syncs
  <2>3. \A call \in s'.asked : Fits(Phone', call)
    BY <1>2, <2>1, <2>2 DEF SoundPhone, Fits, Within
  <2>4. \A x, y \in s'.asked : Opens(x) /\ Opens(y) => x = y
    BY <2>1, <2>2 DEF SoundPhone, Within
  <2>5. Sound(s', Now(b))
    BY <1>3 DEF StoreOK
  <2>6. QED
    BY <1>2, <2>1, <2>3, <2>4, <2>5 DEF SoundPhone, TrailsFit
<1>4. QED
  BY <1>1, <1>2, <1>3 DEF PhoneOK

LEMMA LeaveOK ==
  ASSUME NEW b \in BOOLEAN, Has(b), Leave
  PROVE  Gets(b)
<1>0. PhoneOK(Phone, Now(b)) /\ Phone.s = s /\ Phone.screen = screen
  BY InvPhone
<1>1. /\ DOMAIN screen' = DOMAIN screen /\ screen'.booting = screen.booting /\ screen'.trailing = screen.trailing
      /\ screen'.visit = screen.visit /\ screen'.intent = None /\ ~screen'.watching
      /\ UNCHANGED <<s, inbox, wire, gw, typed>>
  BY DEF Leave, Has, World, Shaped
<1>2. StoreOK(s', Now(b)) /\ Within(s, s')
  BY <1>1, <1>0 DEF PhoneOK, PhoneShape, SoundPhone, StoreOK, Within
<1>3. PhoneOK(Phone', Now(b)) /\ Then(b) = Now(b)
  BY <1>1, <1>2, Unwatched, SameNow
<1>4. Clean(s', Then(b)) => NextWorld(b)
  BY <1>1, <1>3 DEF Has, World, NextWorld
<1>5. QED
  BY <1>3, <1>4 DEF Gets

LEMMA NewChatOK ==
  ASSUME NEW b \in BOOLEAN, Has(b), NewChat
  PROVE  Gets(b)
<1>0. PhoneOK(Phone, Now(b)) /\ Phone.s = s /\ Phone.screen = screen
  BY InvPhone
<1> DEFINE q == StartNew(Phone, screen.visit)
<1>1. PhoneOK(q, Now(b)) /\ Onward(Phone, q)
  <2>1. Clean(Phone.s, Now(b)) => Boots(Phone, screen.visit)
    BY <1>0 DEF PhoneOK, SoundPhone, Boots
  <2>2. QED
    BY <1>0, <2>1, StartNewOK
<1>2. Is(q) /\ UNCHANGED <<wire, gw, typed>>
  BY DEF NewChat
<1> HIDE DEF q
<1>3. QED
  BY <1>1, <1>2, SameTyped, PhoneSteps

\* A step of the store alone.
LEMMA StoreSteps ==
  ASSUME NEW b \in BOOLEAN, Has(b), NEW y, Is([Phone EXCEPT !.s = y]), StoreOK(y, Then(b)), Within(s, y),
         UNCHANGED <<wire, gw>>, Clean(s, Now(b)) => TypedOK(typed') /\ Later(Now(b), Then(b))
  PROVE  Gets(b)
<1>0. PhoneOK(Phone, Now(b)) /\ Phone.s = s /\ Phone.screen = screen
  BY InvPhone
<1>1. CASE Clean(s, Now(b))
  <2>1. PhoneOK(Phone, Then(b)) /\ Phone.s = s
    BY <1>1, <1>0, PhoneStaysOK
  <2>2. PhoneOK([Phone EXCEPT !.s = y], Then(b)) /\ Onward(Phone, [Phone EXCEPT !.s = y])
    BY <2>1, StoreMoves
  <2>3. QED
    BY <2>2, PhoneSteps
<1>2. CASE ~Clean(s, Now(b))
  <2>1. PhoneOK(Phone, Then(b)) /\ Phone.s = s
    BY <1>2, <1>0, CleanThen DEF PhoneOK
  <2>2. PhoneOK([Phone EXCEPT !.s = y], Then(b)) /\ Onward(Phone, [Phone EXCEPT !.s = y])
    BY <2>1, StoreMoves
  <2>3. QED
    BY <2>2, PhoneSteps
<1>3. QED
  BY <1>1, <1>2

LEMMA InvStore ==
  ASSUME NEW b \in BOOLEAN, Has(b)
  PROVE  StoreOK(s, Now(b)) /\ (Clean(s, Now(b)) /\ s.h # None => s.here \in Conv)
<1>0. PhoneOK(Phone, Now(b)) /\ Phone.s = s /\ Phone.screen = screen
  BY InvPhone
<1>1. StoreOK(s, Now(b))
  BY <1>0 DEF PhoneOK, PhoneShape, SoundPhone, StoreOK
<1>2. QED
  BY <1>1 DEF StoreOK, Sound, Handles

LEMMA StoreLater ==
  ASSUME NEW t, NEW u, NEW x, StoreOK(x, t), t.strict <=> u.strict, Clean(x, t) => Later(t, u)
  PROVE  StoreOK(x, u)
<1>1. SUFFICES ASSUME Clean(x, t), t.strict <=> u.strict PROVE Sound(x, u)
  BY DEF StoreOK, Clean
<1>2. Sound(x, t) /\ Later(t, u)
  BY <1>1 DEF StoreOK
<1>3. x.rows \in Seq(OwnRow(u, x.here))
  BY <1>2, OwnGrows, SeqGrows DEF Sound
<1>4. /\ \A call \in x.asked : CallOwn(u, call)
      /\ SheetClean(x, t) => \A call \in x.asked : SheetOwn(u, call)
  BY <1>2, CallsStayOwn DEF Sound
<1>5. Own(t, x.here) \subseteq Own(u, x.here)
  BY <1>2, OwnGrows
<1>6. SheetClean(x, t) => x.sheet \in [p : Own(u, x.here), srq : BOOLEAN] \cup {None}
  BY <1>2, <1>5 DEF Sound
<1>7. Known(t) \subseteq Known(u)
  BY <1>2 DEF Later
<1>8. SheetClean(x, u) <=> SheetClean(x, t)
  BY DEF SheetClean
<1>9. QED
  BY <1>2, <1>3, <1>4, <1>5, <1>6, <1>7, <1>8 DEF Sound

\* A prompt that is new is at home where it was typed.
LEMMA NewPrompt ==
  ASSUME NEW b \in BOOLEAN, Has(b), NEW p \in Prompt, typed[p] = None, s.h # None,
         typed' = [typed EXCEPT ![p] = s.here], UNCHANGED gw
  PROVE  /\ Clean(s, Now(b)) => TypedOK(typed') /\ Later(Now(b), Then(b)) /\ p \in Own(Then(b), s.here)
         /\ StoreOK(s, Then(b))
<1>1. ASSUME Clean(s, Now(b))
      PROVE  TypedOK(typed') /\ Later(Now(b), Then(b)) /\ p \in Own(Then(b), s.here)
  <2>1. TypedOK(typed) /\ s.here \in Conv
    BY <1>1, InvStore DEF Has, World
  <2>2. QED
    BY <2>1, TypingIsLater
<1>2. Now(b).strict <=> Then(b).strict
  BY DEF Now, Then
<1>3. StoreOK(s, Now(b))
  BY InvStore
<1>4. StoreOK(s, Then(b))
  BY <1>1, <1>2, <1>3, StoreLater
<1>5. QED
  BY <1>1, <1>4

LEMMA TypedOneOK ==
  ASSUME NEW b \in BOOLEAN, Has(b), NEW p \in Prompt, Type(p)
  PROVE  Gets(b)
<1>0. PhoneOK(Phone, Now(b)) /\ Phone.s = s /\ Phone.screen = screen
  BY InvPhone
<1> DEFINE y == SubmitPrompt(s, p, FALSE)
<1>1. /\ typed[p] = None /\ s.h # None /\ typed' = [typed EXCEPT ![p] = s.here]
      /\ Is([Phone EXCEPT !.s = y]) /\ UNCHANGED <<wire, gw>>
  BY <1>0 DEF Type
<1>2. /\ Clean(s, Now(b)) => TypedOK(typed') /\ Later(Now(b), Then(b)) /\ p \in Own(Then(b), s.here)
      /\ StoreOK(s, Then(b))
  BY <1>1, NewPrompt
<1>3. StoreOK(y, Then(b)) /\ Within(s, y)
  BY <1>2, CleanThen, SubmitWithin
<1> HIDE DEF y
<1>4. QED
  BY <1>1, <1>2, <1>3, StoreSteps

LEMMA SendAgainOK ==
  ASSUME NEW b \in BOOLEAN, Has(b), SendAgain
  PROVE  Gets(b)
<1>0. PhoneOK(Phone, Now(b)) /\ Phone.s = s /\ Phone.screen = screen
  BY InvPhone
<1>1. UNCHANGED <<wire, gw, typed>>
  BY DEF SendAgain
<1>2. StoreOK(s, Then(b)) /\ (Clean(s, Now(b)) => TypedOK(typed') /\ Later(Now(b), Then(b)))
  BY <1>1, InvStore, SameTyped
<1>3. CASE s.queued # None /\ Is([Phone EXCEPT !.s = SendNow(s)])
  <2>1. StoreOK(SendNow(s), Then(b)) /\ Within(s, SendNow(s))
    BY <1>2, <1>3, SendNowWithin
  <2>2. QED
    BY <1>1, <1>2, <1>3, <2>1, StoreSteps
<1>4. CASE \E i \in DOMAIN s.rows : s.rows[i][1] = "failed" /\ Is([Phone EXCEPT !.s = ResendFailed(s, i)])
  <2>1. PICK i \in DOMAIN s.rows : s.rows[i][1] = "failed" /\ Is([Phone EXCEPT !.s = ResendFailed(s, i)])
    BY <1>4
  <2>2. StoreOK(ResendFailed(s, i), Then(b)) /\ Within(s, ResendFailed(s, i))
    BY <1>2, <2>1, ResendFailedWithin
  <2>3. QED
    BY <1>1, <1>2, <2>1, <2>2, StoreSteps
<1>5. QED
  BY <1>3, <1>4, <1>0 DEF SendAgain

LEMMA AgainOK ==
  ASSUME NEW b \in BOOLEAN, Has(b), Again
  PROVE  Gets(b)
<1>1. s.h # None /\ UNCHANGED <<wire, gw>>
  BY DEF Again
<1>2. PICK i \in DOMAIN s.rows :
        /\ s.rows[i][1] \in UserKinds
        /\ \/ Is([Phone EXCEPT !.s = Rewind(Counted, i, s.rows[i][2])]) /\ UNCHANGED typed
           \/ \E p \in Prompt : /\ typed[p] = None /\ typed' = [typed EXCEPT ![p] = s.here]
                                /\ Is([Phone EXCEPT !.s = Rewind(Counted, i, p)])
  BY DEF Again
<1>3. ASSUME NEW t, StoreOK(s, t), NEW p, Clean(s, t) => p \in Own(t, s.here)
      PROVE  StoreOK(Rewind(Counted, i, p), t) /\ Within(s, Rewind(Counted, i, p))
  <2>1. StoreOK(Counted, t) /\ Within(s, Counted) /\ Counted.rows = s.rows
    BY <1>3, CrossWithin DEF Counted, StoreOK, Within, Cross, Shape
  <2> HIDE DEF Counted
  <2>2. /\ i \in DOMAIN Counted.rows /\ Counted.h # None
        /\ Clean(Counted, t) => p \in Own(t, Counted.here)
    BY <1>1, <1>3, <2>1, WithinClean DEF Within
  <2>3. QED
    BY <2>1, <2>2, RewindWithin, WithinTwice
<1>4. CASE Is([Phone EXCEPT !.s = Rewind(Counted, i, s.rows[i][2])]) /\ UNCHANGED typed
  <2>1. StoreOK(s, Then(b)) /\ (Clean(s, Now(b)) => TypedOK(typed') /\ Later(Now(b), Then(b)))
    BY <1>1, <1>4, InvStore, SameTyped
  <2>2. Clean(s, Then(b)) => s.rows[i] \in OwnRow(Then(b), s.here)
    BY <2>1 DEF StoreOK, Sound
  <2>3. Clean(s, Then(b)) => s.rows[i][2] \in Own(Then(b), s.here)
    BY <1>2, <2>2 DEF OwnRow, TurnRow, UserKinds
  <2>4. QED
    BY <1>1, <1>3, <1>4, <2>1, <2>3, StoreSteps
<1>5. CASE \E p \in Prompt : /\ typed[p] = None /\ typed' = [typed EXCEPT ![p] = s.here]
                             /\ Is([Phone EXCEPT !.s = Rewind(Counted, i, p)])
  <2>1. PICK p \in Prompt : /\ typed[p] = None /\ typed' = [typed EXCEPT ![p] = s.here]
                            /\ Is([Phone EXCEPT !.s = Rewind(Counted, i, p)])
    BY <1>5
  <2>2. /\ Clean(s, Now(b)) => TypedOK(typed') /\ Later(Now(b), Then(b)) /\ p \in Own(Then(b), s.here)
        /\ StoreOK(s, Then(b))
    BY <1>1, <2>1, NewPrompt
  <2>3. Clean(s, Then(b)) => p \in Own(Then(b), s.here)
    BY <2>2, CleanThen
  <2>4. QED
    BY <1>1, <1>3, <2>1, <2>2, <2>3, StoreSteps
<1>6. QED
  BY <1>2, <1>4, <1>5

LEMMA InterruptOK ==
  ASSUME NEW b \in BOOLEAN, Has(b), Interrupt
  PROVE  Gets(b)
<1>0. PhoneOK(Phone, Now(b)) /\ Phone.s = s /\ Phone.screen = screen
  BY InvPhone
<1> DEFINE call == [k |-> "stop", h |-> s.h]
<1>1. s.h # None /\ Is([Phone EXCEPT !.s = Call(s, call)]) /\ UNCHANGED <<wire, gw, typed>>
  BY <1>0 DEF Interrupt
<1>2. StoreOK(s, Then(b)) /\ (Clean(s, Now(b)) => TypedOK(typed') /\ Later(Now(b), Then(b)))
  BY <1>1, InvStore, SameTyped
<1>3. call.k \in Plain /\ SheetOwn(Then(b), call) /\ (Clean(s, Then(b)) => CallOwn(Then(b), call))
  BY <1>1, <1>2 DEF Plain, SheetOwn, CallOwn, StoreOK, Sound
<1> HIDE DEF call
<1>4. StoreOK(Call(s, call), Then(b)) /\ Within(s, Call(s, call))
  BY <1>2, <1>3, CallWithin
<1>5. QED
  BY <1>1, <1>2, <1>4, StoreSteps

LEMMA ApproveOK ==
  ASSUME NEW b \in BOOLEAN, Has(b), Approve
  PROVE  Gets(b)
<1>0. PhoneOK(Phone, Now(b)) /\ Phone.s = s /\ Phone.screen = screen
  BY InvPhone
<1>1. s.h # None /\ s.sheet # None /\ Is([Phone EXCEPT !.s = Respond(s)]) /\ UNCHANGED <<wire, gw, typed>>
  BY <1>0 DEF Approve
<1>2. StoreOK(s, Then(b)) /\ (Clean(s, Now(b)) => TypedOK(typed') /\ Later(Now(b), Then(b)))
  BY <1>1, InvStore, SameTyped
<1>3. StoreOK(Respond(s), Then(b)) /\ Within(s, Respond(s))
  BY <1>1, <1>2, RespondWithin
<1>4. QED
  BY <1>1, <1>2, <1>3, StoreSteps

LEMMA WorldStays ==
  ASSUME NEW b \in BOOLEAN, Has(b), UNCHANGED <<wire, gw, typed>>
  PROVE  Clean(s, Now(b)) => /\ TypedOK(typed') /\ WireOK(wire', Then(b)) /\ GatewayOK(gw', Then(b))
                             /\ \A call \in inbox : CallOwn(Then(b), Of(call))
<1>1. Then(b) = Now(b)
  BY SameNow
<1>2. QED
  BY <1>1 DEF Has, World, InboxOK

LEMMA PhoneIs ==
  ASSUME NEW t, NEW q, PhoneOK(q, t), s' = q.s, screen' = q.screen
  PROVE  PhoneOK(Phone', t)
<1>1. Phone'.s = q.s /\ Phone'.screen = q.screen /\ DOMAIN Phone' = {"s", "screen"}
  BY DEF Phone
<1>2. QED
  BY <1>1, SamePhone DEF SameScreen

LEMMA AddNoticeOK ==
  ASSUME NEW b \in BOOLEAN, Has(b), AddNotice
  PROVE  Gets(b)
<1>0. PhoneOK(Phone, Now(b)) /\ Phone.s = s /\ Phone.screen = screen
  BY InvPhone
<1> DEFINE y == [s EXCEPT !.rows = Append(@, <<"note", None>>)]
           q == [Phone EXCEPT !.s = y]
<1>1. s' = y /\ UNCHANGED <<screen, inbox, wire, gw, typed>>
  BY DEF AddNotice
<1>2. Clean(s, Now(b)) => Append(s.rows, <<"note", None>>) \in Seq(OwnRow(Now(b), s.here))
  <2>1. <<"note", None>> \in OwnRow(Now(b), s.here)
    BY DEF OwnRow, TurnRow
  <2>2. QED
    BY <2>1, InvStore DEF StoreOK, Sound
<1>3. StoreOK(y, Now(b)) /\ Within(s, y)
  BY <1>2, InvStore DEF StoreOK, Within, Shape, Clean, Sound, SheetClean
<1>4. q.s = y /\ q.screen = screen
  BY DEF Phone
<1> HIDE DEF y
<1>5. PhoneOK(q, Now(b))
  BY <1>3, <1>0, StoreMoves
<1> HIDE DEF q
<1>6. PhoneOK(Phone', Then(b))
  BY <1>1, <1>4, <1>5, PhoneIs, SameNow
<1>7. Clean(s', Then(b)) => NextWorld(b)
  BY <1>1, <1>3, WithinClean, CleanThen, WorldStays DEF NextWorld, InboxOK
<1>8. QED
  BY <1>6, <1>7 DEF Gets

LEMMA CallFailsOK ==
  ASSUME NEW b \in BOOLEAN, Has(b), CallFails
  PROVE  Gets(b)
<1>0. PhoneOK(Phone, Now(b)) /\ Phone.s = s /\ Phone.screen = screen
  BY InvPhone
<1>1. PICK call \in s.asked :
        LET p == Failed([Phone EXCEPT !.s.asked = @ \ {call}], call) IN s' = p.s /\ screen' = p.screen
  BY DEF CallFails
<1> DEFINE known == [Phone EXCEPT !.s.asked = @ \ {call}]
           p == Failed(known, call)
<1>2. s' = p.s /\ screen' = p.screen /\ UNCHANGED <<inbox, wire, gw, typed>>
  BY <1>1 DEF CallFails
<1>3. PhoneOK(known, Now(b)) /\ Onward(Phone, known) /\ (Clean(s, Now(b)) => Pending(known, Now(b), call))
  <2>1. call \in Phone.s.asked
    BY <1>0
  <2>2. /\ PhoneOK(known, Now(b)) /\ Onward(Phone, known)
        /\ Clean(Phone.s, Now(b)) => Pending(known, Now(b), call)
    BY <1>0, <2>1, TakeOK
  <2>3. QED
    BY <1>0, <2>2
<1> HIDE DEF known
<1>4. PhoneOK(p, Now(b)) /\ Onward(known, p)
  BY <1>3, <1>0, OnwardClean, FailedOK
<1> HIDE DEF p
<1>5. PhoneOK(Phone', Then(b))
  BY <1>2, <1>4, PhoneIs, SameNow
<1>6. Clean(s', Then(b)) => Clean(s, Now(b))
  BY <1>2, <1>3, <1>4, CleanThen, <1>0, OnwardClean
<1>7. Clean(s', Then(b)) => NextWorld(b)
  BY <1>2, <1>6, WorldStays DEF NextWorld, InboxOK
<1>8. QED
  BY <1>5, <1>7 DEF Gets

LEMMA TimeOutOK ==
  ASSUME NEW b \in BOOLEAN, Has(b), TimeOut
  PROVE  Gets(b)
<1>0. PhoneOK(Phone, Now(b)) /\ Phone.s = s /\ Phone.screen = screen
  BY InvPhone
<1>1. PICK call \in s.asked \cap inbox :
        LET p == Failed([Phone EXCEPT !.s.asked = @ \ {call}], call)
        IN  /\ s' = p.s /\ screen' = p.screen
            /\ \E late \in SUBSET Felt({call}) :
                 inbox' = (inbox \ {call}) \cup (p.s.asked \ s.asked) \cup {Orphan(c) : c \in late}
  BY DEF TimeOut
<1> DEFINE known == [Phone EXCEPT !.s.asked = @ \ {call}]
           p == Failed(known, call)
<1>2. s' = p.s /\ screen' = p.screen /\ UNCHANGED <<wire, gw, typed>>
  BY <1>1 DEF TimeOut
<1>3. inbox' \subseteq inbox \cup p.s.asked \cup {Orphan(call)}
  BY <1>1 DEF Felt
<1>4. PhoneOK(known, Now(b)) /\ Onward(Phone, known) /\ (Clean(s, Now(b)) => Pending(known, Now(b), call))
  <2>1. call \in Phone.s.asked
    BY <1>0
  <2>2. /\ PhoneOK(known, Now(b)) /\ Onward(Phone, known)
        /\ Clean(Phone.s, Now(b)) => Pending(known, Now(b), call)
    BY <1>0, <2>1, TakeOK
  <2>3. QED
    BY <1>0, <2>2
<1> HIDE DEF known
<1>5. PhoneOK(p, Now(b)) /\ Onward(known, p)
  BY <1>4, <1>0, OnwardClean, FailedOK
<1> HIDE DEF p
<1>6. PhoneOK(Phone', Then(b)) /\ Then(b) = Now(b)
  BY <1>2, <1>5, PhoneIs, SameNow
<1>7. Clean(s', Then(b)) => Clean(s, Now(b)) /\ Clean(p.s, Now(b))
  BY <1>2, <1>4, <1>5, <1>6, <1>0, OnwardClean
<1>8. Clean(s', Then(b)) => InboxOK(inbox', Then(b))
  <2>1. SUFFICES ASSUME Clean(s', Then(b)), NEW c \in inbox' PROVE CallOwn(Then(b), Of(c))
    BY DEF InboxOK, Of
  <2>2. CASE c \in inbox
    BY <1>2, <1>7, <2>1, <2>2, WorldStays
  <2>3. CASE c \in p.s.asked
    BY <1>5, <1>6, <1>7, <2>1, <2>3 DEF PhoneOK, SoundPhone, Sound, CallOwn, Of
  <2>4. CASE c = Orphan(call)
    <3>1. CallOwn(Now(b), call)
      BY <1>4, <1>7, <2>1 DEF Pending
    <3>2. Of(c) = call
      BY <2>4 DEF Of, Orphan
    <3>3. QED
      BY <1>6, <3>1, <3>2
  <2>5. QED
    BY <1>3, <2>1, <2>2, <2>3, <2>4
<1>9. Clean(s', Then(b)) => NextWorld(b)
  BY <1>2, <1>7, <1>8, WorldStays DEF NextWorld
<1>10. QED
  BY <1>6, <1>9 DEF Gets

-----------------------------------------------------------------------------
(* The gateway *)

\* Nobody starts a conversation.
LEMMA NobodyBorn ==
  ASSUME NEW b \in BOOLEAN, UNCHANGED typed, \A c \in Conv : gw'[c].born = gw[c].born
  PROVE  Then(b) = Now(b) /\ Later(Now(b), Then(b))
<1>1. {c \in Conv : gw'[c].born} = {c \in Conv : gw[c].born}
  OBVIOUS
<1>2. Then(b) = Now(b)
  BY <1>1 DEF Then, Now
<1>3. QED
  BY <1>2 DEF Later

LEMMA EmptyWire ==
  ASSUME NEW t, wire' = <<>>
  PROVE  WireOK(wire', t)
<1>1. Range(wire') = {}
  BY DEF Range
<1>2. wire' \in Seq({})
  OBVIOUS
<1>3. QED
  BY <1>1, <1>2 DEF WireOK

LEMMA DropOK ==
  ASSUME NEW b \in BOOLEAN, Has(b), Drop
  PROVE  Gets(b)
<1>1. PICK arrived \in SUBSET Felt(inbox) :
        inbox' = {call \in inbox : call.k = "orphan"} \cup {Orphan(call) : call \in arrived}
  BY DEF Drop
<1>2. /\ s' = [s EXCEPT !.up = FALSE, !.held = {}] /\ screen' = [screen EXCEPT !.watching = FALSE]
      /\ wire' = <<>> /\ gw' = [c \in Conv |-> [gw[c] EXCEPT !.on = FALSE]] /\ UNCHANGED typed
  BY DEF Drop
<1>3. StoreOK(s', Now(b)) /\ Within(s, s')
  BY <1>2, InvStore DEF StoreOK, Within, Shape, Clean, Sound, SheetClean
<1>4. PhoneOK(Phone', Now(b))
  <2>1. /\ DOMAIN screen' = DOMAIN screen /\ screen'.booting = screen.booting /\ screen'.trailing = screen.trailing
        /\ screen'.visit = screen.visit /\ screen'.intent = screen.intent /\ ~screen'.watching
    BY <1>2 DEF Has, World, Shaped
  <2>2. QED
    BY <1>2, <1>3, <2>1, Unwatched
<1>5. Clean(s', Then(b)) => Clean(s, Now(b))
  BY <1>3, CleanThen, WithinClean
<1>6. Clean(s, Now(b)) => InboxOK(inbox', Now(b))
  <2>1. SUFFICES ASSUME Clean(s, Now(b)), NEW c \in inbox' PROVE CallOwn(Now(b), Of(c))
    BY <1>2 DEF InboxOK, Of
  <2>2. CASE c \in inbox
    BY <2>1, <2>2 DEF Has, World, InboxOK
  <2>3. CASE \E call \in arrived : c = Orphan(call)
    <3>1. PICK call \in arrived : c = Orphan(call)
      BY <2>3
    <3>2. call \in inbox /\ call.k # "orphan"
      BY DEF Felt
    <3>3. Of(c) = Of(call)
      BY <3>1, <3>2 DEF Of, Orphan
    <3>4. QED
      BY <2>1, <3>2, <3>3 DEF Has, World, InboxOK
  <2>4. QED
    BY <1>1, <2>1, <2>2, <2>3
<1>7. Clean(s, Now(b)) => GatewayOK(gw', Now(b))
  BY <1>2 DEF Has, World, GatewayOK, Conversation
<1>8. Clean(s, Now(b)) => TypedOK(typed')
  BY <1>2 DEF Has, World, TypedOK
<1>9. Clean(s, Now(b)) => Then(b) = Now(b)
  <2>1. ASSUME Clean(s, Now(b)), NEW c \in Conv PROVE gw'[c].born = gw[c].born
    BY <1>2, <2>1 DEF Has, World, GatewayOK, Conversation
  <2>2. QED
    BY <1>2, <2>1, NobodyBorn
<1>10. PhoneOK(Phone', Then(b))
  <2>1. Phone'.s = s'
    BY DEF Phone
  <2>2. QED
    BY <1>4, <1>5, <1>9, <2>1, CleanThen DEF PhoneOK
<1>11. QED
  BY <1>2, <1>5, <1>6, <1>7, <1>8, <1>9, <1>10, EmptyWire, CleanThen DEF Gets, NextWorld

\* A step of the gateway alone.
LEMMA GatewaySteps ==
  ASSUME NEW b \in BOOLEAN, Has(b), UNCHANGED <<s, screen, typed>>,
         Clean(s, Now(b)) => /\ Later(Now(b), Then(b))
                             /\ InboxOK(inbox', Then(b)) /\ WireOK(wire', Then(b)) /\ GatewayOK(gw', Then(b))
  PROVE  Gets(b)
<1>1. PhoneOK(Phone, Now(b)) /\ Phone.s = s /\ Phone.screen = screen
  BY InvPhone
<1>2. PhoneOK(Phone, Then(b))
  <2>1. CASE Clean(s, Now(b))
    BY <1>1, <2>1, PhoneStaysOK
  <2>2. CASE ~Clean(s, Now(b))
    BY <1>1, <2>2, CleanThen DEF PhoneOK
  <2>3. QED
    BY <2>1, <2>2
<1>3. PhoneOK(Phone', Then(b))
  BY <1>1, <1>2, PhoneIs
<1>4. Clean(s', Then(b)) => NextWorld(b)
  BY CleanThen DEF Has, World, NextWorld, TypedOK
<1>5. QED
  BY <1>3, <1>4 DEF Gets

LEMMA SeqSingle ==
  ASSUME NEW S, NEW e \in S
  PROVE  <<e>> \in Seq(S)
OBVIOUS

LEMMA WireGrows ==
  ASSUME NEW t, WireOK(wire, t), NEW S, \A f \in S : FrameOwn(t, f), NEW q \in Seq(S), wire' = wire \o q
  PROVE  WireOK(wire', t)
<1> DEFINE T == Range(wire) \cup S
<1>1. wire \in Seq(T) /\ q \in Seq(T) /\ \A f \in T : FrameOwn(t, f)
  BY SeqGrows DEF WireOK
<1>2. wire' \in Seq(T)
  BY <1>1
<1>3. wire' \in Seq(Range(wire')) /\ Range(wire') \subseteq T
  BY <1>2, FramesOfSeq
<1>4. QED
  BY <1>1, <1>3 DEF WireOK

LEMMA GatewayStays ==
  ASSUME NEW t, GatewayOK(gw, t), NEW c \in Conv, NEW g \in Conversation(t, c), gw' = [gw EXCEPT ![c] = g]
  PROVE  GatewayOK(gw', t)
BY DEF GatewayOK

LEMMA EventOwn ==
  ASSUME NEW t, GatewayOK(gw, t), NEW c \in Conv, NEW p \in Own(t, c), NEW kind, NEW stopped \in BOOLEAN
  PROVE  /\ kind \in {"start", "work", "complete", "ask", "cancel"} => FrameOwn(t, Event(c, kind, p, stopped))
         /\ kind \in {"work", "complete"} => Event(c, kind, p, stopped) \in OwnEvent(t)
<1>1. Handle(c) \in Handles /\ Handle(c)[1] = c
  BY DEF GatewayOK, Conversation, Handle, Handles
<1>2. p \in Prompt
  BY DEF Own
<1>3. Event(c, kind, p, stopped) = [t |-> kind, h |-> Handle(c), p |-> p, stopped |-> stopped]
  BY DEF Event
<1>4. kind \in {"start", "work", "complete", "ask", "cancel"} => FrameOwn(t, Event(c, kind, p, stopped))
  BY <1>1, <1>3 DEF FrameOwn
<1>5. kind \in {"work", "complete"} => Event(c, kind, p, stopped) \in OwnEvent(t)
  BY <1>1, <1>2, <1>3 DEF OwnEvent
<1>6. QED
  BY <1>4, <1>5

\* To a socket, or to nobody.
LEMMA ToldOK ==
  ASSUME NEW t, WireOK(wire, t), NEW f, FrameOwn(t, f), NEW g, wire' = Told(g, <<f>>)
  PROVE  WireOK(wire', t)
<1>1. CASE g.on
  BY <1>1, SeqSingle, WireGrows DEF Told
<1>2. CASE ~g.on
  BY <1>2 DEF Told, WireOK
<1>3. QED
  BY <1>1, <1>2

\* The parts of a conversation of the gateway.
TurnType(t, c) == [p : Own(t, c), worked : BOOLEAN, ask : {"no", "open", "over"}] \cup {None}

LEMMA ConversationParts ==
  ASSUME NEW t, GatewayOK(gw, t), NEW c \in Conv
  PROVE  /\ gw[c] \in Conversation(t, c)
         /\ gw[c].born \in BOOLEAN /\ gw[c].up \in BOOLEAN /\ gw[c].run \in Nat /\ gw[c].on \in BOOLEAN
         /\ gw[c].hist \in Seq(TurnRow(t, c)) /\ gw[c].ring \in Seq(OwnEvent(t))
         /\ gw[c].turn \in TurnType(t, c)
         /\ gw[c].turn # None => gw[c].turn.p \in Own(t, c)
BY DEF GatewayOK, Conversation, TurnType

\* One conversation of the gateway moves on.
LEMMA GatewayMoves ==
  ASSUME NEW b \in BOOLEAN, Has(b), UNCHANGED <<s, screen, typed>>, inbox' \subseteq inbox, NEW c \in Conv, NEW g,
         Clean(s, Now(b)) => /\ g \in Conversation(Now(b), c) /\ g.born = gw[c].born
                             /\ gw' = [gw EXCEPT ![c] = g] /\ WireOK(wire', Now(b))
  PROVE  Gets(b)
<1>1. SUFFICES ASSUME Clean(s, Now(b))
               PROVE  /\ Later(Now(b), Then(b))
                      /\ InboxOK(inbox', Then(b)) /\ WireOK(wire', Then(b)) /\ GatewayOK(gw', Then(b))
  BY GatewaySteps
<1>2. GatewayOK(gw, Now(b)) /\ InboxOK(inbox, Now(b))
  BY <1>1 DEF Has, World
<1>3. Then(b) = Now(b) /\ Later(Now(b), Then(b))
  <2>1. \A d \in Conv : gw'[d].born = gw[d].born
    BY <1>1, <1>2 DEF GatewayOK
  <2>2. QED
    BY <2>1, NobodyBorn
<1>4. GatewayOK(gw', Now(b))
  BY <1>1, <1>2, GatewayStays
<1>5. InboxOK(inbox', Now(b))
  BY <1>2 DEF InboxOK
<1>6. QED
  BY <1>1, <1>3, <1>4, <1>5

LEMMA WorkOK ==
  ASSUME NEW b \in BOOLEAN, Has(b), NEW c \in Conv, Work(c)
  PROVE  Gets(b)
<1> DEFINE g == gw[c]
           f == Event(c, "work", g.turn.p, FALSE)
           turn == [g.turn EXCEPT !.worked = TRUE]
           new == [g EXCEPT !.turn = turn, !.ring = Append(@, f)]
<1>1. /\ g.turn # None /\ wire' = Told(g, <<f>>)
      /\ gw' = [gw EXCEPT ![c].turn.worked = TRUE, ![c].ring = Append(@, f)]
      /\ UNCHANGED <<s, screen, inbox, typed>>
  BY DEF Work
<1>2. Clean(s, Now(b)) => /\ new \in Conversation(Now(b), c) /\ new.born = gw[c].born
                          /\ gw' = [gw EXCEPT ![c] = new] /\ WireOK(wire', Now(b))
  <2>1. SUFFICES ASSUME Clean(s, Now(b))
                 PROVE  /\ new \in Conversation(Now(b), c) /\ new.born = gw[c].born
                        /\ gw' = [gw EXCEPT ![c] = new] /\ WireOK(wire', Now(b))
    OBVIOUS
  <2>2. WireOK(wire, Now(b)) /\ GatewayOK(gw, Now(b))
    BY <2>1 DEF Has, World
  <2>3. g.turn.p \in Own(Now(b), c) /\ turn \in TurnType(Now(b), c)
    BY <1>1, <2>2, ConversationParts DEF TurnType
  <2>4. f \in OwnEvent(Now(b)) /\ FrameOwn(Now(b), f)
    BY <2>2, <2>3, EventOwn
  <2>5. gw' = [gw EXCEPT ![c] = new]
    BY <1>1, <2>2 DEF GatewayOK
  <2> HIDE DEF f, turn
  <2>6. Append(g.ring, f) \in Seq(OwnEvent(Now(b)))
    BY <2>2, <2>4, ConversationParts
  <2>7. new \in Conversation(Now(b), c) /\ new.born = gw[c].born
    BY <2>2, <2>3, <2>6, ConversationParts DEF Conversation, TurnType
  <2>8. WireOK(wire', Now(b))
    BY <1>1, <2>2, <2>4, ToldOK
  <2>9. QED
    BY <2>5, <2>7, <2>8
<1> HIDE DEF new
<1>3. QED
  BY <1>1, <1>2, GatewayMoves

\* The approval of a turn is asked for, or over.
LEMMA AskMoves ==
  ASSUME NEW b \in BOOLEAN, Has(b), UNCHANGED <<s, screen, inbox, typed>>, NEW c \in Conv, gw[c].turn # None,
         NEW ask \in {"open", "over"}, NEW kind \in {"ask", "cancel"}, gw' = [gw EXCEPT ![c].turn.ask = ask],
         wire' = Told(gw[c], <<Event(c, kind, gw[c].turn.p, FALSE)>>)
  PROVE  Gets(b)
<1> DEFINE turn == [gw[c].turn EXCEPT !.ask = ask]
           new == [gw[c] EXCEPT !.turn = turn]
<1>1. Clean(s, Now(b)) => /\ new \in Conversation(Now(b), c) /\ new.born = gw[c].born
                          /\ gw' = [gw EXCEPT ![c] = new] /\ WireOK(wire', Now(b))
  <2>1. SUFFICES ASSUME Clean(s, Now(b))
                 PROVE  /\ new \in Conversation(Now(b), c) /\ new.born = gw[c].born
                        /\ gw' = [gw EXCEPT ![c] = new] /\ WireOK(wire', Now(b))
    OBVIOUS
  <2>2. WireOK(wire, Now(b)) /\ GatewayOK(gw, Now(b))
    BY <2>1 DEF Has, World
  <2>3. gw[c].turn.p \in Own(Now(b), c) /\ turn \in TurnType(Now(b), c)
    BY <2>2, ConversationParts DEF TurnType
  <2>4. FrameOwn(Now(b), Event(c, kind, gw[c].turn.p, FALSE))
    BY <2>2, <2>3, EventOwn
  <2>5. gw' = [gw EXCEPT ![c] = new]
    BY <2>2 DEF GatewayOK
  <2> HIDE DEF turn
  <2>6. new \in Conversation(Now(b), c) /\ new.born = gw[c].born
    BY <2>2, <2>3, ConversationParts DEF Conversation, TurnType
  <2>7. WireOK(wire', Now(b))
    BY <2>2, <2>4, ToldOK
  <2>8. QED
    BY <2>5, <2>6, <2>7
<1> HIDE DEF new
<1>2. QED
  BY <1>1, GatewayMoves

LEMMA AskUserOK ==
  ASSUME NEW b \in BOOLEAN, Has(b), NEW c \in Conv, AskUser(c) \/ Withdraw(c)
  PROVE  Gets(b)
<1>1. CASE AskUser(c)
  BY <1>1, AskMoves DEF AskUser
<1>2. CASE Withdraw(c)
  BY <1>2, AskMoves DEF Withdraw
<1>3. QED
  BY <1>1, <1>2

\* A turn that ends is history.
LEMMA EndOK ==
  ASSUME NEW t, GatewayOK(gw, t), NEW c \in Conv, gw[c].turn # None
  PROVE  End(c) \in Conversation(t, c) /\ End(c).ring = gw[c].ring /\ End(c).born = gw[c].born
<1> DEFINE p == gw[c].turn.p
           hist == gw[c].hist \o RowsOf(gw[c].turn)
<1>1. p \in Own(t, c)
  BY ConversationParts
<1>2. /\ <<"said", p>> \in TurnRow(t, c) /\ <<"tool", p>> \in TurnRow(t, c)
      /\ <<"reply", p>> \in TurnRow(t, c)
  BY <1>1 DEF TurnRow, Kinds
<1>3. RowsOf(gw[c].turn) \in Seq(TurnRow(t, c))
  <2>1. /\ <<<<"said", p>>>> \in Seq(TurnRow(t, c)) /\ <<<<"tool", p>>>> \in Seq(TurnRow(t, c))
        /\ <<<<"reply", p>>>> \in Seq(TurnRow(t, c)) /\ <<>> \in Seq(TurnRow(t, c))
    BY <1>2, SeqSingle, EmptyIsOwn
  <2>2. RowsOf(gw[c].turn) = (<<<<"said", p>>>> \o (IF gw[c].turn.worked THEN <<<<"tool", p>>>> ELSE <<>>)) \o <<<<"reply", p>>>>
    BY DEF RowsOf
  <2> HIDE DEF p
  <2>3. QED
    BY <2>1, <2>2, ConcatProperties
<1>4. hist \in Seq(TurnRow(t, c))
  BY <1>3, ConversationParts, ConcatProperties
<1>5. End(c) = [gw[c] EXCEPT !.turn = None, !.hist = hist]
  BY DEF End
<1> HIDE DEF hist, p
<1>6. QED
  BY <1>4, <1>5, ConversationParts DEF Conversation

LEMMA FinishOK ==
  ASSUME NEW b \in BOOLEAN, Has(b), UNCHANGED <<s, screen, typed>>, inbox' \subseteq inbox, NEW c \in Conv, gw[c].turn # None,
         NEW stopped \in BOOLEAN, Finish(c, stopped), Clean(s, Now(b)) => WireOK(wire', Now(b))
  PROVE  Gets(b)
<1> DEFINE f == Event(c, "complete", gw[c].turn.p, stopped)
           new == [End(c) EXCEPT !.ring = Append(@, f)]
<1>1. gw' = [gw EXCEPT ![c] = new]
  BY DEF Finish
<1>2. Clean(s, Now(b)) => new \in Conversation(Now(b), c) /\ new.born = gw[c].born
  <2>1. SUFFICES ASSUME GatewayOK(gw, Now(b)) PROVE new \in Conversation(Now(b), c) /\ new.born = gw[c].born
    BY DEF Has, World
  <2>2. f \in OwnEvent(Now(b))
    BY <2>1, ConversationParts, EventOwn
  <2> HIDE DEF f
  <2>3. Append(gw[c].ring, f) \in Seq(OwnEvent(Now(b)))
    BY <2>1, <2>2, ConversationParts
  <2>4. QED
    BY <2>1, <2>3, EndOK DEF Conversation
<1> HIDE DEF new
<1>3. QED
  BY <1>1, <1>2, GatewayMoves

LEMMA CompleteOwn ==
  ASSUME NEW t, GatewayOK(gw, t), NEW c \in Conv, gw[c].turn # None, NEW stopped \in BOOLEAN
  PROVE  FrameOwn(t, Event(c, "complete", gw[c].turn.p, stopped))
BY ConversationParts, EventOwn

LEMMA ReplyOK ==
  ASSUME NEW b \in BOOLEAN, Has(b), NEW c \in Conv, Reply(c)
  PROVE  Gets(b)
<1>1. /\ gw[c].turn # None /\ Finish(c, FALSE) /\ UNCHANGED <<s, screen, inbox, typed>>
      /\ wire' = Told(gw[c], <<Event(c, "complete", gw[c].turn.p, FALSE)>>)
  BY DEF Reply
<1>2. Clean(s, Now(b)) => WireOK(wire', Now(b))
  BY <1>1, CompleteOwn, ToldOK DEF Has, World
<1>3. QED
  BY <1>1, <1>2, FinishOK

LEMMA ReapOK ==
  ASSUME NEW b \in BOOLEAN, Has(b), NEW c \in Conv, Reap(c)
  PROVE  Gets(b)
<1> DEFINE over == IF gw[c].turn = None THEN gw[c] ELSE End(c)
           new == [over EXCEPT !.up = FALSE, !.ring = <<>>]
<1>1. gw' = [gw EXCEPT ![c] = new] /\ UNCHANGED <<s, screen, inbox, wire, typed>>
  BY DEF Reap
<1>2. Clean(s, Now(b)) => new \in Conversation(Now(b), c) /\ new.born = gw[c].born
  <2>1. SUFFICES ASSUME GatewayOK(gw, Now(b)) PROVE new \in Conversation(Now(b), c) /\ new.born = gw[c].born
    BY DEF Has, World
  <2>2. over \in Conversation(Now(b), c) /\ over.born = gw[c].born
    BY <2>1, ConversationParts, EndOK
  <2> HIDE DEF over
  <2>3. QED
    BY <2>2, EmptyIsOwn DEF Conversation
<1>3. Clean(s, Now(b)) => WireOK(wire', Now(b))
  BY <1>1 DEF Has, World, WireOK
<1> HIDE DEF new
<1>4. QED
  BY <1>1, <1>2, <1>3, GatewayMoves

LEMMA ServeOK ==
  ASSUME NEW t, WireOK(wire, t), NEW call, NEW ok, NEW res, NEW frames, Serve(call, ok, res, frames),
         call.k # "orphan" /\ ok => AnswerOwn(t, call, res),
         NEW S, \A f \in S : FrameOwn(t, f), frames \in Seq(S)
  PROVE  WireOK(wire', t)
<1> DEFINE answer == [t |-> "answer", call |-> call, ok |-> ok, res |-> res]
           T == S \cup {answer}
<1>1. wire' = (IF call.k = "orphan" THEN wire ELSE Append(wire, answer)) \o frames
  BY DEF Serve
<1>2. CASE call.k = "orphan"
  BY <1>1, <1>2, WireGrows
<1>3. CASE call.k # "orphan"
  <2>1. FrameOwn(t, answer)
    BY <1>3 DEF FrameOwn
  <2>2. <<answer>> \in Seq(T) /\ frames \in Seq(T)
    BY SeqSingle, SeqGrows
  <2> HIDE DEF answer
  <2>3. <<answer>> \o frames \in Seq(T)
    BY <2>2, ConcatProperties
  <2>4. wire \in Seq(Range(wire) \cup T)
    BY SeqGrows DEF WireOK
  <2>5. wire' = wire \o (<<answer>> \o frames)
    <3>1. wire' = Append(wire, answer) \o frames
      BY <1>1, <1>3
    <3>2. Append(wire, answer) = wire \o <<answer>>
      BY <2>4
    <3>3. frames \in Seq(Range(wire) \cup T) /\ <<answer>> \in Seq(Range(wire) \cup T)
      BY <2>2, SeqGrows
    <3>4. QED
      BY <2>4, <3>1, <3>2, <3>3, ConcatAssociative
  <2>6. QED
    BY <2>1, <2>3, <2>5, WireGrows
<1>4. QED
  BY <1>2, <1>3

\* An answer that comes alone.
LEMMA ServeAlone ==
  ASSUME NEW t, WireOK(wire, t), NEW call, NEW ok, NEW res, Serve(call, ok, res, <<>>),
         call.k # "orphan" /\ ok => AnswerOwn(t, call, res)
  PROVE  WireOK(wire', t)
<1> DEFINE S == {f \in {} : FrameOwn(t, f)}
<1>1. <<>> \in Seq(S) /\ \A f \in S : FrameOwn(t, f)
  BY EmptyIsOwn
<1> HIDE DEF S
<1>2. QED
  BY <1>1, ServeOK

\* A handler that leaves the conversations as they are.
LEMMA ServedAlone ==
  ASSUME NEW b \in BOOLEAN, Has(b), UNCHANGED <<s, screen, typed, gw>>, inbox' \subseteq inbox,
         Clean(s, Now(b)) => WireOK(wire', Now(b))
  PROVE  Gets(b)
<1>1. Then(b) = Now(b) /\ Later(Now(b), Then(b))
  BY NobodyBorn
<1>2. Clean(s, Now(b)) => GatewayOK(gw', Now(b)) /\ InboxOK(inbox', Now(b))
  BY DEF Has, World, InboxOK
<1>3. QED
  BY <1>1, <1>2, GatewaySteps

LEMMA SubmittedOK ==
  ASSUME NEW b \in BOOLEAN, Has(b), UNCHANGED <<s, screen, typed>>, NEW call \in inbox, Submitted(call)
  PROVE  Gets(b)
<1> DEFINE c == Of(call).h[1]
           p == Of(call).p
           starts == Live(Of(call).h) /\ gw[c].turn = None
           f == Event(c, "start", p, FALSE)
           frames == IF starts /\ gw[c].on THEN <<f>> ELSE <<>>
           turn == [p |-> p, worked |-> FALSE, ask |-> "no"]
           new == [gw[c] EXCEPT !.turn = turn, !.ring = <<>>]
<1>1. /\ Of(call).k = "submit" /\ Serve(call, starts, None, frames)
      /\ gw' = IF starts THEN [gw EXCEPT ![c] = new] ELSE gw
  BY DEF Submitted, Begin
<1>2. inbox' \subseteq inbox
  BY <1>1 DEF Serve
<1>3. Clean(s, Now(b)) => /\ c \in Conv /\ p \in Own(Now(b), c) /\ GatewayOK(gw, Now(b)) /\ WireOK(wire, Now(b))
  BY <1>1 DEF Has, World, InboxOK, CallOwn, Handles
<1>4. Clean(s, Now(b)) => WireOK(wire', Now(b))
  <2>1. SUFFICES ASSUME Clean(s, Now(b)) PROVE WireOK(wire', Now(b))
    OBVIOUS
  <2>2. FrameOwn(Now(b), f)
    <3> HIDE DEF c, p
    <3>1. QED
      BY <1>3, <2>1, EventOwn
  <2>3. call.k # "orphan" => AnswerOwn(Now(b), call, None)
    BY <1>1 DEF Of, AnswerOwn
  <2> HIDE DEF f, starts
  <2>4. frames \in Seq({f})
    BY SeqSingle, EmptyIsOwn
  <2> HIDE DEF frames
  <2>5. QED
    BY <1>1, <1>3, <2>1, <2>2, <2>3, <2>4, ServeOK
<1>5. Clean(s, Now(b)) => new \in Conversation(Now(b), c) /\ new.born = gw[c].born
  <2>1. SUFFICES ASSUME Clean(s, Now(b)) PROVE new \in Conversation(Now(b), c) /\ new.born = gw[c].born
    OBVIOUS
  <2>2. turn \in TurnType(Now(b), c)
    BY <1>3, <2>1 DEF TurnType
  <2> HIDE DEF turn, c
  <2>3. QED
    BY <1>3, <2>1, <2>2, ConversationParts, EmptyIsOwn DEF Conversation, TurnType
<1> HIDE DEF new, c, p, frames
<1>6. CASE starts /\ Clean(s, Now(b))
  BY <1>1, <1>2, <1>3, <1>4, <1>5, <1>6, GatewayMoves
<1>7. CASE ~starts /\ Clean(s, Now(b))
  BY <1>1, <1>2, <1>4, <1>7, ServedAlone
<1>8. CASE ~Clean(s, Now(b))
  BY <1>8, GatewaySteps
<1>9. QED
  BY <1>6, <1>7, <1>8

LEMMA ParkedOwn ==
  ASSUME NEW t, GatewayOK(gw, t), NEW c \in Conv
  PROVE  Parked(gw[c]) \in Own(t, c) \cup {None}
BY ConversationParts DEF Parked

LEMMA ResumedOK ==
  ASSUME NEW b \in BOOLEAN, Has(b), UNCHANGED <<s, screen, typed>>, NEW call \in inbox, Resumed(call)
  PROVE  Gets(b)
<1> DEFINE c == call.c
           g == IF gw[c].up THEN gw[c] ELSE [gw[c] EXCEPT !.up = TRUE, !.run = @ + 1]
           new == [g EXCEPT !.on = TRUE]
           res == [h |-> <<c, g.run>>, p |-> IF g.turn = None THEN None ELSE g.turn.p, ask |-> Parked(g)]
<1>1. call.k = "resume" /\ gw' = [gw EXCEPT ![c] = new] /\ Serve(call, TRUE, res, <<>>)
  BY DEF Resumed
<1>2. inbox' \subseteq inbox
  BY <1>1 DEF Serve
<1>3. CASE Clean(s, Now(b))
  <2>1. c \in Conv /\ GatewayOK(gw, Now(b)) /\ WireOK(wire, Now(b))
    BY <1>1, <1>3 DEF Has, World, InboxOK, CallOwn, Of, Known
  <2>2. g \in Conversation(Now(b), c) /\ g.turn = gw[c].turn /\ g.run \in Nat /\ g.born = gw[c].born
    <3>1. gw[c] \in Conversation(Now(b), c) /\ gw[c].run \in Nat
      BY <2>1, ConversationParts
    <3>2. CASE gw[c].up
      BY <3>1, <3>2
    <3>3. CASE ~gw[c].up
      <4>1. g = [gw[c] EXCEPT !.up = TRUE, !.run = @ + 1] /\ gw[c].run + 1 \in Nat
        BY <3>1, <3>3
      <4> DEFINE h == gw[c]
      <4>2. g = [h EXCEPT !.up = TRUE, !.run = @ + 1] /\ h \in Conversation(Now(b), c) /\ h.run + 1 \in Nat
        BY <3>1, <4>1
      <4> HIDE DEF g, c, h
      <4>3. g \in Conversation(Now(b), c)
        BY <4>2 DEF Conversation
      <4>4. g.turn = h.turn /\ g.run \in Nat /\ g.born = h.born
        BY <4>2 DEF Conversation
      <4>5. QED
        BY <4>3, <4>4 DEF h
    <3>4. QED
      BY <3>2, <3>3
  <2>3. Parked(g) = Parked(gw[c])
    BY <2>2 DEF Parked
  <2>4. AnswerOwn(Now(b), call, res)
    <3>1. Parked(g) \in Own(Now(b), c) \cup {None}
      BY <2>1, <2>3, ParkedOwn
    <3>2. (IF g.turn = None THEN None ELSE g.turn.p) \in Own(Now(b), c) \cup {None}
      BY <2>1, <2>2, ConversationParts
    <3>3. <<c, g.run>> \in Handles
      BY <2>1, <2>2 DEF Handles
    <3> HIDE DEF g
    <3>4. QED
      BY <1>1, <3>1, <3>2, <3>3 DEF AnswerOwn
  <2> HIDE DEF res
  <2>5. WireOK(wire', Now(b))
    BY <1>1, <2>1, <2>4, ServeAlone
  <2> HIDE DEF g
  <2>6. new \in Conversation(Now(b), c) /\ new.born = gw[c].born
    BY <2>2 DEF Conversation
  <2> HIDE DEF new
  <2>7. QED
    BY <1>1, <1>2, <2>1, <2>5, <2>6, GatewayMoves
<1>4. CASE ~Clean(s, Now(b))
  BY <1>4, GatewaySteps
<1>5. QED
  BY <1>3, <1>4

LEMMA CreatedOK ==
  ASSUME NEW b \in BOOLEAN, Has(b), UNCHANGED <<s, screen, typed>>, NEW call \in inbox, Created(call)
  PROVE  Gets(b)
<1> DEFINE born(c) == gw' = [gw EXCEPT ![c].born = TRUE, ![c].up = TRUE, ![c].run = 1, ![c].on = TRUE]
<1>0. /\ call.k = "create"
      /\ \/ Serve(call, FALSE, None, <<>>) /\ UNCHANGED gw
         \/ \E c \in Conv : born(c) /\ Serve(call, TRUE, <<c, 1>>, <<>>)
  BY Zenon DEF Created
<1> HIDE DEF born
<1>1. CASE ~Clean(s, Now(b))
  BY <1>1, GatewaySteps
<1>2. CASE Clean(s, Now(b)) /\ Serve(call, FALSE, None, <<>>) /\ UNCHANGED gw
  <2>1. WireOK(wire', Now(b)) /\ inbox' \subseteq inbox
    <3>1. WireOK(wire', Now(b))
      BY <1>2, ServeAlone DEF Has, World
    <3>2. QED
      BY <1>2, <3>1 DEF Serve
  <2>2. QED
    BY <1>2, <2>1, ServedAlone
<1>3. CASE Clean(s, Now(b)) /\ \E c \in Conv : born(c) /\ Serve(call, TRUE, <<c, 1>>, <<>>)
  <2>1. PICK c \in Conv : born(c) /\ Serve(call, TRUE, <<c, 1>>, <<>>)
    BY <1>3
  <2> DEFINE new == [gw[c] EXCEPT !.born = TRUE, !.up = TRUE, !.run = 1, !.on = TRUE]
  <2>2. /\ GatewayOK(gw, Now(b)) /\ WireOK(wire, Now(b)) /\ InboxOK(inbox, Now(b))
        /\ call.k = "create"
    BY <1>0, <1>3 DEF Has, World
  <2>3. gw' = [gw EXCEPT ![c] = new]
    BY <2>1, <2>2 DEF GatewayOK, born
  <2>4. new \in Conversation(Now(b), c) /\ new.born
    BY <2>2, ConversationParts DEF Conversation
  <2> HIDE DEF new
  <2>5. Later(Now(b), Then(b)) /\ c \in Known(Then(b))
    <3>1. gw'[c].born /\ \A d \in Conv : gw[d].born => gw'[d].born
      BY <2>2, <2>3, <2>4 DEF GatewayOK
    <3>2. QED
      BY <3>1 DEF Later, Known, Own, Now, Then
  <2>6. GatewayOK(gw', Then(b))
    <3>1. GatewayOK(gw', Now(b))
      BY <2>2, <2>3, <2>4, GatewayStays
    <3>2. QED
      BY <2>5, <3>1, ConversationGrows DEF GatewayOK
  <2>7. inbox' \subseteq inbox /\ InboxOK(inbox', Then(b))
    <3>1. inbox' \subseteq inbox
      BY <2>1 DEF Serve
    <3>2. QED
      BY <2>2, <2>5, <3>1, CallsStayOwn DEF InboxOK
  <2>8. WireOK(wire', Then(b))
    <3>1. WireOK(wire, Then(b))
      BY <2>2, <2>5, FramesStayOwn DEF WireOK
    <3>2. <<c, 1>> \in Handles /\ <<c, 1>>[1] = c
      BY DEF Handles
    <3>3. ASSUME NEW res, res \in Handles, res[1] = c PROVE AnswerOwn(Then(b), call, res)
      BY <2>2, <2>5, <3>3 DEF AnswerOwn
    <3>4. QED
      BY <2>1, <3>1, <3>2, <3>3, ServeAlone
  <2>9. QED
    BY <2>5, <2>6, <2>7, <2>8, GatewaySteps
<1>4. QED
  BY <1>0, <1>1, <1>2, <1>3

LEMMA ReadOK ==
  ASSUME NEW b \in BOOLEAN, Has(b), UNCHANGED <<s, screen, typed>>, NEW call \in inbox, Read(call)
  PROVE  Gets(b)
<1> DEFINE g == gw[call.h[1]]
           res == IF call.k = "history" THEN g.hist
                  ELSE [h |-> call.h, events |-> g.ring, ask |-> Parked(g)]
<1>1. call.k \in {"history", "since"} /\ Serve(call, Live(call.h), res, <<>>) /\ UNCHANGED gw
  BY DEF Read
<1>2. inbox' \subseteq inbox
  BY <1>1 DEF Serve
<1>3. Clean(s, Now(b)) => WireOK(wire', Now(b))
  <2>1. SUFFICES ASSUME Clean(s, Now(b)) PROVE WireOK(wire', Now(b))
    OBVIOUS
  <2>2. GatewayOK(gw, Now(b)) /\ WireOK(wire, Now(b)) /\ call.h \in Handles /\ call.h[1] \in Conv
    BY <1>1, <2>1 DEF Has, World, InboxOK, CallOwn, Of, Handles
  <2>3. AnswerOwn(Now(b), call, res)
    <3>1. /\ g.hist \in Seq(TurnRow(Now(b), call.h[1])) /\ g.ring \in Seq(OwnEvent(Now(b)))
          /\ Parked(g) \in Own(Now(b), call.h[1]) \cup {None}
      BY <2>2, ConversationParts, ParkedOwn
    <3> HIDE DEF g
    <3>2. g.hist \in Seq(OwnRow(Now(b), call.h[1]))
      BY <3>1, SeqGrows DEF OwnRow
    <3>3. QED
      BY <1>1, <2>2, <3>1, <3>2 DEF AnswerOwn
  <2> HIDE DEF res
  <2>4. QED
    BY <1>1, <2>2, <2>3, ServeAlone
<1>4. QED
  BY <1>1, <1>2, <1>3, ServedAlone

LEMMA UnparkedOK ==
  ASSUME NEW b \in BOOLEAN, Has(b), UNCHANGED <<s, screen, typed>>, NEW call \in inbox, Unparked(call)
  PROVE  Gets(b)
<1> DEFINE h == Of(call).h
           c == h[1]
           open == Live(h) /\ gw[c].turn # None /\ gw[c].turn.p = Of(call).sheet.p /\ gw[c].turn.ask = "open"
           turn == [gw[c].turn EXCEPT !.ask = "over"]
           new == [gw[c] EXCEPT !.turn = turn]
<1>1. /\ Of(call).k \in {"respond", "response"}
      /\ gw' = IF open THEN [gw EXCEPT ![c].turn.ask = "over"] ELSE gw
      /\ \/ inbox' = inbox \ {call} /\ UNCHANGED wire
         \/ Of(call).k # "response" /\ Serve(call, TRUE, ~open, <<>>)
  BY DEF Unparked
<1>2. inbox' \subseteq inbox
  BY <1>1 DEF Serve
<1>3. Clean(s, Now(b)) => c \in Conv /\ GatewayOK(gw, Now(b)) /\ WireOK(wire, Now(b))
  BY <1>1 DEF Has, World, InboxOK, CallOwn, Handles
<1>4. Clean(s, Now(b)) => WireOK(wire', Now(b))
  <2>1. SUFFICES ASSUME Clean(s, Now(b)) PROVE WireOK(wire', Now(b))
    OBVIOUS
  <2>2. CASE UNCHANGED wire
    BY <1>3, <2>1, <2>2 DEF WireOK
  <2>3. CASE Serve(call, TRUE, ~open, <<>>)
    <3>1. call.k # "orphan" => call.k \in {"respond", "response"}
      BY <1>1 DEF Of
    <3> HIDE DEF open
    <3>2. call.k # "orphan" => AnswerOwn(Now(b), call, ~open)
      BY <3>1 DEF AnswerOwn
    <3>3. QED
      BY <1>3, <2>1, <2>3, <3>2, ServeAlone
  <2>4. QED
    BY <1>1, <2>2, <2>3
<1>5. CASE open /\ Clean(s, Now(b))
  <2>1. gw[c].turn # None /\ gw' = [gw EXCEPT ![c] = new]
    BY <1>1, <1>3, <1>5 DEF GatewayOK
  <2>2. turn \in TurnType(Now(b), c)
    BY <1>3, <1>5, <2>1, ConversationParts DEF TurnType
  <2> HIDE DEF turn, c, open
  <2>3. new \in Conversation(Now(b), c) /\ new.born = gw[c].born
    BY <1>3, <1>5, <2>2, ConversationParts DEF Conversation, TurnType
  <2> HIDE DEF new
  <2>4. QED
    BY <1>2, <1>3, <1>4, <1>5, <2>1, <2>3, GatewayMoves
<1>6. CASE ~open /\ Clean(s, Now(b))
  BY <1>1, <1>2, <1>4, <1>6, ServedAlone
<1>7. CASE ~Clean(s, Now(b))
  BY <1>7, GatewaySteps
<1>8. QED
  BY <1>5, <1>6, <1>7

LEMMA UnwoundOK ==
  ASSUME NEW b \in BOOLEAN, Has(b), UNCHANGED <<s, screen, typed>>, NEW call \in inbox, Unwound(call)
  PROVE  Gets(b)
<1> DEFINE h == Of(call).h
           c == h[1]
           fits == Live(h) /\ gw[c].turn = None /\ TurnsIn(gw[c].hist) >= Of(call).turns
<1>1. /\ Of(call).k = "undo" /\ Serve(call, fits, None, <<>>)
      /\ \/ \E kept \in Without(gw[c].hist, Of(call).turns) : gw' = [gw EXCEPT ![c].hist = kept]
         \/ UNCHANGED gw
  BY DEF Unwound
<1>2. inbox' \subseteq inbox
  BY <1>1 DEF Serve
<1>3. Clean(s, Now(b)) => c \in Conv /\ GatewayOK(gw, Now(b)) /\ WireOK(wire, Now(b))
  BY <1>1 DEF Has, World, InboxOK, CallOwn, Handles
<1>4. Clean(s, Now(b)) => WireOK(wire', Now(b))
  <2>1. call.k # "orphan" => AnswerOwn(Now(b), call, None)
    BY <1>1 DEF Of, AnswerOwn
  <2> HIDE DEF fits
  <2>2. QED
    BY <1>1, <1>3, <2>1, ServeAlone
<1> HIDE DEF fits
<1>5. CASE Clean(s, Now(b)) /\ \E kept \in Without(gw[c].hist, Of(call).turns) : gw' = [gw EXCEPT ![c].hist = kept]
  <2>1. PICK kept \in Without(gw[c].hist, Of(call).turns) : gw' = [gw EXCEPT ![c].hist = kept]
    BY <1>5
  <2>2. PICK n \in 0..Len(gw[c].hist) : kept = SubSeq(gw[c].hist, 1, n)
    BY <2>1 DEF Without
  <2> HIDE DEF c
  <2>3. gw[c].hist \in Seq(TurnRow(Now(b), c))
    BY <1>3, <1>5, ConversationParts
  <2>4. kept \in Seq(TurnRow(Now(b), c))
    BY <2>2, <2>3, CutRows
  <2>5. gw' = [gw EXCEPT ![c] = [gw[c] EXCEPT !.hist = kept]]
    BY <1>3, <1>5, <2>1 DEF GatewayOK
  <2>6. /\ [gw[c] EXCEPT !.hist = kept] \in Conversation(Now(b), c)
        /\ [gw[c] EXCEPT !.hist = kept].born = gw[c].born
    BY <1>3, <1>5, <2>4, ConversationParts DEF Conversation
  <2>7. QED
    BY <1>2, <1>3, <1>4, <1>5, <2>5, <2>6, GatewayMoves
<1>6. CASE Clean(s, Now(b)) /\ UNCHANGED gw
  BY <1>2, <1>4, <1>6, ServedAlone
<1>7. CASE ~Clean(s, Now(b))
  BY <1>7, GatewaySteps
<1>8. QED
  BY <1>1, <1>5, <1>6, <1>7

LEMMA StoppedOK ==
  ASSUME NEW b \in BOOLEAN, Has(b), UNCHANGED <<s, screen, typed>>, NEW call \in inbox, Stopped(call)
  PROVE  Gets(b)
<1> DEFINE c == call.h[1]
           running == Live(call.h) /\ gw[c].turn # None
           f == Event(c, "complete", gw[c].turn.p, TRUE)
           frames == IF running /\ gw[c].on THEN <<f>> ELSE <<>>
<1>1. /\ call.k = "stop" /\ (IF running THEN Finish(c, TRUE) ELSE UNCHANGED gw)
      /\ Serve(call, running, None, frames)
  BY DEF Stopped
<1>2. inbox' \subseteq inbox
  BY <1>1 DEF Serve
<1>3. Clean(s, Now(b)) => c \in Conv /\ GatewayOK(gw, Now(b)) /\ WireOK(wire, Now(b))
  BY <1>1 DEF Has, World, InboxOK, CallOwn, Of, Handles
<1>4. Clean(s, Now(b)) => WireOK(wire', Now(b))
  <2>1. SUFFICES ASSUME Clean(s, Now(b)) PROVE WireOK(wire', Now(b))
    OBVIOUS
  <2>2. running => FrameOwn(Now(b), f)
    <3> HIDE DEF c
    <3>1. QED
      BY <1>3, <2>1, CompleteOwn
  <2>3. AnswerOwn(Now(b), call, None)
    BY <1>1 DEF AnswerOwn
  <2> HIDE DEF f, running
  <2>4. frames \in Seq(IF running THEN {f} ELSE {})
    BY SeqSingle, EmptyIsOwn
  <2>5. \A e \in (IF running THEN {f} ELSE {}) : FrameOwn(Now(b), e)
    BY <2>2
  <2> HIDE DEF frames
  <2>6. QED
    BY <1>1, <1>3, <2>1, <2>3, <2>4, <2>5, ServeOK
<1>5. CASE running /\ Clean(s, Now(b))
  <2>1. gw[c].turn # None /\ Finish(c, TRUE)
    BY <1>1, <1>5
  <2> HIDE DEF c, running
  <2>2. QED
    BY <1>2, <1>3, <1>4, <1>5, <2>1, FinishOK
<1>6. CASE ~running /\ Clean(s, Now(b))
  BY <1>1, <1>2, <1>4, <1>6, ServedAlone
<1>7. CASE ~Clean(s, Now(b))
  BY <1>7, GatewaySteps
<1>8. QED
  BY <1>5, <1>6, <1>7

-----------------------------------------------------------------------------
(* The theorems *)

LEMMA InitOK ==
  ASSUME Init
  PROVE  ChatInv
<1> SUFFICES ASSUME NEW b \in BOOLEAN PROVE Has(b)
  BY DEF ChatInv
<1>1. /\ s.here = None /\ s.h = None /\ s.rows = <<>> /\ s.queued = None /\ s.inflight = None
      /\ s.sheet = None /\ s.asked = {} /\ s.running = FALSE /\ Shape(s)
  BY DEF Init, Loaded, Shape
<1>2. Sound(s, Now(b))
  BY <1>1, EmptyIsOwn DEF Sound
<1>3. PICK c \in Stored \cup {None} :
        screen = [shown |-> TRUE, visit |-> 1, booting |-> {}, trailing |-> {}, watching |-> FALSE, intent |-> c]
  BY DEF Init
<1>4. c \in Known(Now(b)) \cup {None}
  BY ChatAssumption DEF Init, Known, Now
<1>5. SoundPhone(Phone, Now(b)) /\ Shaped
  BY <1>1, <1>2, <1>3, <1>4 DEF SoundPhone, Phone, Shaped, TrailsFit
<1>6. TypedOK(typed) /\ InboxOK(inbox, Now(b))
  BY DEF Init, TypedOK, InboxOK
<1>7. WireOK(wire, Now(b))
  BY DEF Init, WireOK, Range
<1>8. GatewayOK(gw, Now(b))
  BY EmptyIsOwn DEF Init, GatewayOK, Conversation
<1>9. QED
  BY <1>5, <1>6, <1>7, <1>8 DEF Has, World

LEMMA NextOK ==
  ASSUME NEW b \in BOOLEAN, Has(b), [Next]_vars
  PROVE  Gets(b)
<1>1. CASE Next
  <2>1. CASE ~Failing /\ User
    <3>1. CASE \E c \in Conv : Open(c)
      BY <3>1, OpenOK
    <3>2. CASE Return
      BY <3>2, ReturnOK
    <3>3. CASE Leave
      BY <3>3, LeaveOK
    <3>4. CASE NewChat
      BY <3>4, NewChatOK
    <3>5. CASE \E p \in Prompt : Type(p)
      BY <3>5, TypedOneOK
    <3>6. CASE SendAgain
      BY <3>6, SendAgainOK
    <3>7. CASE Again
      BY <3>7, AgainOK
    <3>8. CASE Interrupt
      BY <3>8, InterruptOK
    <3>9. CASE Approve
      BY <3>9, ApproveOK
    <3>10. CASE AddNotice
      BY <3>10, AddNoticeOK
    <3>11. QED
      BY <2>1, <3>1, <3>2, <3>3, <3>4, <3>5, <3>6, <3>7, <3>8, <3>9, <3>10 DEF User
  <2>2. CASE Receive
    BY <2>2, ReceiveOK
  <2>3. CASE TimeOut
    BY <2>3, TimeOutOK
  <2>4. CASE Drop
    BY <2>4, DropOK
  <2>5. CASE (~Failing /\ Reopen) \/ BootTrailed
    BY <2>5, ReopenOK, BootTrailedOK
  <2>6. CASE ServeCall
    <3>1. PICK call \in inbox : \/ Submitted(call) \/ Resumed(call) \/ Created(call) \/ Read(call)
                                \/ Unparked(call) \/ Unwound(call) \/ Stopped(call)
      BY <2>6 DEF ServeCall
    <3>2. UNCHANGED <<s, screen, typed>>
      BY <2>6 DEF ServeCall
    <3>3. QED
      BY <3>1, <3>2, SubmittedOK, ResumedOK, CreatedOK, ReadOK, UnparkedOK, UnwoundOK, StoppedOK
  <2>7. CASE Turns
    <3>1. PICK c \in Conv : Work(c) \/ AskUser(c) \/ Withdraw(c) \/ Reply(c) \/ Reap(c)
      BY <2>7 DEF Turns
    <3>2. QED
      BY <3>1, WorkOK, AskUserOK, ReplyOK, ReapOK
  <2>8. CASE CallFails
    BY <2>8, CallFailsOK
  <2>9. QED
    BY <1>1, <2>1, <2>2, <2>3, <2>4, <2>5, <2>6, <2>7, <2>8 DEF Next
<1>2. CASE UNCHANGED vars
  <2>1. UNCHANGED <<s, screen, typed, inbox, wire, gw>>
    BY <1>2 DEF vars
  <2>2. Clean(s, Now(b)) => WireOK(wire', Now(b))
    BY <2>1 DEF Has, World
  <2>3. QED
    BY <2>1, <2>2, ServedAlone
<1>3. QED
  BY <1>1, <1>2

\* What a step gets is what there is after it.
LEMMA GetsIsNext ==
  ASSUME NEW b \in BOOLEAN, Gets(b)
  PROVE  Has(b)'
<1>1. Phone' = [s |-> s', screen |-> screen'] /\ Phone'.s = s' /\ Phone'.screen = screen'
  BY DEF Phone
<1>2. Then(b) = Now(b)'
  BY DEF Then, Now
<1>3. Shaped'
  BY <1>1 DEF Gets, PhoneOK, PhoneShape, Shaped, Shape
<1>4. QED
  BY <1>1, <1>2, <1>3
  DEF Gets, NextWorld, PhoneOK, Has, World, TypedOK

\* The inductive invariant: every prompt named anywhere, on the screen, on its way or
\* at the gateway, was typed in the conversation it is named with; and whatever was
\* rewound, what the screen waits for is of the conversation it shows.
THEOREM ChatInvariant == Spec => []ChatInv
<1>1. Init => ChatInv
  BY InitOK
<1>2. ChatInv /\ [Next]_vars => ChatInv'
  <2>1. SUFFICES ASSUME ChatInv, [Next]_vars, NEW b \in BOOLEAN PROVE Has(b)'
    BY DEF ChatInv
  <2>2. Gets(b)
    BY <2>1, NextOK DEF ChatInv
  <2>3. QED
    BY <2>2, GetsIsNext
<1>3. QED
  BY <1>1, <1>2, PTL DEF Spec

\* The screen shows no row, holds no queued message and asks for no approval of
\* another conversation, whatever was switched, dropped or answered late (the checks
\* of session.ts's applyEvent and applyServerRequest, and reset()).
THEOREM NothingForeignShown == Spec => []NothingForeign
<1>1. ChatInv => NothingForeign
  <2>1. SUFFICES ASSUME NEW b \in BOOLEAN, b, Has(b) PROVE NothingForeign
    BY DEF ChatInv
  <2>2. Clean(s, Now(b)) => Sound(s, Now(b))
    BY <2>1, InvStore DEF StoreOK
  <2>3. Clean(s, Now(b)) => \A i \in DOMAIN s.rows : s.rows[i] \in OwnRow(Now(b), s.here)
    BY <2>2 DEF Sound
  <2>4. \A p \in Own(Now(b), s.here) : typed[p] = s.here
    BY <2>1 DEF Own, Now
  <2>5. Clean(s, Now(b)) <=> Spared({"boots", "rewind"})
    BY <2>1 DEF Clean, Spared, Now
  <2>6. SheetClean(s, Now(b)) <=> Spared({"boots", "rewind", "sheet"})
    BY <2>1 DEF SheetClean, Spared, Now
  <2>7. Clean(s, Now(b)) => \A i \in DOMAIN s.rows : s.rows[i][2] \in Own(Now(b), s.here) \cup {None}
    BY <2>3 DEF OwnRow, TurnRow
  <2>8. SheetClean(s, Now(b)) /\ s.sheet # None => Clean(s, Now(b)) /\ s.sheet.p \in Own(Now(b), s.here)
    BY <2>2 DEF Sound, SheetClean, Clean
  <2>9. Clean(s, Now(b)) => s.queued \in Own(Now(b), s.here) \cup {None}
    BY <2>2 DEF Sound
  <2>10. QED
    BY <2>4, <2>5, <2>6, <2>7, <2>8, <2>9 DEF NothingForeign
<1>2. QED
  BY <1>1, ChatInvariant, PTL

\* A prompt is run in the conversation it was typed in, whether it was sent at once,
\* queued behind a turn, sent again or replayed by a rewind (submitPrompt, SendNow,
\* resendFailed and rewind of session.ts).
THEOREM PromptsAtHome == Spec => []PromptsGoHome
<1>1. ChatInv => PromptsGoHome
  <2>1. SUFFICES ASSUME NEW b \in BOOLEAN, b, Has(b), Clean(s, Now(b)), NEW c \in Conv
                 PROVE  /\ \A i \in DOMAIN gw[c].hist : typed[gw[c].hist[i][2]] = c
                        /\ gw[c].turn # None => typed[gw[c].turn.p] = c
    BY DEF PromptsGoHome, Spared, Clean, ChatInv, Now
  <2>2. /\ gw[c].hist \in Seq(TurnRow(Now(b), c))
        /\ gw[c].turn # None => gw[c].turn.p \in Own(Now(b), c)
    BY <2>1, ConversationParts DEF Has, World
  <2>3. \A i \in DOMAIN gw[c].hist : gw[c].hist[i] \in TurnRow(Now(b), c)
    BY <2>2
  <2>4. \A p \in Own(Now(b), c) : typed[p] = c
    BY <2>1 DEF Own, Now
  <2>5. QED
    BY <2>2, <2>3, <2>4 DEF TurnRow
<1>2. QED
  BY <1>1, ChatInvariant, PTL

-----------------------------------------------------------------------------
(* The stop button: what the frames on their way to the phone say of the   *)
(* turns at the gateway.  A wire is w, a conversation of the gateway g.     *)

IsEvent(f, c) == f.t \in {"start", "work", "complete"} /\ f.h[1] = c

\* The frames that tell the phone whether a turn of c runs,
Tells(f, c) ==
  \/ IsEvent(f, c)
  \/ /\ f.t = "answer" /\ f.ok
     /\ \/ f.call.k = "resume" /\ f.call.c = c
        \/ f.call.k = "create" /\ f.res[1] = c

\* and those it concludes it from.
Hints(f, c) ==
  /\ f.t = "answer" /\ f.ok
  /\ \/ f.call.k = "submit" /\ f.call.h[1] = c
     \/ /\ f.call.k = "since"
        /\ \E i \in DOMAIN f.res.events : f.res.events[i].t = "complete" /\ f.res.events[i].h[1] = c

Named(f) == IF f.t # "answer" THEN f.h ELSE IF f.call.k = "resume" THEN f.res.h ELSE f.res
Runs(f) == IF f.t # "answer" THEN f.t # "complete"
           ELSE f.call.k = "submit" \/ (f.call.k = "resume" /\ f.res.p # None)

\* Frame k is still true, unless an event comes after it that is news.
Newest(w, k, c) == \A j \in DOMAIN w : j > k => ~IsEvent(w[j], c)
Stands(w, g, k, c) == Newest(w, k, c) => (Runs(w[k]) <=> g.turn # None)
Clear(w, g, c) == \A k \in DOMAIN w : Hints(w[k], c) => Stands(w, g, k, c)

WireTrue(w, g, c) ==
  \A i \in DOMAIN w : Tells(w[i], c) =>
    /\ g.on /\ Named(w[i]) = <<c, g.run>> /\ Stands(w, g, i, c)
    /\ \A k \in DOMAIN w : k > i /\ Hints(w[k], c) => Stands(w, g, k, c)

\* What the gateway keeps in step itself
GateOK(g) == (g.on => g.up) /\ (g.up => g.born) /\ (g.turn # None => g.up)
RingOK(g, c) == \A i \in DOMAIN g.ring : g.ring[i].h[1] = c /\ (g.ring[i].t = "complete" => g.turn = None)
Track(w, g, c) == GateOK(g) /\ RingOK(g, c) /\ WireTrue(w, g, c)

\* What the gateway does, from w and g to v and h, leaves a phone that is right
\* about c as right as it was.
Follows(w, g, v, h, c) ==
  g.on => /\ h.on /\ h.run = g.run
          /\ Clear(w, g, c) => Clear(v, h, c)
          /\ Newest(v, 0, c) => Newest(w, 0, c) /\ (h.turn # None <=> g.turn # None)

IsWire(w) == w \in Seq(Range(w))

LEMMA LongerWire ==
  ASSUME NEW w, IsWire(w), NEW q, IsWire(q), NEW v, v = w \o q
  PROVE  /\ IsWire(v) /\ Len(w) \in Nat /\ Len(q) \in Nat
         /\ DOMAIN w = 1..Len(w) /\ DOMAIN q = 1..Len(q) /\ DOMAIN v = 1..(Len(w) + Len(q))
         /\ \A k \in DOMAIN w : v[k] = w[k]
         /\ \A k \in DOMAIN q : v[Len(w) + k] = q[k]
         /\ \A k \in DOMAIN v : k \in DOMAIN w \/ k - Len(w) \in DOMAIN q
<1> DEFINE T == Range(w) \cup Range(q)
<1>1. w \in Seq(T) /\ q \in Seq(T)
  BY SeqGrows DEF IsWire
<1>2. v \in Seq(T)
  BY <1>1
<1>3. IsWire(v)
  BY <1>2, FramesOfSeq DEF IsWire
<1>4. QED
  BY <1>1, <1>3

LEMMA OneFrame ==
  ASSUME NEW f
  PROVE  IsWire(<<f>>) /\ DOMAIN <<f>> = {1} /\ <<f>>[1] = f /\ Len(<<f>>) = 1
<1>1. <<f>> \in Seq({f}) /\ DOMAIN <<f>> = {1} /\ <<f>>[1] = f /\ Len(<<f>>) = 1
  OBVIOUS
<1>2. <<f>> \in Seq(Range(<<f>>))
  BY <1>1, FramesOfSeq
<1>3. QED
  BY <1>1, <1>2 DEF IsWire

LEMMA LastFrame ==
  ASSUME NEW w, IsWire(w), NEW f
  PROVE  /\ IsWire(w \o <<f>>) /\ Len(w) \in Nat /\ DOMAIN w = 1..Len(w)
         /\ DOMAIN (w \o <<f>>) = 1..(Len(w) + 1) /\ (w \o <<f>>)[Len(w) + 1] = f
         /\ \A k \in DOMAIN w : (w \o <<f>>)[k] = w[k]
<1> DEFINE T == Range(w) \cup {f}
<1>1. w \in Seq(T) /\ f \in T
  BY SeqGrows DEF IsWire
<1>2. w \o <<f>> \in Seq(T)
  BY <1>1
<1>3. IsWire(w \o <<f>>)
  BY <1>2, FramesOfSeq DEF IsWire
<1>4. QED
  BY <1>1, <1>3

\* Frames that say nothing of c, while the gateway keeps it as it was.
LEMMA QuietTrue ==
  ASSUME NEW w, IsWire(w), NEW q, IsWire(q), NEW c, NEW g, NEW h, WireTrue(w, g, c),
         \A i \in DOMAIN q : ~Tells(q[i], c) /\ ~Hints(q[i], c),
         h.on <=> g.on, h.run = g.run, h.turn # None <=> g.turn # None
  PROVE  WireTrue(w \o q, h, c) /\ Follows(w, g, w \o q, h, c)
<1> DEFINE v == w \o q
<1>1. /\ Len(w) \in Nat /\ Len(q) \in Nat
      /\ DOMAIN w = 1..Len(w) /\ DOMAIN q = 1..Len(q) /\ DOMAIN v = 1..(Len(w) + Len(q))
      /\ \A k \in DOMAIN w : v[k] = w[k]
      /\ \A k \in DOMAIN q : v[Len(w) + k] = q[k]
      /\ \A k \in DOMAIN v : k \in DOMAIN w \/ k - Len(w) \in DOMAIN q
  <2>1. v = w \o q
    OBVIOUS
  <2> HIDE DEF v
  <2>2. QED
    BY <2>1, LongerWire
<1> HIDE DEF v
<1>2. \A k \in DOMAIN v : k \notin DOMAIN w => v[k] = q[k - Len(w)] /\ k - Len(w) \in DOMAIN q
  BY <1>1
<1>3. \A k \in DOMAIN v : Tells(v[k], c) \/ Hints(v[k], c) => k \in DOMAIN w
  BY <1>2
<1>4. \A k \in 0..Len(w) : Newest(v, k, c) => Newest(w, k, c)
  BY <1>1 DEF Newest
<1>5. \A k \in DOMAIN w : Stands(w, g, k, c) => Stands(v, h, k, c)
  BY <1>1, <1>4 DEF Stands
<1>6. WireTrue(v, h, c)
  BY <1>1, <1>3, <1>5 DEF WireTrue
<1>7. Follows(w, g, v, h, c)
  BY <1>1, <1>3, <1>4, <1>5 DEF Follows, Clear
<1>8. QED
  BY <1>6, <1>7 DEF v

\* While nobody listens nothing is said.
LEMMA SilenceTrue ==
  ASSUME NEW w, IsWire(w), NEW q, IsWire(q), NEW c, NEW g, NEW h, WireTrue(w, g, c), ~g.on,
         \A i \in DOMAIN q : ~Tells(q[i], c)
  PROVE  WireTrue(w \o q, h, c) /\ Follows(w, g, w \o q, h, c)
<1> DEFINE v == w \o q
<1>1. /\ \A k \in DOMAIN w : v[k] = w[k]
      /\ \A k \in DOMAIN q : v[Len(w) + k] = q[k]
      /\ \A k \in DOMAIN v : k \in DOMAIN w \/ k - Len(w) \in DOMAIN q
      /\ Len(w) \in Nat /\ DOMAIN v = 1..(Len(w) + Len(q)) /\ Len(q) \in Nat
  <2>1. v = w \o q
    OBVIOUS
  <2> HIDE DEF v
  <2>2. QED
    BY <2>1, LongerWire
<1> HIDE DEF v
<1>2. \A k \in DOMAIN v : k \notin DOMAIN w => v[k] = q[k - Len(w)] /\ k - Len(w) \in DOMAIN q
  BY <1>1
<1>3. \A k \in DOMAIN v : ~Tells(v[k], c)
  BY <1>1, <1>2 DEF WireTrue
<1>4. QED
  BY <1>3 DEF WireTrue, Follows, v

\* One frame that is right, and no event.
LEMMA AnswerTrue ==
  ASSUME NEW w, IsWire(w), NEW f, NEW c, NEW g, NEW h, WireTrue(w, g, c), ~IsEvent(f, c),
         h.on <=> g.on, h.run = g.run, h.turn # None <=> g.turn # None,
         Tells(f, c) => g.on /\ Named(f) = <<c, g.run>>,
         Tells(f, c) \/ Hints(f, c) => (Runs(f) <=> g.turn # None)
  PROVE  WireTrue(w \o <<f>>, h, c) /\ Follows(w, g, w \o <<f>>, h, c)
<1> DEFINE v == w \o <<f>>
           n == Len(w) + 1
<1>1. /\ Len(w) \in Nat /\ DOMAIN w = 1..Len(w) /\ DOMAIN v = 1..n /\ v[n] = f
      /\ \A k \in DOMAIN w : v[k] = w[k]
  BY LastFrame
<1> HIDE DEF v
<1>2. \A k \in 0..Len(w) : Newest(v, k, c) => Newest(w, k, c)
  BY <1>1 DEF Newest
<1>3. \A k \in DOMAIN w : Stands(w, g, k, c) => Stands(v, h, k, c)
  BY <1>1, <1>2 DEF Stands
<1>4. (Runs(f) <=> h.turn # None) => Stands(v, h, n, c)
  BY <1>1 DEF Stands
<1>5. WireTrue(v, h, c)
  BY <1>1, <1>3, <1>4 DEF WireTrue
<1>6. Follows(w, g, v, h, c)
  BY <1>1, <1>2, <1>3, <1>4 DEF Follows, Clear
<1>7. QED
  BY <1>5, <1>6 DEF v

\* An event is news, whatever was said before it.
LEMMA EventTrue ==
  ASSUME NEW w, NEW v, IsWire(v), NEW f, NEW c, NEW g, NEW h, IsEvent(f, c),
         h.on, h.run = g.run, f.h = <<c, g.run>>, Runs(f) <=> h.turn # None,
         \A i \in DOMAIN v : Tells(v[i], c) => Named(v[i]) = <<c, g.run>>
  PROVE  WireTrue(v \o <<f>>, h, c) /\ Follows(w, g, v \o <<f>>, h, c)
<1> DEFINE u == v \o <<f>>
           n == Len(v) + 1
<1>1. /\ Len(v) \in Nat /\ DOMAIN v = 1..Len(v) /\ DOMAIN u = 1..n /\ u[n] = f
      /\ \A k \in DOMAIN v : u[k] = v[k]
  BY LastFrame
<1> HIDE DEF u
<1>2. \A k \in 0..Len(v) : ~Newest(u, k, c)
  BY <1>1 DEF Newest
<1>3. \A k \in DOMAIN u : Stands(u, h, k, c)
  BY <1>1, <1>2 DEF Stands
<1>4. Named(f) = <<c, g.run>>
  BY DEF Named, IsEvent
<1>5. WireTrue(u, h, c)
  BY <1>1, <1>3, <1>4 DEF WireTrue
<1>6. Follows(w, g, u, h, c)
  BY <1>1, <1>2, <1>3 DEF Follows, Clear
<1>7. QED
  BY <1>5, <1>6 DEF u

\* The first frame of a conversation to a socket that has just come to it.
LEMMA FirstTrue ==
  ASSUME NEW w, IsWire(w), NEW f, NEW c, NEW g, NEW h, WireTrue(w, g, c), ~g.on,
         ~IsEvent(f, c), Tells(f, c) => h.on /\ Named(f) = <<c, h.run>> /\ (Runs(f) <=> h.turn # None)
  PROVE  WireTrue(w \o <<f>>, h, c) /\ Follows(w, g, w \o <<f>>, h, c)
<1> DEFINE v == w \o <<f>>
           n == Len(w) + 1
<1>1. /\ Len(w) \in Nat /\ DOMAIN w = 1..Len(w) /\ DOMAIN v = 1..n /\ v[n] = f
      /\ \A k \in DOMAIN w : v[k] = w[k]
  BY LastFrame
<1> HIDE DEF v
<1>2. \A k \in DOMAIN w : ~Tells(v[k], c)
  BY <1>1 DEF WireTrue
<1>3. WireTrue(v, h, c)
  BY <1>1, <1>2 DEF WireTrue, Stands
<1>4. QED
  BY <1>3 DEF v, Follows

\* The first frame is received.
LEMMA TailTrue ==
  ASSUME NEW w, IsWire(w), w # <<>>, NEW c, NEW g, WireTrue(w, g, c)
  PROVE  /\ WireTrue(Tail(w), g, c) /\ (Clear(w, g, c) => Clear(Tail(w), g, c))
         /\ ~IsEvent(Head(w), c) /\ Newest(Tail(w), 0, c) => Newest(w, 0, c)
         /\ Tells(Head(w), c) => /\ g.on /\ Named(Head(w)) = <<c, g.run>> /\ Clear(Tail(w), g, c)
                                 /\ Newest(Tail(w), 0, c) => (Runs(Head(w)) <=> g.turn # None)
         /\ Clear(w, g, c) /\ Hints(Head(w), c) /\ Newest(Tail(w), 0, c) => (Runs(Head(w)) <=> g.turn # None)
<1> DEFINE v == Tail(w)
           f == Head(w)
<1>1. /\ DOMAIN w = 1..Len(w) /\ Len(w) \in Nat /\ 1 \in DOMAIN w /\ w[1] = f
      /\ DOMAIN v = 1..(Len(w) - 1) /\ \A k \in DOMAIN v : k + 1 \in DOMAIN w /\ v[k] = w[k + 1]
      /\ \A k \in DOMAIN w : k = 1 \/ (k - 1 \in DOMAIN v /\ v[k - 1] = w[k])
  BY DEF IsWire
<1> HIDE DEF v, f
<1>2. \A k \in DOMAIN v : Newest(v, k, c) => Newest(w, k + 1, c)
  BY <1>1 DEF Newest
<1>3. (Newest(v, 0, c) => Newest(w, 1, c)) /\ (~IsEvent(f, c) /\ Newest(v, 0, c) => Newest(w, 0, c))
  BY <1>1 DEF Newest
<1>4. \A k \in DOMAIN v : Stands(w, g, k + 1, c) => Stands(v, g, k, c)
  BY <1>1, <1>2 DEF Stands
<1>5. Stands(w, g, 1, c) /\ Newest(v, 0, c) => (Runs(f) <=> g.turn # None)
  BY <1>1, <1>3 DEF Stands
<1>6. WireTrue(v, g, c)
  BY <1>1, <1>4 DEF WireTrue
<1>7. Clear(w, g, c) => Clear(v, g, c) /\ (Hints(f, c) => Stands(w, g, 1, c))
  BY <1>1, <1>4 DEF Clear
<1>8. Tells(f, c) => g.on /\ Named(f) = <<c, g.run>> /\ Stands(w, g, 1, c) /\ Clear(v, g, c)
  <2>1. SUFFICES ASSUME Tells(f, c) PROVE g.on /\ Named(f) = <<c, g.run>> /\ Stands(w, g, 1, c) /\ Clear(v, g, c)
    OBVIOUS
  <2>2. /\ g.on /\ Named(f) = <<c, g.run>> /\ Stands(w, g, 1, c)
        /\ \A k \in DOMAIN w : k > 1 /\ Hints(w[k], c) => Stands(w, g, k, c)
    <3>1. Tells(w[1], c)
      BY <1>1, <2>1
    <3>2. QED
      BY <3>1, <1>1 DEF WireTrue
  <2>3. Clear(v, g, c)
    BY <1>1, <1>4, <2>2 DEF Clear
  <2>4. QED
    BY <2>2, <2>3
<1>9. QED
  BY <1>3, <1>5, <1>6, <1>7, <1>8 DEF v, f

-----------------------------------------------------------------------------
(* The gateway keeps its word. *)

Serves(c) == Track(wire', gw'[c], c) /\ Follows(wire, gw[c], wire', gw'[c], c)
Tracked == \A c \in Conv : Track(wire, gw[c], c)

\* What matters of a conversation that is not touched by what is said.
Keeps(g, h) == /\ h.on = g.on /\ h.run = g.run /\ h.up = g.up /\ h.born = g.born /\ h.ring = g.ring
               /\ h.turn # None <=> g.turn # None

Quietly(q, c) == \A i \in DOMAIN q : ~Tells(q[i], c) /\ ~Hints(q[i], c)

AnswerTo(call, ok, res) == [t |-> "answer", call |-> call, ok |-> ok, res |-> res]
Answers(call, ok, res) == IF call.k = "orphan" THEN <<>> ELSE <<AnswerTo(call, ok, res)>>

LEMMA FollowsTwice ==
  ASSUME NEW w, NEW g, NEW v, NEW h, NEW u, NEW i, NEW c, Follows(w, g, v, h, c), Follows(v, h, u, i, c)
  PROVE  Follows(w, g, u, i, c)
BY DEF Follows

LEMMA NoFrame ==
  ASSUME NEW w, IsWire(w)
  PROVE  /\ IsWire(<<>>) /\ w \o <<>> = w
         /\ \A c : Quietly(<<>>, c)
BY DEF IsWire, Quietly

LEMMA AnswersAre ==
  ASSUME NEW call, NEW ok, NEW res
  PROVE  /\ IsWire(Answers(call, ok, res))
         /\ \A i \in DOMAIN Answers(call, ok, res) :
              Answers(call, ok, res)[i] = AnswerTo(call, ok, res) /\ call.k # "orphan"
<1>1. CASE call.k = "orphan"
  BY <1>1 DEF Answers, IsWire
<1>2. CASE call.k # "orphan"
  <2> DEFINE f == AnswerTo(call, ok, res)
  <2>1. Answers(call, ok, res) = <<f>>
    BY <1>2 DEF Answers
  <2>2. IsWire(<<f>>) /\ DOMAIN <<f>> = {1} /\ <<f>>[1] = f
    BY OneFrame
  <2>3. QED
    BY <1>2, <2>1, <2>2
<1>3. QED
  BY <1>1, <1>2

LEMMA ServeIs ==
  ASSUME NEW call, NEW ok, NEW res, NEW frames, Serve(call, ok, res, frames), IsWire(wire)
  PROVE  wire' = (wire \o Answers(call, ok, res)) \o frames
<1>1. CASE call.k = "orphan"
  <2>1. wire \o <<>> = wire
    BY NoFrame
  <2>2. QED
    BY <1>1, <2>1 DEF Serve, Answers
<1>2. CASE call.k # "orphan"
  <2> DEFINE f == AnswerTo(call, ok, res)
  <2>1. wire' = Append(wire, f) \o frames
    BY <1>2 DEF Serve, AnswerTo
  <2>2. Append(wire, f) = wire \o <<f>>
    <3> HIDE DEF f
    <3>1. QED
      BY DEF IsWire
  <2>3. QED
    BY <1>2, <2>1, <2>2 DEF Answers
<1>3. QED
  BY <1>1, <1>2

LEMMA ServeAloneIs ==
  ASSUME NEW call, NEW ok, NEW res, Serve(call, ok, res, <<>>), IsWire(wire)
  PROVE  wire' = wire \o Answers(call, ok, res)
<1> DEFINE v == wire \o Answers(call, ok, res)
<1>1. wire' = v \o <<>>
  BY ServeIs
<1>2. IsWire(v)
  <2>1. IsWire(Answers(call, ok, res))
    BY AnswersAre
  <2>2. QED
    BY <2>1, LongerWire
<1> HIDE DEF v
<1>3. v \o <<>> = v
  BY <1>2, NoFrame
<1>4. QED
  BY <1>1, <1>3 DEF v

\* What an answer is silent about
LEMMA QuietAnswers ==
  ASSUME NEW call, NEW ok, NEW res, NEW c,
         ~ok \/ call.k \notin {"resume", "create", "submit", "since"}
  PROVE  Quietly(Answers(call, ok, res), c)
<1>1. ~Tells(AnswerTo(call, ok, res), c) /\ ~Hints(AnswerTo(call, ok, res), c)
  BY DEF Tells, Hints, IsEvent, AnswerTo
<1>2. QED
  BY <1>1, AnswersAre DEF Quietly

\* Whatever is said is about none of the turns, and no turn begins or ends.
LEMMA QuietGates ==
  ASSUME IsWire(wire), Tracked, NEW q, IsWire(q), wire' = wire \o q,
         \A c \in Conv : Quietly(q, c) /\ Keeps(gw[c], gw'[c])
  PROVE  \A c \in Conv : Serves(c)
<1>1. SUFFICES ASSUME NEW c \in Conv PROVE Serves(c)
  OBVIOUS
<1> DEFINE g == gw[c]
           h == gw'[c]
<1>2. Track(wire, g, c) /\ Keeps(g, h) /\ Quietly(q, c)
  BY DEF Tracked
<1> HIDE DEF g, h
<1>3. WireTrue(wire \o q, h, c) /\ Follows(wire, g, wire \o q, h, c)
  BY <1>2, QuietTrue DEF Track, Keeps, Quietly
<1>4. GateOK(h) /\ RingOK(h, c)
  BY <1>2 DEF Track, Keeps, GateOK, RingOK
<1>5. QED
  BY <1>3, <1>4 DEF Serves, Track, g, h

\* A turn begins, goes on or ends, and an event says so to whoever listens.
LEMMA EventGates ==
  ASSUME IsWire(wire), Tracked, DOMAIN gw = Conv, NEW c \in Conv, NEW new, gw' = [gw EXCEPT ![c] = new],
         new.on = gw[c].on, new.run = gw[c].run, GateOK(new), RingOK(new, c),
         NEW q, IsWire(q), \A d \in Conv \ {c} : Quietly(q, d), \A i \in DOMAIN q : ~Tells(q[i], c),
         NEW f, IsEvent(f, c), f.h = <<c, gw[c].run>>, Runs(f) <=> new.turn # None,
         wire' = IF gw[c].on THEN (wire \o q) \o <<f>> ELSE wire \o q
  PROVE  \A d \in Conv : Serves(d)
<1> DEFINE v == wire \o q
<1>1. IsWire(v) /\ wire' = IF gw[c].on THEN v \o <<f>> ELSE v
  BY LongerWire
<1>2. SUFFICES ASSUME NEW d \in Conv PROVE Serves(d)
  OBVIOUS
<1> DEFINE g == gw[d]
<1>3. Track(wire, g, d)
  BY DEF Tracked
<1>4. CASE d = c
  <2>1. WireTrue(wire', new, c) /\ Follows(wire, g, wire', new, c)
    <3>1. CASE gw[c].on
      <4>1. \A i \in DOMAIN v : Tells(v[i], c) => Named(v[i]) = <<c, gw[c].run>>
        <5>1. \A i \in DOMAIN v :
                \/ v[i] = wire[i] /\ i \in DOMAIN wire
                \/ v[i] = q[i - Len(wire)] /\ i - Len(wire) \in DOMAIN q
          <6>0. v = wire \o q
            OBVIOUS
          <6> HIDE DEF v
          <6>1. /\ Len(wire) \in Nat /\ Len(q) \in Nat
                /\ DOMAIN wire = 1..Len(wire) /\ DOMAIN q = 1..Len(q) /\ DOMAIN v = 1..(Len(wire) + Len(q))
                /\ \A k \in DOMAIN wire : v[k] = wire[k]
                /\ \A k \in DOMAIN q : v[Len(wire) + k] = q[k]
                /\ \A k \in DOMAIN v : k \in DOMAIN wire \/ k - Len(wire) \in DOMAIN q
            BY <6>0, LongerWire
          <6>2. \A i \in DOMAIN v : i \notin DOMAIN wire => v[i] = q[i - Len(wire)] /\ i - Len(wire) \in DOMAIN q
            BY <6>1
          <6>3. QED
            BY <6>1, <6>2
        <5> HIDE DEF v, g
        <5>2. WireTrue(wire, g, d) /\ g = gw[c]
          BY <1>3, <1>4 DEF Track, g
        <5>3. QED
          BY <1>4, <5>1, <5>2 DEF WireTrue
      <4> HIDE DEF v
      <4>2. WireTrue(v \o <<f>>, new, c) /\ Follows(wire, g, v \o <<f>>, new, c)
        BY <1>1, <1>4, <3>1, <4>1, EventTrue
      <4>3. QED
        BY <1>1, <3>1, <4>2
    <3>2. CASE ~gw[c].on
      <4> HIDE DEF g
      <4>1. ~g.on /\ WireTrue(wire, g, c)
        BY <1>3, <1>4, <3>2 DEF Track, g
      <4>2. WireTrue(wire \o q, new, c) /\ Follows(wire, g, wire \o q, new, c)
        BY <4>1, SilenceTrue
      <4>3. QED
        BY <1>1, <3>2, <4>2
    <3>3. QED
      BY <3>1, <3>2
  <2>2. gw'[d] = new
    BY <1>4
  <2>3. QED
    BY <1>4, <2>1, <2>2 DEF Serves, Track
<1>5. CASE d # c
  <2>1. Quietly(q, d) /\ gw'[d] = g
    BY <1>5
  <2>2. ~Tells(f, d) /\ ~Hints(f, d)
    BY <1>5 DEF Tells, Hints, IsEvent
  <2> HIDE DEF v, g
  <2>3. WireTrue(v, g, d) /\ Follows(wire, g, v, g, d)
    <3>1. WireTrue(wire \o q, g, d) /\ Follows(wire, g, wire \o q, g, d)
      BY <1>3, <2>1, QuietTrue DEF Track, Quietly
    <3>2. QED
      BY <3>1 DEF v
  <2>4. WireTrue(v \o <<f>>, g, d) /\ Follows(v, g, v \o <<f>>, g, d)
    <3> DEFINE one == <<f>>
    <3>1. IsWire(one) /\ \A i \in DOMAIN one : one[i] = f
      BY OneFrame
    <3> HIDE DEF one
    <3>2. WireTrue(v \o one, g, d) /\ Follows(v, g, v \o one, g, d)
      BY <1>1, <2>2, <2>3, <3>1, QuietTrue
    <3>3. QED
      BY <3>2 DEF one
  <2>5. WireTrue(wire', g, d) /\ Follows(wire, g, wire', g, d)
    <3>1. Follows(wire, g, v \o <<f>>, g, d)
      BY <2>3, <2>4, FollowsTwice
    <3>2. QED
      BY <1>1, <2>3, <2>4, <3>1
  <2>6. QED
    BY <1>3, <2>1, <2>5 DEF Serves, Track, g
<1>6. QED
  BY <1>4, <1>5

LEMMA SomeTurn ==
  ASSUME NEW t, NEW c, NEW turn, turn \in [p : Own(t, c), worked : BOOLEAN, ask : {"no", "open", "over"}]
  PROVE  turn # None
<1>1. turn \in [p : Prompt, worked : BOOLEAN, ask : {"no", "open", "over"}]
  BY DEF Own
<1>2. QED
  BY <1>1, ChatAssumption

LEMMA TurnGoesOn ==
  ASSUME NEW t, GatewayOK(gw, t), NEW c \in Conv, gw[c].turn # None
  PROVE  /\ gw[c].turn.p # None /\ [gw[c].turn EXCEPT !.worked = TRUE] # None
         /\ \A ask \in {"open", "over"} : [gw[c].turn EXCEPT !.ask = ask] # None
<1>1. gw[c].turn \in [p : Own(t, c), worked : BOOLEAN, ask : {"no", "open", "over"}]
  BY ConversationParts DEF TurnType
<1>2. gw[c].turn.p # None
  BY <1>1, ChatAssumption DEF Own
<1>3. [gw[c].turn EXCEPT !.worked = TRUE] \in [p : Own(t, c), worked : BOOLEAN, ask : {"no", "open", "over"}]
  BY <1>1
<1>4. \A ask \in {"open", "over"} :
        [gw[c].turn EXCEPT !.ask = ask] \in [p : Own(t, c), worked : BOOLEAN, ask : {"no", "open", "over"}]
  BY <1>1
<1>5. QED
  BY <1>2, <1>3, <1>4, SomeTurn

LEMMA WorldWire ==
  ASSUME NEW b \in BOOLEAN, World(b)
  PROVE  IsWire(wire) /\ GatewayOK(gw, Now(b)) /\ DOMAIN gw = Conv
BY DEF World, WireOK, GatewayOK, IsWire

\* A complete event is in the ring of no turn that runs.
LEMMA RingGrows ==
  ASSUME NEW t, GatewayOK(gw, t), Tracked, NEW c \in Conv, NEW f, f.h[1] = c, NEW h, h.ring = Append(gw[c].ring, f),
         h.turn # None => gw[c].turn # None /\ f.t # "complete"
  PROVE  RingOK(h, c)
<1> DEFINE ring == gw[c].ring
<1>1. ring \in Seq(OwnEvent(t)) /\ RingOK(gw[c], c)
  BY ConversationParts DEF Tracked, Track
<1>2. /\ DOMAIN ring = 1..Len(ring) /\ DOMAIN h.ring = 1..(Len(ring) + 1) /\ Len(ring) \in Nat
      /\ h.ring[Len(ring) + 1] = f /\ \A i \in DOMAIN ring : h.ring[i] = ring[i]
  BY <1>1
<1>3. \A i \in DOMAIN h.ring : i \in DOMAIN ring \/ i = Len(ring) + 1
  BY <1>2
<1>4. QED
  BY <1>1, <1>2, <1>3 DEF RingOK

LEMMA ToldIs ==
  ASSUME IsWire(wire), NEW g, NEW f, wire' = Told(g, <<f>>)
  PROVE  wire' = IF g.on THEN (wire \o <<>>) \o <<f>> ELSE wire \o <<>>
BY NoFrame DEF Told

LEMMA WorkServes ==
  ASSUME NEW b \in BOOLEAN, World(b), Tracked, NEW c \in Conv, Work(c)
  PROVE  \A d \in Conv : Serves(d)
<1> DEFINE g == gw[c]
           f == Event(c, "work", g.turn.p, FALSE)
           turn == [g.turn EXCEPT !.worked = TRUE]
           new == [g EXCEPT !.turn = turn, !.ring = Append(@, f)]
<1>1. /\ g.turn # None /\ wire' = Told(g, <<f>>)
      /\ gw' = [gw EXCEPT ![c].turn.worked = TRUE, ![c].ring = Append(@, f)]
  BY DEF Work
<1>2. IsWire(wire) /\ GatewayOK(gw, Now(b)) /\ DOMAIN gw = Conv
  BY WorldWire
<1>3. gw' = [gw EXCEPT ![c] = new]
  BY <1>1, <1>2
<1>4. turn # None
  BY <1>1, <1>2, TurnGoesOn
<1>5. f.h = <<c, gw[c].run>> /\ f.h[1] = c /\ IsEvent(f, c) /\ Runs(f) /\ f.t = "work"
  <2>1. f.h = <<c, gw[c].run>> /\ f.t = "work"
    BY DEF Event, Handle
  <2> HIDE DEF f
  <2>2. QED
    BY <2>1 DEF IsEvent, Runs
<1> HIDE DEF f, turn
<1>6. /\ new.on = g.on /\ new.run = g.run /\ new.up = g.up /\ new.born = g.born
      /\ new.turn = turn /\ new.ring = Append(g.ring, f)
  BY <1>2, ConversationParts DEF Conversation
<1> HIDE DEF new
<1>7. GateOK(new)
  BY <1>1, <1>6 DEF GateOK, Tracked, Track
<1>8. RingOK(new, c)
  BY <1>1, <1>2, <1>5, <1>6, RingGrows
<1>9. wire' = IF gw[c].on THEN (wire \o <<>>) \o <<f>> ELSE wire \o <<>>
  BY <1>1, <1>2, ToldIs
<1>10. IsWire(<<>>) /\ (\A d \in Conv \ {c} : Quietly(<<>>, d)) /\ \A i \in DOMAIN <<>> : ~Tells(<<>>[i], c)
  BY <1>2, NoFrame DEF Quietly
<1>11. Runs(f) <=> new.turn # None
  BY <1>4, <1>5, <1>6
<1>12. QED
  BY <1>2, <1>3, <1>5, <1>6, <1>7, <1>8, <1>9, <1>10, <1>11, EventGates

LEMMA AskServes ==
  ASSUME NEW b \in BOOLEAN, World(b), Tracked, NEW c \in Conv, gw[c].turn # None,
         NEW ask \in {"open", "over"}, NEW kind \in {"ask", "cancel"}, gw' = [gw EXCEPT ![c].turn.ask = ask],
         wire' = Told(gw[c], <<Event(c, kind, gw[c].turn.p, FALSE)>>)
  PROVE  \A d \in Conv : Serves(d)
<1> DEFINE f == Event(c, kind, gw[c].turn.p, FALSE)
           turn == [gw[c].turn EXCEPT !.ask = ask]
           q == IF gw[c].on THEN <<f>> ELSE <<>>
<1>1. IsWire(wire) /\ GatewayOK(gw, Now(b)) /\ DOMAIN gw = Conv
  BY WorldWire
<1>2. gw' = [gw EXCEPT ![c] = [gw[c] EXCEPT !.turn = turn]] /\ turn # None
  BY <1>1, TurnGoesOn
<1> HIDE DEF turn
<1>3. \A d \in Conv : Keeps(gw[d], gw'[d])
  <2>1. Keeps(gw[c], gw'[c])
    BY <1>1, <1>2, ConversationParts DEF Keeps, Conversation
  <2>2. QED
    BY <1>1, <1>2, <2>1 DEF Keeps
<1>4. \A d : ~Hints(f, d) /\ ~Tells(f, d)
  <2>1. f.t = kind
    BY DEF Event, Handle
  <2> HIDE DEF f
  <2>2. QED
    BY <2>1 DEF Hints, Tells, IsEvent
<1>5. wire' = Told(gw[c], <<f>>)
  OBVIOUS
<1> HIDE DEF f
<1>6. IsWire(q) /\ wire' = wire \o q /\ \A d \in Conv : Quietly(q, d)
  <2>1. CASE gw[c].on
    <3>1. q = <<f>> /\ wire' = wire \o <<f>>
      BY <1>5, <2>1 DEF Told
    <3>2. IsWire(<<f>>) /\ DOMAIN <<f>> = {1} /\ <<f>>[1] = f
      BY OneFrame
    <3> HIDE DEF q
    <3>3. QED
      BY <1>4, <3>1, <3>2 DEF Quietly
  <2>2. CASE ~gw[c].on
    BY <1>1, <1>5, <2>2, NoFrame DEF Told
  <2>3. QED
    BY <2>1, <2>2
<1> HIDE DEF q
<1>7. QED
  BY <1>1, <1>3, <1>6, QuietGates

LEMMA AskUserServes ==
  ASSUME NEW b \in BOOLEAN, World(b), Tracked, NEW c \in Conv, AskUser(c) \/ Withdraw(c)
  PROVE  \A d \in Conv : Serves(d)
<1>1. CASE AskUser(c)
  BY <1>1, AskServes DEF AskUser
<1>2. CASE Withdraw(c)
  BY <1>2, AskServes DEF Withdraw
<1>3. QED
  BY <1>1, <1>2

LEMMA EndIs ==
  ASSUME NEW t, GatewayOK(gw, t), NEW c \in Conv, gw[c].turn # None
  PROVE  /\ DOMAIN End(c) = DOMAIN gw[c] /\ End(c).turn = None /\ End(c).on = gw[c].on /\ End(c).run = gw[c].run
         /\ End(c).up = gw[c].up /\ End(c).born = gw[c].born /\ End(c).ring = gw[c].ring
         /\ {"up", "ring"} \subseteq DOMAIN gw[c]
<1>1. gw[c] \in Conversation(t, c)
  BY ConversationParts
<1>2. QED
  BY <1>1 DEF End, Conversation

\* A turn ends, after an answer to who asked for it.
LEMMA FinishServes ==
  ASSUME NEW b \in BOOLEAN, World(b), Tracked, NEW c \in Conv, gw[c].turn # None, NEW stopped \in BOOLEAN,
         Finish(c, stopped), NEW q, IsWire(q), \A d \in Conv : Quietly(q, d),
         wire' = IF gw[c].on THEN (wire \o q) \o <<Event(c, "complete", gw[c].turn.p, stopped)>> ELSE wire \o q
  PROVE  \A d \in Conv : Serves(d)
<1> DEFINE f == Event(c, "complete", gw[c].turn.p, stopped)
           new == [End(c) EXCEPT !.ring = Append(@, f)]
<1>1. IsWire(wire) /\ GatewayOK(gw, Now(b)) /\ DOMAIN gw = Conv
  BY WorldWire
<1>2. gw' = [gw EXCEPT ![c] = new]
  BY DEF Finish
<1>3. f.h = <<c, gw[c].run>> /\ f.h[1] = c /\ IsEvent(f, c) /\ ~Runs(f)
  <2>1. f.h = <<c, gw[c].run>> /\ f.t = "complete"
    BY DEF Event, Handle
  <2> HIDE DEF f
  <2>2. QED
    BY <2>1 DEF IsEvent, Runs
<1>4. wire' = IF gw[c].on THEN (wire \o q) \o <<f>> ELSE wire \o q
  OBVIOUS
<1> HIDE DEF f
<1>5. /\ new.on = gw[c].on /\ new.run = gw[c].run /\ new.up = gw[c].up /\ new.born = gw[c].born
      /\ new.turn = None /\ new.ring = Append(gw[c].ring, f)
  BY <1>1, EndIs
<1> HIDE DEF new
<1>6. GateOK(new)
  BY <1>5 DEF GateOK, Tracked, Track
<1>7. RingOK(new, c)
  BY <1>1, <1>3, <1>5, RingGrows
<1>8. (\A d \in Conv \ {c} : Quietly(q, d)) /\ \A i \in DOMAIN q : ~Tells(q[i], c)
  BY DEF Quietly
<1>9. Runs(f) <=> new.turn # None
  BY <1>3, <1>5
<1>10. QED
  BY <1>1, <1>2, <1>3, <1>4, <1>5, <1>6, <1>7, <1>8, <1>9, EventGates

LEMMA ReplyServes ==
  ASSUME NEW b \in BOOLEAN, World(b), Tracked, NEW c \in Conv, Reply(c)
  PROVE  \A d \in Conv : Serves(d)
<1>1. /\ gw[c].turn # None /\ Finish(c, FALSE)
      /\ wire' = Told(gw[c], <<Event(c, "complete", gw[c].turn.p, FALSE)>>)
  BY DEF Reply
<1>2. IsWire(wire)
  BY WorldWire
<1>3. wire' = IF gw[c].on THEN (wire \o <<>>) \o <<Event(c, "complete", gw[c].turn.p, FALSE)>> ELSE wire \o <<>>
  BY <1>1, <1>2, ToldIs
<1>4. IsWire(<<>>) /\ \A d \in Conv : Quietly(<<>>, d)
  BY <1>2, NoFrame
<1>5. QED
  BY <1>1, <1>3, <1>4, FinishServes

LEMMA ReapServes ==
  ASSUME NEW b \in BOOLEAN, World(b), Tracked, NEW c \in Conv, Reap(c)
  PROVE  \A d \in Conv : Serves(d)
<1> DEFINE over == IF gw[c].turn = None THEN gw[c] ELSE End(c)
           new == [over EXCEPT !.up = FALSE, !.ring = <<>>]
<1>1. gw' = [gw EXCEPT ![c] = new] /\ ~gw[c].on /\ wire' = wire
  BY DEF Reap
<1>2. IsWire(wire) /\ GatewayOK(gw, Now(b)) /\ DOMAIN gw = Conv
  BY WorldWire
<1>3. /\ over.turn = None /\ over.on = gw[c].on /\ over.run = gw[c].run
      /\ over.born = gw[c].born /\ {"up", "ring"} \subseteq DOMAIN over
  <2>1. gw[c] \in Conversation(Now(b), c)
    BY <1>2, ConversationParts
  <2>2. {"up", "ring"} \subseteq DOMAIN gw[c]
    BY <2>1 DEF Conversation
  <2>3. QED
    BY <1>2, <2>2, EndIs
<1> HIDE DEF over
<1>4. new.turn = None /\ ~new.on /\ ~new.up /\ new.ring = <<>>
  BY <1>1, <1>3
<1> HIDE DEF new
<1>5. GateOK(new) /\ RingOK(new, c)
  BY <1>4 DEF GateOK, RingOK
<1>6. SUFFICES ASSUME NEW d \in Conv PROVE Serves(d)
  OBVIOUS
<1>7. CASE d = c
  <2>1. WireTrue(wire, gw[c], c)
    BY DEF Tracked, Track
  <2>2. WireTrue(wire, new, c) /\ Follows(wire, gw[c], wire, new, c)
    BY <1>1, <2>1 DEF WireTrue, Follows
  <2>3. QED
    BY <1>1, <1>2, <1>5, <1>7, <2>2 DEF Serves, Track
<1>8. CASE d # c
  <2>1. gw'[d] = gw[d]
    BY <1>1, <1>8
  <2>2. QED
    BY <1>1, <2>1 DEF Serves, Tracked, Follows
<1>9. QED
  BY <1>7, <1>8

LEMMA SameKept ==
  ASSUME UNCHANGED gw
  PROVE  \A c \in Conv : Keeps(gw[c], gw'[c])
BY DEF Keeps

\* A call is answered, and the answer is silent about the turns.
LEMMA AnswerServes ==
  ASSUME NEW b \in BOOLEAN, World(b), Tracked, NEW call, NEW ok, NEW res, Serve(call, ok, res, <<>>),
         ~ok \/ call.k \notin {"resume", "create", "submit", "since"}, \A d \in Conv : Keeps(gw[d], gw'[d])
  PROVE  \A d \in Conv : Serves(d)
<1> DEFINE q == Answers(call, ok, res)
<1>1. IsWire(wire)
  BY WorldWire
<1>2. wire' = wire \o q /\ IsWire(q) /\ \A d \in Conv : Quietly(q, d)
  BY <1>1, ServeAloneIs, AnswersAre, QuietAnswers
<1> HIDE DEF q
<1>3. QED
  BY <1>1, <1>2, QuietGates

LEMMA SubmittedServes ==
  ASSUME NEW b \in BOOLEAN, World(b), Tracked, NEW call \in inbox, Submitted(call)
  PROVE  \A d \in Conv : Serves(d)
<1> DEFINE c == Of(call).h[1]
           p == Of(call).p
           starts == Live(Of(call).h) /\ gw[c].turn = None
           f == Event(c, "start", p, FALSE)
           frames == IF starts /\ gw[c].on THEN <<f>> ELSE <<>>
           turn == [p |-> p, worked |-> FALSE, ask |-> "no"]
           new == [gw[c] EXCEPT !.turn = turn, !.ring = <<>>]
           q == Answers(call, starts, None)
<1>1. /\ Of(call).k = "submit" /\ Serve(call, starts, None, frames)
      /\ gw' = IF starts THEN [gw EXCEPT ![c] = new] ELSE gw
  BY DEF Submitted, Begin
<1>2. c \in Conv /\ p \in Own(Now(b), c) /\ GatewayOK(gw, Now(b)) /\ IsWire(wire) /\ DOMAIN gw = Conv
  BY <1>1, WorldWire DEF World, InboxOK, CallOwn, Handles
<1>3. wire' = (wire \o q) \o frames /\ IsWire(q)
  <2> HIDE DEF starts, frames
  <2>1. IsWire(q)
    BY AnswersAre
  <2>2. wire' = (wire \o q) \o frames
    BY <1>1, <1>2, ServeIs
  <2>3. QED
    BY <2>1, <2>2
<1>4. CASE starts
  <2>1. gw[c].up /\ gw' = [gw EXCEPT ![c] = new]
    BY <1>1, <1>4 DEF Live
  <2>2. f.h = <<c, gw[c].run>> /\ IsEvent(f, c) /\ Runs(f)
    <3>1. f.h = <<c, gw[c].run>> /\ f.t = "start"
      BY DEF Event, Handle
    <3> HIDE DEF f, c
    <3>2. QED
      BY <3>1 DEF IsEvent, Runs
  <2>3. (\A d \in Conv \ {c} : Quietly(q, d)) /\ \A i \in DOMAIN q : ~Tells(q[i], c)
    <3>1. \A i \in DOMAIN q : q[i] = AnswerTo(call, starts, None) /\ call.k # "orphan"
      BY AnswersAre
    <3>2. call.k # "orphan" => call.k = "submit" /\ call.h[1] = c
      BY <1>1 DEF Of
    <3>3. call.k # "orphan" => /\ \A d : ~Tells(AnswerTo(call, starts, None), d)
                               /\ \A d : d # c => ~Hints(AnswerTo(call, starts, None), d)
      <4> HIDE DEF starts, c
      <4>1. QED
        BY <3>2 DEF AnswerTo, Tells, Hints, IsEvent
    <3> HIDE DEF q, starts, c
    <3>4. QED
      BY <3>1, <3>3 DEF Quietly
  <2>4. turn # None
    <3>1. turn \in [p : Own(Now(b), c), worked : BOOLEAN, ask : {"no", "open", "over"}]
      BY <1>2
    <3> HIDE DEF turn
    <3>2. QED
      BY <3>1, SomeTurn
  <2>5. wire' = IF gw[c].on THEN (wire \o q) \o <<f>> ELSE wire \o q
    <3>1. IsWire(wire \o q)
      BY <1>2, <1>3, LongerWire
    <3>2. (wire \o q) \o <<>> = wire \o q
      <4> DEFINE v == wire \o q
      <4> HIDE DEF q, v
      <4>1. v \o <<>> = v
        BY <3>1, NoFrame DEF v
      <4>2. QED
        BY <4>1 DEF v
    <3>3. frames = IF gw[c].on THEN <<f>> ELSE <<>>
      BY <1>4
    <3> HIDE DEF frames, f, q, c
    <3>4. QED
      BY <1>3, <3>2, <3>3
  <2> HIDE DEF c, q, f, frames, turn, starts
  <2>6. /\ new.on = gw[c].on /\ new.run = gw[c].run /\ new.up = gw[c].up /\ new.born = gw[c].born
        /\ new.turn = turn /\ new.ring = <<>>
    BY <1>2, ConversationParts DEF Conversation
  <2> HIDE DEF new
  <2>7. GateOK(new) /\ RingOK(new, c)
    BY <1>2, <2>1, <2>6 DEF GateOK, RingOK, Tracked, Track
  <2>8. Runs(f) <=> new.turn # None
    BY <2>2, <2>4, <2>6
  <2>9. QED
    BY <1>2, <1>3, <2>1, <2>2, <2>3, <2>5, <2>6, <2>7, <2>8, EventGates
<1>5. CASE ~starts
  <2>1. Serve(call, starts, None, <<>>) /\ UNCHANGED gw
    BY <1>1, <1>5
  <2> HIDE DEF starts
  <2>2. QED
    BY <1>5, <2>1, SameKept, AnswerServes
<1>6. QED
  BY <1>4, <1>5

LEMMA StoppedServes ==
  ASSUME NEW b \in BOOLEAN, World(b), Tracked, NEW call \in inbox, Stopped(call)
  PROVE  \A d \in Conv : Serves(d)
<1> DEFINE c == call.h[1]
           running == Live(call.h) /\ gw[c].turn # None
           f == Event(c, "complete", gw[c].turn.p, TRUE)
           frames == IF running /\ gw[c].on THEN <<f>> ELSE <<>>
           q == Answers(call, running, None)
<1>1. /\ call.k = "stop" /\ (IF running THEN Finish(c, TRUE) ELSE UNCHANGED gw)
      /\ Serve(call, running, None, frames)
  BY DEF Stopped
<1>2. c \in Conv /\ IsWire(wire)
  BY <1>1, WorldWire DEF World, InboxOK, CallOwn, Of, Handles
<1>3. wire' = (wire \o q) \o frames /\ IsWire(q) /\ \A d \in Conv : Quietly(q, d)
  BY <1>1, <1>2, ServeIs, AnswersAre, QuietAnswers
<1>4. CASE running
  <2>1. wire' = IF gw[c].on THEN (wire \o q) \o <<f>> ELSE wire \o q
    <3>1. IsWire(wire \o q)
      BY <1>2, <1>3, LongerWire
    <3>2. (wire \o q) \o <<>> = wire \o q
      <4> DEFINE v == wire \o q
      <4> HIDE DEF q, v
      <4>1. v \o <<>> = v
        BY <3>1, NoFrame DEF v
      <4>2. QED
        BY <4>1 DEF v
    <3>3. frames = IF gw[c].on THEN <<f>> ELSE <<>>
      BY <1>4
    <3> HIDE DEF frames, f, q, c
    <3>4. QED
      BY <1>3, <3>2, <3>3
  <2>2. gw[c].turn # None /\ Finish(c, TRUE)
    BY <1>1, <1>4
  <2> HIDE DEF c, running, q
  <2>3. QED
    BY <1>2, <1>3, <2>1, <2>2, FinishServes
<1>5. CASE ~running
  <2>1. Serve(call, running, None, <<>>) /\ UNCHANGED gw
    BY <1>1, <1>5
  <2> HIDE DEF running
  <2>2. QED
    BY <1>5, <2>1, SameKept, AnswerServes
<1>6. QED
  BY <1>4, <1>5

LEMMA ResumedServes ==
  ASSUME NEW b \in BOOLEAN, World(b), Tracked, NEW call \in inbox, Resumed(call)
  PROVE  \A d \in Conv : Serves(d)
<1> DEFINE c == call.c
           g == IF gw[c].up THEN gw[c] ELSE [gw[c] EXCEPT !.up = TRUE, !.run = @ + 1]
           new == [g EXCEPT !.on = TRUE]
           res == [h |-> <<c, g.run>>, p |-> IF g.turn = None THEN None ELSE g.turn.p, ask |-> Parked(g)]
           f == [t |-> "answer", call |-> call, ok |-> TRUE, res |-> res]
           q == <<f>>
<1>1. call.k = "resume" /\ gw' = [gw EXCEPT ![c] = new] /\ Serve(call, TRUE, res, <<>>)
  BY DEF Resumed
<1>2. c \in Known(Now(b)) /\ GatewayOK(gw, Now(b)) /\ IsWire(wire) /\ DOMAIN gw = Conv
  BY <1>1, WorldWire DEF World, InboxOK, CallOwn, Of
<1>3. c \in Conv /\ gw[c].born
  BY <1>2 DEF Known, Now
<1>4. wire' = wire \o q
  <2>1. wire' = Append(wire, f) \o <<>>
    BY <1>1 DEF Serve
  <2> HIDE DEF f
  <2>2. IsWire(wire \o q) /\ Append(wire, f) = wire \o q
    BY <1>2, LastFrame DEF IsWire
  <2> DEFINE v == wire \o q
  <2>3. IsWire(v) /\ wire' = v \o <<>>
    BY <2>1, <2>2
  <2> HIDE DEF v
  <2>4. v \o <<>> = v
    BY <2>3, NoFrame
  <2>5. QED
    BY <2>3, <2>4 DEF v
<1>5. /\ new.on /\ new.up /\ new.born /\ new.run = g.run /\ new.turn = gw[c].turn /\ new.ring = gw[c].ring
      /\ gw[c].up => g = gw[c]
      /\ g.turn = gw[c].turn
  <2>1. gw[c] \in Conversation(Now(b), c)
    BY <1>2, <1>3, ConversationParts
  <2> DEFINE old == gw[c]
  <2>2. old \in Conversation(Now(b), c) /\ old.born
    BY <1>3, <2>1
  <2> HIDE DEF old, c
  <2>3. QED
    BY <2>2 DEF Conversation, old
<1>6. f.t = "answer" /\ f.ok /\ f.call = call /\ f.res.h = <<c, g.run>> /\ (f.res.p # None <=> gw[c].turn # None)
  <2>1. f.res.h = <<c, g.run>> /\ f.res.p = IF g.turn = None THEN None ELSE g.turn.p
    OBVIOUS
  <2>2. gw[c].turn # None => gw[c].turn.p # None
    BY <1>2, <1>3, TurnGoesOn
  <2> HIDE DEF g, c
  <2>3. QED
    BY <1>5, <2>1, <2>2
<1> HIDE DEF f, res, g, new, c
<1>7. /\ \A d : ~IsEvent(f, d) /\ ~Hints(f, d) /\ (d # c => ~Tells(f, d))
      /\ Named(f) = <<c, new.run>> /\ (Runs(f) <=> new.turn # None)
  BY <1>1, <1>5, <1>6 DEF IsEvent, Tells, Hints, Named, Runs, c
<1>8. GateOK(new) /\ RingOK(new, c)
  BY <1>3, <1>5 DEF GateOK, RingOK, Tracked, Track
<1>9. SUFFICES ASSUME NEW d \in Conv PROVE Serves(d)
  OBVIOUS
<1>10. Track(wire, gw[d], d)
  BY DEF Tracked
<1>11. CASE d = c
  <2>1. WireTrue(wire \o <<f>>, new, c) /\ Follows(wire, gw[c], wire \o <<f>>, new, c)
    <3> DEFINE old == gw[c]
    <3>1. /\ WireTrue(wire, old, c) /\ (old.on => old.up) /\ (old.up => new.run = old.run)
          /\ new.turn = old.turn
      BY <1>5, <1>10, <1>11 DEF Track, GateOK
    <3>2. CASE gw[c].on
      <4>1. /\ (new.on <=> old.on) /\ old.on /\ new.run = old.run
            /\ new.turn # None <=> old.turn # None
            /\ ~IsEvent(f, c) /\ Named(f) = <<c, old.run>> /\ (Runs(f) <=> old.turn # None)
        BY <1>5, <1>7, <3>1, <3>2
      <4> HIDE DEF old
      <4>2. WireTrue(wire \o <<f>>, new, c) /\ Follows(wire, old, wire \o <<f>>, new, c)
        BY <1>2, <3>1, <4>1, AnswerTrue
      <4>3. QED
        BY <4>2 DEF old
    <3>3. CASE ~gw[c].on
      <4>1. ~old.on
        BY <3>3
      <4> HIDE DEF old
      <4>2. WireTrue(wire \o <<f>>, new, c) /\ Follows(wire, old, wire \o <<f>>, new, c)
        BY <1>2, <1>5, <1>7, <3>1, <4>1, FirstTrue
      <4>3. QED
        BY <4>2 DEF old
    <3>4. QED
      BY <3>2, <3>3
  <2>2. gw'[d] = new
    BY <1>1, <1>2, <1>11
  <2>3. QED
    BY <1>4, <1>8, <1>11, <2>1, <2>2 DEF Serves, Track
<1>12. CASE d # c
  <2>1. gw'[d] = gw[d]
    BY <1>1, <1>12
  <2>2. IsWire(q) /\ \A i \in DOMAIN q : ~Tells(q[i], d) /\ ~Hints(q[i], d)
    BY <1>7, <1>12, OneFrame
  <2> HIDE DEF q
  <2>3. WireTrue(wire \o q, gw[d], d) /\ Follows(wire, gw[d], wire \o q, gw[d], d)
    BY <1>2, <1>10, <2>2, QuietTrue DEF Track
  <2>4. QED
    BY <1>4, <1>10, <2>1, <2>3 DEF Serves, Track
<1>13. QED
  BY <1>11, <1>12

\* An answer that comes alone is one more frame.
LEMMA OneAnswer ==
  ASSUME IsWire(wire), NEW call, call.k # "orphan", NEW ok, NEW res, Serve(call, ok, res, <<>>)
  PROVE  wire' = wire \o <<AnswerTo(call, ok, res)>>
BY ServeAloneIs DEF Answers

LEMMA CreatedServes ==
  ASSUME NEW b \in BOOLEAN, World(b), Tracked, NEW call \in inbox, Created(call)
  PROVE  \A d \in Conv : Serves(d)
<1> DEFINE born(c) == gw' = [gw EXCEPT ![c].born = TRUE, ![c].up = TRUE, ![c].run = 1, ![c].on = TRUE]
<1>0. /\ call.k = "create"
      /\ \/ Serve(call, FALSE, None, <<>>) /\ UNCHANGED gw
         \/ \E c \in Conv : ~gw[c].born /\ born(c) /\ Serve(call, TRUE, <<c, 1>>, <<>>)
  BY Zenon DEF Created
<1> HIDE DEF born
<1>1. CASE Serve(call, FALSE, None, <<>>) /\ UNCHANGED gw
  BY <1>1, SameKept, AnswerServes
<1>2. CASE \E c \in Conv : ~gw[c].born /\ born(c) /\ Serve(call, TRUE, <<c, 1>>, <<>>)
  <2>1. PICK c \in Conv : ~gw[c].born /\ born(c) /\ Serve(call, TRUE, <<c, 1>>, <<>>)
    BY <1>2
  <2> DEFINE new == [gw[c] EXCEPT !.born = TRUE, !.up = TRUE, !.run = 1, !.on = TRUE]
             f == AnswerTo(call, TRUE, <<c, 1>>)
             q == <<f>>
  <2>2. GatewayOK(gw, Now(b)) /\ IsWire(wire) /\ DOMAIN gw = Conv
    BY WorldWire
  <2>3. gw' = [gw EXCEPT ![c] = new]
    BY <2>1, <2>2 DEF born
  <2>4. wire' = wire \o q
    BY <1>0, <2>1, <2>2, OneAnswer
  <2>5. /\ new.on /\ new.up /\ new.born /\ new.run = 1 /\ new.turn = gw[c].turn /\ new.ring = gw[c].ring
    BY <2>2, ConversationParts DEF Conversation
  <2>6. f.t = "answer" /\ f.ok /\ f.call = call /\ f.res = <<c, 1>> /\ f.res[1] = c
    BY DEF AnswerTo
  <2> HIDE DEF new, f
  <2>7. Track(wire, gw[c], c) /\ ~gw[c].on /\ gw[c].turn = None
    BY <2>1 DEF Tracked, Track, GateOK
  <2>8. /\ \A d : ~IsEvent(f, d) /\ ~Hints(f, d) /\ (d # c => ~Tells(f, d))
        /\ Named(f) = <<c, new.run>> /\ (Runs(f) <=> new.turn # None)
    BY <1>0, <2>5, <2>6, <2>7 DEF IsEvent, Tells, Hints, Named, Runs
  <2>9. GateOK(new) /\ RingOK(new, c)
    BY <2>5, <2>7 DEF GateOK, RingOK, Track
  <2>10. SUFFICES ASSUME NEW d \in Conv PROVE Serves(d)
    OBVIOUS
  <2>11. CASE d = c
    <3> DEFINE old == gw[c]
    <3>1. ~old.on /\ WireTrue(wire, old, c)
      BY <2>7 DEF Track
    <3> HIDE DEF old
    <3>2. WireTrue(wire \o <<f>>, new, c) /\ Follows(wire, old, wire \o <<f>>, new, c)
      BY <2>2, <2>5, <2>8, <3>1, FirstTrue
    <3>3. gw'[d] = new
      BY <2>2, <2>3, <2>11
    <3>4. QED
      BY <2>4, <2>9, <2>11, <3>2, <3>3 DEF Serves, Track, old
  <2>12. CASE d # c
    <3>1. gw'[d] = gw[d] /\ Track(wire, gw[d], d)
      BY <2>3, <2>12 DEF Tracked
    <3>2. IsWire(q) /\ \A i \in DOMAIN q : ~Tells(q[i], d) /\ ~Hints(q[i], d)
      BY <2>8, <2>12, OneFrame
    <3> HIDE DEF q
    <3>3. WireTrue(wire \o q, gw[d], d) /\ Follows(wire, gw[d], wire \o q, gw[d], d)
      BY <2>2, <3>1, <3>2, QuietTrue DEF Track
    <3>4. QED
      BY <2>4, <3>1, <3>3 DEF Serves, Track
  <2>13. QED
    BY <2>11, <2>12
<1>3. QED
  BY <1>0, <1>1, <1>2

LEMMA ReadServes ==
  ASSUME NEW b \in BOOLEAN, World(b), Tracked, NEW call \in inbox, Read(call)
  PROVE  \A d \in Conv : Serves(d)
<1> DEFINE c == call.h[1]
           g == gw[c]
           ok == Live(call.h)
           res == IF call.k = "history" THEN g.hist ELSE [h |-> call.h, events |-> g.ring, ask |-> Parked(g)]
           f == AnswerTo(call, ok, res)
           q == <<f>>
<1>1. call.k \in {"history", "since"} /\ Serve(call, ok, res, <<>>) /\ UNCHANGED gw
  BY DEF Read
<1>2. c \in Conv /\ IsWire(wire)
  BY <1>1, WorldWire DEF World, InboxOK, CallOwn, Of, Handles
<1>3. CASE ~ok \/ call.k = "history"
  <2> HIDE DEF ok, res
  <2>1. QED
    BY <1>1, <1>3, SameKept, AnswerServes
<1>4. CASE ok /\ call.k = "since"
  <2> HIDE DEF ok
  <2>1. f.t = "answer" /\ f.ok /\ f.call = call /\ f.res.events = gw[c].ring
    BY <1>4 DEF AnswerTo
  <2>2. wire' = wire \o q
    <3> HIDE DEF res
    <3>1. QED
      BY <1>1, <1>2, OneAnswer
  <2> HIDE DEF f, res
  <2>3. SUFFICES ASSUME NEW d \in Conv PROVE Serves(d)
    OBVIOUS
  <2>4. Track(wire, gw[d], d) /\ RingOK(gw[c], c) /\ gw'[d] = gw[d]
    BY <1>1, <1>2 DEF Tracked, Track
  <2>5. ~IsEvent(f, d) /\ ~Tells(f, d) /\ ~Runs(f)
    BY <1>4, <2>1 DEF IsEvent, Tells, Runs
  <2>6. Hints(f, d) => d = c /\ gw[d].turn = None
    <3> HIDE DEF c
    <3>1. QED
      BY <1>4, <2>1, <2>4 DEF Hints, RingOK
  <2> HIDE DEF c, g
  <2>7. WireTrue(wire \o <<f>>, gw[d], d) /\ Follows(wire, gw[d], wire \o <<f>>, gw[d], d)
    BY <1>2, <2>4, <2>5, <2>6, AnswerTrue DEF Track
  <2>8. QED
    BY <2>2, <2>4, <2>7 DEF Serves, Track
<1>5. QED
  BY <1>1, <1>3, <1>4

LEMMA UnparkedServes ==
  ASSUME NEW b \in BOOLEAN, World(b), Tracked, NEW call \in inbox, Unparked(call)
  PROVE  \A d \in Conv : Serves(d)
<1> DEFINE h == Of(call).h
           c == h[1]
           open == Live(h) /\ gw[c].turn # None /\ gw[c].turn.p = Of(call).sheet.p /\ gw[c].turn.ask = "open"
           turn == [gw[c].turn EXCEPT !.ask = "over"]
           new == [gw[c] EXCEPT !.turn = turn]
<1>1. /\ Of(call).k \in {"respond", "response"}
      /\ gw' = IF open THEN [gw EXCEPT ![c].turn.ask = "over"] ELSE gw
      /\ \/ UNCHANGED wire
         \/ Serve(call, TRUE, ~open, <<>>)
  BY DEF Unparked
<1>2. c \in Conv /\ GatewayOK(gw, Now(b)) /\ IsWire(wire) /\ DOMAIN gw = Conv
  BY <1>1, WorldWire DEF World, InboxOK, CallOwn, Handles
<1>3. \A d \in Conv : Keeps(gw[d], gw'[d])
  <2>1. CASE open
    <3>1. gw' = [gw EXCEPT ![c] = new] /\ gw[c].turn # None
      BY <1>1, <1>2, <2>1
    <3>2. turn # None
      BY <1>2, <3>1, TurnGoesOn
    <3> HIDE DEF turn, c, open
    <3>3. Keeps(gw[c], new)
      BY <1>2, <3>1, <3>2, ConversationParts DEF Keeps, Conversation
    <3> HIDE DEF new
    <3>4. QED
      BY <1>2, <3>1, <3>3 DEF Keeps
  <2>2. CASE ~open
    BY <1>1, <2>2, SameKept
  <2>3. QED
    BY <2>1, <2>2
<1>4. CASE UNCHANGED wire
  <2>1. wire' = wire \o <<>> /\ IsWire(<<>>) /\ \A d \in Conv : Quietly(<<>>, d)
    BY <1>2, <1>4, NoFrame
  <2>2. QED
    BY <1>2, <1>3, <2>1, QuietGates
<1>5. CASE Serve(call, TRUE, ~open, <<>>)
  <2>1. call.k \notin {"resume", "create", "submit", "since"}
    BY <1>1 DEF Of
  <2> HIDE DEF open
  <2>2. QED
    BY <1>3, <1>5, <2>1, AnswerServes
<1>6. QED
  BY <1>1, <1>4, <1>5

LEMMA UnwoundServes ==
  ASSUME NEW b \in BOOLEAN, World(b), Tracked, NEW call \in inbox, Unwound(call)
  PROVE  \A d \in Conv : Serves(d)
<1> DEFINE h == Of(call).h
           c == h[1]
           fits == Live(h) /\ gw[c].turn = None /\ TurnsIn(gw[c].hist) >= Of(call).turns
<1>1. /\ Of(call).k = "undo" /\ Serve(call, fits, None, <<>>)
      /\ \/ \E kept : gw' = [gw EXCEPT ![c].hist = kept]
         \/ UNCHANGED gw
  BY DEF Unwound
<1> HIDE DEF fits
<1>2. c \in Conv /\ GatewayOK(gw, Now(b)) /\ DOMAIN gw = Conv
  BY <1>1, WorldWire DEF World, InboxOK, CallOwn, Handles
<1>3. \A d \in Conv : Keeps(gw[d], gw'[d])
  <2>1. CASE \E kept : gw' = [gw EXCEPT ![c].hist = kept]
    <3>1. PICK kept : gw' = [gw EXCEPT ![c].hist = kept]
      BY <2>1
    <3> DEFINE new == [gw[c] EXCEPT !.hist = kept]
    <3>2. gw' = [gw EXCEPT ![c] = new]
      BY <1>2, <3>1
    <3> HIDE DEF c
    <3>3. Keeps(gw[c], new)
      BY <1>2, ConversationParts DEF Keeps, Conversation
    <3> HIDE DEF new
    <3>4. QED
      BY <1>2, <3>2, <3>3 DEF Keeps
  <2>2. CASE UNCHANGED gw
    BY <2>2, SameKept
  <2>3. QED
    BY <1>1, <2>1, <2>2
<1>4. call.k \notin {"resume", "create", "submit", "since"}
  BY <1>1 DEF Of
<1>5. QED
  BY <1>1, <1>3, <1>4, AnswerServes

\* Whatever the gateway does, and when a socket goes.
LEMMA GatewayServes ==
  ASSUME NEW b \in BOOLEAN, World(b), Tracked, ServeCall \/ Turns
  PROVE  \A d \in Conv : Serves(d)
<1>1. CASE ServeCall
  <2>1. PICK call \in inbox : \/ Submitted(call) \/ Resumed(call) \/ Created(call) \/ Read(call)
                              \/ Unparked(call) \/ Unwound(call) \/ Stopped(call)
    BY <1>1 DEF ServeCall
  <2>2. QED
    BY <2>1, SubmittedServes, ResumedServes, CreatedServes, ReadServes, UnparkedServes, UnwoundServes, StoppedServes
<1>2. CASE Turns
  <2>1. PICK c \in Conv : Work(c) \/ AskUser(c) \/ Withdraw(c) \/ Reply(c) \/ Reap(c)
    BY <1>2 DEF Turns
  <2>2. QED
    BY <2>1, WorkServes, AskUserServes, ReplyServes, ReapServes
<1>3. QED
  BY <1>1, <1>2

LEMMA DropTracks ==
  ASSUME NEW b \in BOOLEAN, World(b), Tracked, Drop
  PROVE  \A c \in Conv : Track(wire', gw'[c], c)
<1>1. wire' = <<>> /\ gw' = [c \in Conv |-> [gw[c] EXCEPT !.on = FALSE]]
  BY DEF Drop
<1>2. SUFFICES ASSUME NEW c \in Conv PROVE Track(wire', gw'[c], c)
  OBVIOUS
<1>3. WireTrue(wire', gw'[c], c)
  BY <1>1 DEF WireTrue
<1>4. /\ ~gw'[c].on /\ gw'[c].up = gw[c].up /\ gw'[c].born = gw[c].born /\ gw'[c].turn = gw[c].turn
      /\ gw'[c].ring = gw[c].ring
  BY <1>1, WorldWire, ConversationParts DEF Conversation
<1>5. GateOK(gw'[c]) /\ RingOK(gw'[c], c)
  BY <1>4 DEF GateOK, RingOK, Tracked, Track
<1>6. QED
  BY <1>3, <1>5 DEF Track

-----------------------------------------------------------------------------
(* The stop button on the phone.  It is right about the conversation on    *)
(* screen but for what the wire still has to say of it (Settled), or a     *)
(* resume is under way that will tell (Awaits).  First the store.          *)

Races == {"boots", "back", "submit", "outrun", "revived"}
Raced(x) == x.crossed \cap Races # {}

Sent(x) == \E call \in x.asked : call.k = "submit" /\ call.h = x.h

\* A step of the store in its conversation, which still waits for what it waited for,
Stays(x, y) ==
  /\ Shape(y) /\ y.up = x.up /\ y.h = x.h /\ y.here = x.here
  /\ x.crossed \cap Races \subseteq y.crossed
  /\ \A call \in x.asked : call.k # "response" => call \in y.asked

\* and shows no turn that it has not just asked for.
Steadily(x, y) == Stays(x, y) /\ (Raced(y) \/ (y.running <=> x.running) \/ (y.running /\ Sent(y)))

Calmly(x, y) == Stays(x, y) /\ (y.running <=> x.running)

LEMMA StaysTwice ==
  ASSUME NEW x, NEW y, NEW z
  PROVE  /\ Stays(x, y) /\ Stays(y, z) => Stays(x, z)
         /\ Steadily(x, y) /\ Steadily(y, z) => Steadily(x, z)
         /\ Calmly(x, y) /\ Steadily(y, z) => Steadily(x, z)
<1>1. Stays(x, y) /\ Stays(y, z) => Stays(x, z)
  BY DEF Stays
<1>2. Stays(y, z) /\ Sent(y) => Sent(z)
  BY DEF Stays, Sent
<1>3. Stays(y, z) /\ Raced(y) => Raced(z)
  BY DEF Stays, Raced
<1>4. QED
  BY <1>1, <1>2, <1>3 DEF Steadily, Calmly

LEMMA CalmSteps ==
  ASSUME NEW x, Shape(x), NEW call
  PROVE  /\ Calmly(x, x) /\ Calmly(x, Rewound(x, call)) /\ Calmly(x, Call(x, call)) /\ Calmly(x, UndoFailed(x))
         /\ \A race : Calmly(x, Cross(x, race))
BY DEF Calmly, Stays, Shape, Rewound, Call, UndoFailed, Cross

LEMMA CalmSheets ==
  ASSUME NEW x, Shape(x), NEW h, NEW p, NEW res, NEW call, NEW ended
  PROVE  /\ Calmly(x, ApplyServerRequest(x, h, p)) /\ Calmly(x, CancelServerRequest(x, h, p))
         /\ Calmly(x, DeliverOpenRequests(x, res)) /\ Calmly(x, RespondFailed(x, call))
         /\ Calmly(x, Responded(x, call, ended))
<1>1. Calmly(x, ApplyServerRequest(x, h, p)) /\ Calmly(x, CancelServerRequest(x, h, p))
  BY DEF Calmly, Stays, Shape, ApplyServerRequest, CancelServerRequest
<1>2. Calmly(x, DeliverOpenRequests(x, res))
  BY DEF Calmly, Stays, Shape, DeliverOpenRequests, ApplyServerRequest
<1>3. Calmly(x, RespondFailed(x, call))
  <2> DEFINE alone == \A other \in x.asked : other.k # "respond"
             late == IF call.h = x.h /\ x.running /\ alone THEN x ELSE Cross(x, "sheet")
  <2>1. Calmly(x, late)
    BY CalmSteps
  <2>2. RespondFailed(x, call) = [late EXCEPT !.sheet = IF @ = None THEN call.sheet ELSE @]
    BY DEF RespondFailed
  <2> HIDE DEF late
  <2>3. QED
    BY <2>1, <2>2 DEF Calmly, Stays, Shape
<1>4. Calmly(x, Responded(x, call, ended))
  BY DEF Calmly, Stays, Shape, Responded
<1>5. QED
  BY <1>1, <1>2, <1>3, <1>4

LEMMA CalmRespond ==
  ASSUME NEW x, Shape(x)
  PROVE  Calmly(x, Respond(x))
<1> DEFINE call == [k |-> "respond", h |-> x.h, sheet |-> x.sheet]
           cleared == [x EXCEPT !.sheet = None, !.held = IF x.sheet.srq THEN @ \ {x.sheet.p} ELSE @]
<1>1. Calmly(x, cleared) /\ Shape(cleared)
  BY DEF Calmly, Stays, Shape
<1>2. Respond(x) = IF x.sheet.srq /\ x.sheet.p \in x.held THEN Call(cleared, [call EXCEPT !.k = "response"])
                   ELSE IF x.up THEN Call(cleared, call) ELSE RespondFailed(cleared, call)
  BY DEF Respond
<1> HIDE DEF cleared, call
<1>3. /\ Calmly(cleared, Call(cleared, call)) /\ Calmly(cleared, RespondFailed(cleared, call))
      /\ \A other : Calmly(cleared, Call(cleared, other))
  BY <1>1, CalmSteps, CalmSheets
<1>4. QED
  BY <1>1, <1>2, <1>3 DEF Calmly, Stays

\* A prompt that failed, or could not be sent.
LEMMA FailedStays ==
  ASSUME NEW x, Shape(x), NEW call
  PROVE  Stays(x, SubmitFailed(x, call)) /\ "submit" \in SubmitFailed(x, call).crossed
BY DEF Stays, Shape, SubmitFailed, Rewound, Cross

LEMMA SubmitSteady ==
  ASSUME NEW x, Shape(x), NEW p, NEW rewound
  PROVE  Steadily(x, SubmitPrompt(x, p, rewound))
<1> DEFINE call == [k |-> "submit", h |-> x.h, p |-> p, rewound |-> rewound]
           shown == [x EXCEPT !.rows = Append(@, <<"user", p>>), !.running = TRUE, !.inflight = None]
           held == [x EXCEPT !.queued = p]
<1>1. SubmitPrompt(x, p, rewound) = IF x.h = None THEN Rewound(x, call)
                                    ELSE IF x.running THEN Rewound(held, call)
                                    ELSE IF x.up THEN Call(shown, call) ELSE SubmitFailed(shown, call)
  BY DEF SubmitPrompt
<1>2. Calmly(x, held) /\ Shape(held)
  BY DEF Calmly, Stays, Shape
<1>3. Stays(x, shown) /\ Shape(shown) /\ shown.running /\ shown.h = x.h
  BY DEF Stays, Shape
<1>4. call.k = "submit" /\ call.h = x.h
  OBVIOUS
<1> HIDE DEF call, shown, held
<1>5. Calmly(x, Rewound(x, call)) /\ Calmly(held, Rewound(held, call)) /\ Calmly(shown, Call(shown, call))
  BY <1>2, <1>3, CalmSteps
<1>6. Sent(Call(shown, call))
  BY <1>3, <1>4 DEF Sent, Call, Shape
<1>7. Stays(shown, SubmitFailed(shown, call)) /\ "submit" \in SubmitFailed(shown, call).crossed
  BY <1>3, FailedStays
<1>8. Steadily(x, Call(shown, call))
  BY <1>3, <1>5, <1>6, StaysTwice DEF Steadily, Calmly
<1>9. Steadily(x, SubmitFailed(shown, call))
  BY <1>3, <1>7, StaysTwice DEF Steadily, Raced, Races
<1>10. Steadily(x, Rewound(held, call))
  BY <1>2, <1>5, StaysTwice DEF Steadily, Calmly
<1>11. QED
  BY <1>1, <1>5, <1>8, <1>9, <1>10 DEF Steadily, Calmly

LEMMA SendSteady ==
  ASSUME NEW x, Shape(x), NEW i, NEW p, NEW call
  PROVE  /\ Steadily(x, SendNow(x)) /\ Steadily(x, ResendFailed(x, i)) /\ Steadily(x, Rewind(x, i, p))
         /\ Steadily(x, Undone(x, call))
<1>1. Steadily(x, SendNow(x))
  <2> DEFINE y == [x EXCEPT !.queued = None]
  <2>1. Calmly(x, y) /\ Shape(y)
    BY DEF Calmly, Stays, Shape
  <2>2. SendNow(x) = SubmitPrompt(y, x.queued, FALSE)
    BY DEF SendNow
  <2> HIDE DEF y
  <2>3. \A r : Steadily(y, SubmitPrompt(y, x.queued, r))
    BY <2>1, SubmitSteady
  <2>4. QED
    BY <2>1, <2>2, <2>3, StaysTwice
<1>2. Steadily(x, ResendFailed(x, i))
  <2> DEFINE y == [x EXCEPT !.rows = RemoveAt(@, i)]
  <2>1. Calmly(x, y) /\ Shape(y)
    BY DEF Calmly, Stays, Shape
  <2>2. ResendFailed(x, i) = SubmitPrompt(y, x.rows[i][2], FALSE)
    BY DEF ResendFailed
  <2> HIDE DEF y
  <2>3. \A r : Steadily(y, SubmitPrompt(y, x.rows[i][2], r))
    BY <2>1, SubmitSteady
  <2>4. QED
    BY <2>1, <2>2, <2>3, StaysTwice
<1>3. Steadily(x, Rewind(x, i, p))
  BY DEF Steadily, Stays, Shape, Rewind, Call
<1>4. Steadily(x, Undone(x, call))
  <2> DEFINE read == IF \E other \in x.asked : other.k = "history" THEN Cross(x, "ended") ELSE x
             late == IF call.h = x.h /\ call.rows = x.rows THEN read ELSE Cross(read, "rewind")
             y == [late EXCEPT !.rows = SubSeq(call.rows, 1, call.cut)]
  <2>1. Calmly(x, read) /\ Shape(read)
    BY CalmSteps DEF Calmly, Stays
  <2>2. Undone(x, call) = SubmitPrompt(y, call.p, TRUE)
    BY DEF Undone
  <2>3. Calmly(read, Cross(read, "rewind")) /\ Calmly(read, read)
    <3> HIDE DEF read
    <3>1. QED
      BY <2>1, CalmSteps
  <2>4. Calmly(x, late) /\ Shape(late)
    <3> HIDE DEF read
    <3>1. QED
      BY <2>1, <2>3 DEF Calmly, Stays
  <2>5. Calmly(x, y) /\ Shape(y)
    <3> HIDE DEF late
    <3>1. QED
      BY <2>4 DEF Calmly, Stays, Shape
  <2> HIDE DEF y
  <2>6. \A r : Steadily(y, SubmitPrompt(y, call.p, r))
    BY <2>5, SubmitSteady
  <2>7. QED
    BY <2>2, <2>5, <2>6, StaysTwice
<1>5. QED
  BY <1>1, <1>2, <1>3, <1>4

\* What an event leaves: after it the store knows.
Learnt(y, f) == /\ f.t \in {"start", "work"} => y.running
                /\ f.t = "complete" => Raced(y) \/ ~y.running \/ (y.running /\ Sent(y))

LEMMA FoldLearns ==
  ASSUME NEW x, Shape(x), NEW f
  PROVE  /\ Stays(x, Fold(x, f)) /\ Learnt(Fold(x, f), f)
         /\ f.t # "complete" /\ x.running => Fold(x, f).running
<1>1. CASE f.t \in {"start", "work"}
  <2>1. Fold(x, f) = [x EXCEPT !.running = TRUE]
        \/ Fold(x, f) = [x EXCEPT !.running = TRUE, !.rows = Append(@, <<"tool", f.p>>)]
    BY <1>1 DEF Fold
  <2>2. QED
    BY <1>1, <2>1 DEF Learnt, Stays, Shape
<1>2. CASE f.t = "complete"
  <2> DEFINE over == [x EXCEPT !.running = FALSE, !.sheet = None, !.inflight = None,
                               !.rows = Append(@, <<"reply", f.p>>)]
  <2>1. Stays(x, over) /\ Shape(over) /\ ~over.running
    BY DEF Stays, Shape
  <2>2. Fold(x, f) = IF x.queued = None \/ f.stopped THEN over ELSE SendNow(over)
    <3>1. over.queued = x.queued
      BY DEF Shape
    <3>2. QED
      BY <1>2, <3>1 DEF Fold, Complete
  <2> HIDE DEF over
  <2>3. Steadily(over, SendNow(over))
    BY <2>1, SendSteady
  <2>4. Stays(x, SendNow(over))
    BY <2>1, <2>3, StaysTwice DEF Steadily
  <2>5. Learnt(over, f) /\ Learnt(SendNow(over), f)
    BY <1>2, <2>1, <2>3 DEF Learnt, Steadily
  <2>6. QED
    BY <1>2, <2>1, <2>2, <2>4, <2>5
<1>3. CASE f.t \notin {"start", "work", "complete"}
  BY <1>3 DEF Fold, Stays, Learnt
<1>4. QED
  BY <1>1, <1>2, <1>3

LEMMA EventLearns ==
  ASSUME NEW x, Shape(x), NEW f
  PROVE  Stays(x, ApplyEvent(x, f)) /\ (f.h # x.h => ApplyEvent(x, f) = x) /\ (f.h = x.h => Learnt(ApplyEvent(x, f), f))
<1> DEFINE y == [x EXCEPT !.floor.first = IF x.floor.open /\ @ = None THEN f ELSE @]
<1>1. Stays(x, y) /\ Shape(y)
  BY DEF Stays, Shape
<1>2. ApplyEvent(x, f) = IF f.h # x.h THEN x ELSE Fold(y, f)
  BY DEF ApplyEvent
<1> HIDE DEF y
<1>3. Stays(y, Fold(y, f)) /\ Learnt(Fold(y, f), f)
  BY <1>1, FoldLearns
<1>4. QED
  BY <1>1, <1>2, <1>3, StaysTwice, CalmSteps DEF Calmly

\* Events of which one says that the turn is over.
Over(events, h) == \E i \in DOMAIN events : events[i].t = "complete" /\ events[i].h = h

\* A replay hides a turn only if it brings its end.
Replays(x, y, events) == Stays(x, y) /\ (x.running => Raced(y) \/ y.running \/ Over(events, x.h))

LEMMA ReplayedLearns ==
  ASSUME NEW x, Shape(x), NEW events, NEW i
  PROVE  Replays(x, Replayed(x, events, i), events)
<1>1. CASE i \in DOMAIN events /\ events[i].h = x.h
  <2>1. Replayed(x, events, i) = Fold(x, events[i])
    BY <1>1 DEF Replayed
  <2>2. /\ Stays(x, Fold(x, events[i]))
        /\ events[i].t # "complete" /\ x.running => Fold(x, events[i]).running
    BY FoldLearns
  <2>3. events[i].t = "complete" => Over(events, x.h)
    BY <1>1 DEF Over
  <2>4. QED
    BY <2>1, <2>2, <2>3 DEF Replays
<1>2. CASE ~(i \in DOMAIN events /\ events[i].h = x.h)
  BY <1>2, CalmSteps DEF Replayed, Replays, Calmly
<1>3. QED
  BY <1>1, <1>2

LEMMA ReplayLearns ==
  ASSUME NEW x, Shape(x), NEW S, NEW events \in Seq(S)
  PROVE  Replays(x, ApplyReplay(x, events), events)
<1> DEFINE n == Unseen(x, events)
           unseen == SubSeq(events, 1, n)
           y == [x EXCEPT !.floor = Closed]
           z == Replayed(y, unseen, 1)
           u == Replayed(z, unseen, 2)
<1>1. Calmly(x, y) /\ Shape(y) /\ y.h = x.h
  BY DEF Calmly, Stays, Shape
<1>2. n \in 0..Len(events)
  BY UnseenInRange
<1>3. \A h : Over(unseen, h) => Over(events, h)
  <2> HIDE DEF n
  <2>1. DOMAIN unseen = 1..n /\ DOMAIN events = 1..Len(events) /\ \A i \in 1..n : unseen[i] = events[i]
    BY <1>2
  <2> HIDE DEF unseen
  <2>2. QED
    BY <1>2, <2>1 DEF Over
<1>4. ApplyReplay(x, events) = u
  BY DEF ApplyReplay
<1> HIDE DEF unseen, y
<1>5. Replays(y, z, unseen)
  BY <1>1, ReplayedLearns
<1>6. Shape(z)
  BY <1>5 DEF Replays, Stays
<1> HIDE DEF z
<1>7. Replays(z, u, unseen)
  BY <1>6, ReplayedLearns
<1> HIDE DEF u
<1>8. Stays(x, u) /\ z.h = x.h
  BY <1>1, <1>5, <1>7, StaysTwice DEF Replays, Calmly, Stays
<1>9. Raced(z) => Raced(u)
  BY <1>7 DEF Replays, Stays, Raced
<1>10. x.running => Raced(u) \/ u.running \/ Over(events, x.h)
  BY <1>1, <1>3, <1>5, <1>7, <1>8, <1>9 DEF Replays, Calmly
<1>11. QED
  BY <1>4, <1>8, <1>10 DEF Replays

\* Now the phone.  A reattach under way,
Awaits(p) ==
  /\ p.screen.watching
  /\ \E call \in p.s.asked : call.k = "resume" /\ call.by = "sync" /\ call.m = p.screen.visit

\* or a button that is right as soon as no event is on its way, but for a prompt
\* that has not reached the gateway.
Settled(x, w, G) ==
  LET g == G[x.here]
  IN  /\ g.on /\ x.h = <<x.here, g.run>> /\ Clear(w, g, x.here)
      /\ Newest(w, 0, x.here) => /\ g.turn # None => x.running
                                 /\ x.running => g.turn # None \/ Sent(x)

RunOK(p, w, G) ==
  ~Raced(p.s) /\ p.s.up /\ p.screen.shown /\ p.s.h # None => Awaits(p) \/ Settled(p.s, w, G)

\* Whoever boots waits for something.
Manned(p) == "boots" \in p.s.crossed \/ p.screen.booting = {} \/ \E a \in p.s.asked : Opens(a)

\* A step of the phone that goes on as before or lets go of the conversation.
Moves(p, q) ==
  /\ PhoneShape(q) /\ ("boots" \in p.s.crossed => "boots" \in q.s.crossed)
  /\ q.s.up = p.s.up /\ q.screen.shown = p.screen.shown
  /\ Manned(p) => Manned(q)
  /\ q.s.h # None => /\ q.screen.visit = p.screen.visit /\ (q.screen.watching <=> p.screen.watching)
                     /\ q.screen.booting = p.screen.booting /\ Steadily(p.s, q.s)

LEMMA MovesTwice ==
  ASSUME NEW p, NEW q, NEW r, Moves(p, q), Moves(q, r)
  PROVE  Moves(p, r)
<1>1. r.s.h # None => q.s.h # None
  BY DEF Moves, Steadily, Stays
<1>2. QED
  BY <1>1, StaysTwice DEF Moves

LEMMA MovesRun ==
  ASSUME NEW p, NEW q, Moves(p, q), NEW w, NEW G, RunOK(p, w, G)
  PROVE  RunOK(q, w, G)
<1>1. SUFFICES ASSUME ~Raced(q.s), q.s.up, q.screen.shown, q.s.h # None
               PROVE  Awaits(q) \/ Settled(q.s, w, G)
  BY DEF RunOK
<1>2. /\ Steadily(p.s, q.s) /\ q.screen.visit = p.screen.visit /\ (q.screen.watching <=> p.screen.watching)
      /\ p.s.up /\ p.screen.shown
  BY <1>1 DEF Moves
<1>3. /\ p.s.h = q.s.h /\ p.s.here = q.s.here /\ ~Raced(p.s)
      /\ \A call \in p.s.asked : call.k # "response" => call \in q.s.asked
      /\ (q.s.running <=> p.s.running) \/ (q.s.running /\ Sent(q.s))
  BY <1>1, <1>2 DEF Steadily, Stays, Raced
<1>4. Sent(p.s) => Sent(q.s)
  BY <1>3 DEF Sent
<1>5. Awaits(p) => Awaits(q)
  BY <1>2, <1>3 DEF Awaits
<1>6. Settled(p.s, w, G) => Settled(q.s, w, G)
  BY <1>3, <1>4 DEF Settled
<1>7. QED
  BY <1>1, <1>2, <1>3, <1>5, <1>6 DEF RunOK

LEMMA MovesBy ==
  ASSUME NEW p, PhoneShape(p), NEW y, Steadily(p.s, y)
  PROVE  Moves(p, [p EXCEPT !.s = y])
<1> DEFINE q == [p EXCEPT !.s = y]
<1>1. q.s = y /\ q.screen = p.screen /\ PhoneShape(q)
  BY DEF PhoneShape, Steadily, Stays
<1> HIDE DEF q
<1>2. Manned(p) => Manned(q)
  BY <1>1 DEF Manned, Steadily, Stays, Races, Opens
<1>3. Moves(p, q)
  BY <1>1, <1>2 DEF Moves, Steadily, Stays, Races
<1>4. QED
  BY <1>3 DEF q

LEMMA BootingIs ==
  ASSUME NEW p, PhoneShape(p), NEW m, NEW q, q = Booting(p, m)
  PROVE  /\ PhoneShape(q) /\ q.s.asked = p.s.asked /\ q.s.up = p.s.up /\ q.s.h = None
         /\ p.s.crossed \subseteq q.s.crossed /\ (p.screen.booting # {} => "boots" \in q.s.crossed)
         /\ q.screen.booting = p.screen.booting \cup {m} /\ q.screen.shown = p.screen.shown
<1> DEFINE crossed == IF p.screen.booting = {} THEN p.s ELSE Cross(p.s, "boots")
<1>1. /\ Shape(crossed) /\ crossed.asked = p.s.asked /\ crossed.up = p.s.up
      /\ p.s.crossed \subseteq crossed.crossed /\ (p.screen.booting # {} => "boots" \in crossed.crossed)
  BY DEF PhoneShape, Shape, Cross
<1>2. q = [p EXCEPT !.s = Reset(crossed), !.screen.booting = @ \cup {m}, !.screen.watching = FALSE]
  BY DEF Booting
<1> HIDE DEF crossed
<1>3. q.s = Reset(crossed) /\ q.screen = [p.screen EXCEPT !.booting = @ \cup {m}, !.watching = FALSE]
      /\ DOMAIN q = {"s", "screen"}
  BY <1>2 DEF PhoneShape
<1>4. Shape(q.s) /\ q.s.asked = p.s.asked /\ q.s.up = p.s.up /\ q.s.h = None /\ q.s.crossed = crossed.crossed
  BY <1>1, <1>3 DEF Reset, Shape
<1>5. QED
  BY <1>1, <1>3, <1>4 DEF PhoneShape

\* A boot asks for something, or fails at once.
LEMMA AskingMoves ==
  ASSUME NEW p, PhoneShape(p), NEW m, m \notin p.screen.booting, NEW call, Opens(call)
  PROVE  /\ Moves(p, [Booting(p, m) EXCEPT !.s = Call(@, call)])
         /\ Moves(p, Booted(Booting(p, m), m))
<1> DEFINE q == Booting(p, m)
           r == [q EXCEPT !.s = Call(@, call)]
           u == Booted(q, m)
<1>1. /\ PhoneShape(q) /\ q.s.asked = p.s.asked /\ q.s.up = p.s.up /\ q.s.h = None
      /\ p.s.crossed \subseteq q.s.crossed /\ (p.screen.booting # {} => "boots" \in q.s.crossed)
      /\ q.screen.booting = p.screen.booting \cup {m} /\ q.screen.shown = p.screen.shown
  BY BootingIs
<1> HIDE DEF q
<1>2. Moves(p, r)
  <2>1. /\ PhoneShape(r) /\ r.s.asked = q.s.asked \cup {call} /\ r.s.up = q.s.up /\ r.s.h = q.s.h
        /\ r.s.crossed = q.s.crossed /\ r.screen = q.screen
    BY <1>1 DEF PhoneShape, Shape, Call
  <2> HIDE DEF r
  <2>2. QED
    BY <1>1, <2>1 DEF Moves, Manned
<1>3. Moves(p, u)
  <2>1. /\ PhoneShape(u) /\ u.s = q.s /\ u.screen.booting = q.screen.booting \ {m} /\ u.screen.shown = q.screen.shown
    BY <1>1 DEF PhoneShape, Booted
  <2> HIDE DEF u
  <2>2. u.screen.booting = p.screen.booting
    BY <1>1, <2>1
  <2>3. QED
    BY <1>1, <2>1, <2>2 DEF Moves, Manned
<1>4. QED
  BY <1>2, <1>3 DEF q, r, u

LEMMA StandStill ==
  ASSUME NEW p, PhoneShape(p)
  PROVE  Moves(p, p)
BY CalmSteps DEF Moves, Steadily, Calmly, PhoneShape

LEMMA StartMoves ==
  ASSUME NEW p, PhoneShape(p), NEW m, NEW c, NEW url
  PROVE  Moves(p, StartNew(p, m)) /\ Moves(p, DoResume(p, c, m, url))
<1> DEFINE create == [k |-> "create", m |-> m]
           resume == [k |-> "resume", c |-> c, by |-> "boot", m |-> m, url |-> url]
<1>1. Opens(create) /\ Opens(resume)
  BY DEF Opens
<1>2. /\ StartNew(p, m) = IF BootingRef(p, m) THEN p
                          ELSE IF p.s.up THEN [Booting(p, m) EXCEPT !.s = Call(@, create)]
                          ELSE Booted(Booting(p, m), m)
      /\ DoResume(p, c, m, url) = IF BootingRef(p, m) THEN p ELSE [Booting(p, m) EXCEPT !.s = Call(@, resume)]
      /\ m \in p.screen.booting => BootingRef(p, m)
  BY DEF StartNew, DoResume, BootingRef
<1> HIDE DEF create, resume
<1>3. QED
  BY <1>1, <1>2, StandStill, AskingMoves

LEMMA IntentMoves ==
  ASSUME NEW p, PhoneShape(p), NEW c
  PROVE  Moves(p, [p EXCEPT !.screen.intent = c])
<1> DEFINE q == [p EXCEPT !.screen.intent = c]
<1>1. /\ PhoneShape(q) /\ q.s = p.s /\ q.screen.visit = p.screen.visit /\ q.screen.watching = p.screen.watching
      /\ q.screen.booting = p.screen.booting /\ q.screen.shown = p.screen.shown
  BY DEF PhoneShape
<1> HIDE DEF q
<1>2. Moves(p, q)
  BY <1>1, CalmSteps DEF Moves, Manned, Steadily, Calmly, PhoneShape
<1>3. QED
  BY <1>2 DEF q

LEMMA BootMoves ==
  ASSUME NEW p, PhoneShape(p)
  PROVE  Moves(p, BootEffect(p)) /\ Moves(p, ClearIntent(p))
<1>1. \A q : PhoneShape(q) => Moves(q, BootEffect(q))
  <2>1. SUFFICES ASSUME NEW q, PhoneShape(q) PROVE Moves(q, BootEffect(q))
    OBVIOUS
  <2> DEFINE m == q.screen.visit
             c == q.screen.intent
  <2>2. \E url : BootEffect(q) \in {q, StartNew(q, m), [q EXCEPT !.screen.intent = None], DoResume(q, c, m, url)}
    BY DEF BootEffect
  <2> HIDE DEF m, c
  <2>3. QED
    BY <2>1, <2>2, StandStill, StartMoves, IntentMoves
<1>2. /\ Moves(p, [p EXCEPT !.screen.intent = None])
      /\ PhoneShape([p EXCEPT !.screen.intent = None])
  BY IntentMoves DEF Moves
<1>3. QED
  BY <1>1, <1>2, StandStill, MovesTwice DEF ClearIntent

LEMMA TrailedMoves ==
  ASSUME NEW p, PhoneShape(p), NEW b
  PROVE  Moves(p, Trailed(p, b))
<1> DEFINE done == [p EXCEPT !.screen.trailing = @ \ {b}]
<1>1. /\ PhoneShape(done) /\ done.s = p.s /\ done.screen.visit = p.screen.visit
      /\ done.screen.watching = p.screen.watching
      /\ done.screen.booting = p.screen.booting /\ done.screen.shown = p.screen.shown
  BY DEF PhoneShape
<1>2. Trailed(p, b) = IF b.url THEN ClearIntent(done) ELSE done
  BY DEF Trailed
<1> HIDE DEF done
<1>3. Moves(p, done)
  BY <1>1, CalmSteps DEF Moves, Manned, Steadily, Calmly, PhoneShape
<1>4. Moves(done, ClearIntent(done))
  BY <1>1, BootMoves
<1>5. QED
  BY <1>2, <1>3, <1>4, MovesTwice

\* Whenever the socket or the screen comes back: the conversation is resumed, or there is none.
LEMMA EffectsRun ==
  ASSUME NEW p, PhoneShape(p), p.screen.visit \notin p.screen.booting, Manned(p), NEW w, NEW G
  PROVE  RunOK(Effects(p), w, G) /\ Manned(Effects(p))
<1> DEFINE q == BootEffect(p)
           call == [k |-> "resume", c |-> p.s.here, by |-> "sync", m |-> p.screen.visit]
           back == [q EXCEPT !.s = Cross(@, "back")]
           asks == [q EXCEPT !.s = Call(@, call), !.screen.watching = TRUE]
           r == Effects(p)
<1>1. r = IF ~q.s.up \/ ~q.screen.shown \/ p.s.h = None \/ p.screen.visit \in q.screen.booting THEN q
          ELSE IF p.screen.intent # None \/ BootingRef(q, p.screen.visit) THEN back ELSE asks
  BY DEF Effects, ReconnectEffect
<1>2. Moves(p, q)
  BY BootMoves
<1>3. call.k = "resume" /\ call.by = "sync" /\ call.m = p.screen.visit
  OBVIOUS
<1> HIDE DEF q, call, r
<1>4. PhoneShape(q) /\ Manned(q)
  BY <1>2 DEF Moves
<1>5. p.s.h = None \/ p.screen.visit \in q.screen.booting => q.s.h = None
  BY <1>2 DEF Moves, Steadily, Stays
<1>6. q.s.h # None => q.screen.visit = p.screen.visit
  BY <1>2 DEF Moves
<1>7. "back" \in back.s.crossed /\ (Manned(q) => Manned(back))
  <2>1. back.s.crossed = q.s.crossed \cup {"back"} /\ back.s.asked = q.s.asked /\ back.screen = q.screen
    BY <1>4 DEF Cross, PhoneShape, Shape
  <2> HIDE DEF back
  <2>2. QED
    BY <2>1 DEF Manned
<1>8. /\ asks.s.asked = q.s.asked \cup {call} /\ asks.screen.watching /\ asks.screen.visit = q.screen.visit
      /\ asks.s.h = q.s.h /\ asks.s.crossed = q.s.crossed /\ asks.screen.booting = q.screen.booting
  <2>1. asks.s = Call(q.s, call) /\ asks.screen = [q.screen EXCEPT !.watching = TRUE]
    BY <1>4 DEF PhoneShape
  <2> HIDE DEF asks
  <2>2. QED
    BY <1>4, <2>1 DEF Call, PhoneShape, Shape
<1> HIDE DEF back, asks
<1>9. RunOK(back, w, G)
  BY <1>7 DEF RunOK, Raced, Races
<1>10. RunOK(asks, w, G) /\ (Manned(q) => Manned(asks))
  BY <1>3, <1>6, <1>8 DEF RunOK, Awaits, Manned
<1>11. ~q.s.up \/ ~q.screen.shown \/ q.s.h = None => RunOK(q, w, G)
  BY DEF RunOK
<1>12. RunOK(r, w, G) /\ Manned(r)
  BY <1>1, <1>4, <1>5, <1>7, <1>9, <1>10, <1>11
<1>13. QED
  BY <1>12 DEF r

-----------------------------------------------------------------------------
(* The stop button, and calls that fail *)

\* A call that the phone no longer waits for was no part of it.
LEMMA TakenRun ==
  ASSUME NEW p, PhoneShape(p), NEW call, NEW q, q = [p EXCEPT !.s.asked = @ \ {call}],
         NEW w, NEW G
  PROVE  /\ PhoneShape(q) /\ q.screen = p.screen /\ q.s.h = p.s.h /\ q.s.here = p.s.here /\ q.s.up = p.s.up
         /\ q.s.running = p.s.running /\ q.s.crossed = p.s.crossed /\ q.s.asked = p.s.asked \ {call}
         /\ ~Opens(call) /\ Manned(p) => Manned(q)
         /\ ~(call.k = "submit" /\ call.h = p.s.h) /\ ~(call.k = "resume" /\ call.by = "sync" /\ Alive(p, call))
              => (RunOK(p, w, G) => RunOK(q, w, G))
<1>1. /\ PhoneShape(q) /\ q.screen = p.screen /\ q.s.h = p.s.h /\ q.s.here = p.s.here /\ q.s.up = p.s.up
      /\ q.s.running = p.s.running /\ q.s.crossed = p.s.crossed /\ q.s.asked = p.s.asked \ {call}
  BY DEF PhoneShape, Shape
<1>2. ~Opens(call) /\ Manned(p) => Manned(q)
  BY <1>1 DEF Manned
<1>3. ASSUME ~(call.k = "submit" /\ call.h = p.s.h), ~(call.k = "resume" /\ call.by = "sync" /\ Alive(p, call)),
             RunOK(p, w, G)
      PROVE  RunOK(q, w, G)
  <2>1. Awaits(p) => Awaits(q)
    BY <1>1, <1>3 DEF Awaits, Alive
  <2>2. Sent(p.s) => Sent(q.s)
    BY <1>1, <1>3 DEF Sent
  <2>3. Settled(p.s, w, G) => Settled(q.s, w, G)
    BY <1>1, <2>2 DEF Settled
  <2>4. QED
    BY <1>1, <1>3, <2>1, <2>3 DEF RunOK, Raced
<1>4. QED
  BY <1>1, <1>2, <1>3

\* The end of a boot
LEMMA BootedIs ==
  ASSUME NEW p, PhoneShape(p), NEW m
  PROVE  /\ PhoneShape(Booted(p, m)) /\ Booted(p, m).s = p.s
         /\ Booted(p, m).screen.booting = p.screen.booting \ {m}
         /\ Booted(p, m).screen.shown = p.screen.shown /\ Booted(p, m).screen.visit = p.screen.visit
         /\ Booted(p, m).screen.watching = p.screen.watching
BY DEF Booted, PhoneShape

LEMMA BootedRun ==
  ASSUME NEW p, PhoneShape(p), NEW m, NEW w, NEW G, RunOK(p, w, G)
  PROVE  RunOK(Booted(p, m), w, G)
BY BootedIs DEF RunOK, Awaits

LEMMA TrailsIs ==
  ASSUME NEW p, PhoneShape(p), NEW call
  PROVE  /\ PhoneShape(Trails(p, call)) /\ Trails(p, call).s = p.s
         /\ Trails(p, call).screen.booting = p.screen.booting \ {call.m}
         /\ Trails(p, call).screen.shown = p.screen.shown /\ Trails(p, call).screen.visit = p.screen.visit
         /\ Trails(p, call).screen.watching = p.screen.watching
BY BootedIs DEF Trails, PhoneShape

LEMMA TrailsRun ==
  ASSUME NEW p, PhoneShape(p), NEW call, NEW w, NEW G, RunOK(p, w, G)
  PROVE  RunOK(Trails(p, call), w, G)
<1> DEFINE q == Trails(p, call)
<1>1. /\ q.s = p.s /\ q.screen.shown = p.screen.shown /\ q.screen.visit = p.screen.visit
      /\ q.screen.watching = p.screen.watching
  BY TrailsIs
<1> HIDE DEF q
<1>2. RunOK(q, w, G)
  BY <1>1 DEF RunOK, Awaits
<1>3. QED
  BY <1>2 DEF q

\* There was one boot, and this was its call.
LEMMA OnlyBoot ==
  ASSUME NEW p, NEW t, PhoneOK(p, t), Clean(p.s, t), NEW call, Pending(p, t, call), Opens(call)
  PROVE  p.screen.booting \ {call.m} = {} /\ (call.k # "history" => p.s.h = None)
BY DEF PhoneOK, SoundPhone, Pending, Fits

LEMMA UnmannedOK ==
  ASSUME NEW p, p.screen.booting = {}
  PROVE  Manned(p)
BY DEF Manned

LEMMA NoChat ==
  ASSUME NEW p, p.s.h = None \/ Raced(p.s), NEW w, NEW G
  PROVE  RunOK(p, w, G)
BY DEF RunOK

\* What the store does while it waits for nothing else.
LEMMA SteadyRun ==
  ASSUME NEW p, PhoneShape(p), NEW y, Steadily(p.s, y), NEW w, NEW G
  PROVE  /\ Manned(p) => Manned([p EXCEPT !.s = y])
         /\ RunOK(p, w, G) => RunOK([p EXCEPT !.s = y], w, G)
<1>1. Moves(p, [p EXCEPT !.s = y])
  BY MovesBy
<1>2. QED
  BY <1>1, MovesRun DEF Moves

\* A reattach that failed opens the conversation again.
LEMMA SyncFailedRun ==
  ASSUME NEW p, PhoneShape(p), p.screen.watching => ~BootingRef(p, p.screen.visit), NEW call, NEW w, NEW G,
         ~Alive(p, call) => RunOK(p, w, G), Manned(p)
  PROVE  RunOK(SyncFailed(p, call), w, G) /\ Manned(SyncFailed(p, call))
<1> DEFINE resume == [k |-> "resume", c |-> p.s.here, by |-> "boot", m |-> call.m, url |-> FALSE]
           q == Booting(p, call.m)
           r == [q EXCEPT !.s = Call(@, resume)]
<1>1. CASE Alive(p, call)
  <2>1. ~BootingRef(p, call.m)
    BY <1>1 DEF Alive
  <2>2. SyncFailed(p, call) = DoResume(p, p.s.here, call.m, FALSE)
    BY <1>1 DEF SyncFailed
  <2>3. DoResume(p, p.s.here, call.m, FALSE) = r
    BY <2>1 DEF DoResume
  <2>4. PhoneShape(q) /\ q.s.h = None
    BY BootingIs
  <2> HIDE DEF q
  <2>5. r.s.h = None
    BY <2>4 DEF PhoneShape, Shape, Call
  <2> HIDE DEF r
  <2>6. RunOK(r, w, G)
    BY <2>5, NoChat
  <2>7. \A url : Moves(p, DoResume(p, p.s.here, call.m, url))
    BY StartMoves
  <2>8. Manned(DoResume(p, p.s.here, call.m, FALSE))
    BY <2>7 DEF Moves
  <2>9. QED
    BY <2>2, <2>3, <2>6, <2>8
<1>2. CASE ~Alive(p, call)
  BY <1>2 DEF SyncFailed
<1>3. QED
  BY <1>1, <1>2

\* A replay, of which only the end of the turn is news.
LEMMA ReplayRun ==
  ASSUME NEW p, PhoneShape(p), NEW call, NEW S, NEW events \in Seq(S), NEW w, NEW G, RunOK(p, w, G), Manned(p),
         ~Raced(p.s) /\ p.s.up /\ p.screen.shown /\ p.s.h # None /\ ~Awaits(p) /\ Over(events, p.s.h)
           => (Newest(w, 0, p.s.here) => G[p.s.here].turn = None)
  PROVE  RunOK(SyncReplayed(p, call, events), w, G) /\ Manned(SyncReplayed(p, call, events))
<1> DEFINE news == IF Alive(p, call) THEN events ELSE <<>>
           replayed == ApplyReplay(p.s, news)
           raced == (IF replayed.running /\ ~p.s.running THEN {"revived"} ELSE {})
                    \cup (IF \E other \in p.s.asked : other.k = "since" THEN {"shut"} ELSE {})
           y == [replayed EXCEPT !.crossed = @ \cup raced]
           q == [p EXCEPT !.s = y]
<1>1. SyncReplayed(p, call, events) = q
  BY DEF SyncReplayed
<1>2. Replays(p.s, replayed, news)
  <2>1. news \in Seq(S)
    OBVIOUS
  <2> HIDE DEF news
  <2>2. QED
    BY <2>1, ReplayLearns DEF PhoneShape
<1>3. Over(news, p.s.h) => Over(events, p.s.h)
  BY DEF Over
<1> HIDE DEF replayed, news
<1>4. /\ Stays(replayed, y) /\ y.running = replayed.running /\ y.asked = replayed.asked
      /\ Shape(y) /\ (replayed.running /\ ~p.s.running => "revived" \in y.crossed)
  BY <1>2 DEF Replays, Stays, Shape
<1> HIDE DEF y
<1>5. Stays(p.s, y) /\ (Raced(replayed) => Raced(y))
  BY <1>2, <1>4, StaysTwice DEF Replays, Stays, Raced
<1>6. CASE Steadily(p.s, y)
  <2>1. RunOK(q, w, G) /\ Manned(q)
    BY <1>6, SteadyRun
  <2>2. QED
    BY <1>1, <2>1
<1>7. CASE ~Steadily(p.s, y)
  <2>1. ~Raced(y) /\ p.s.running /\ ~y.running
    BY <1>4, <1>5, <1>7 DEF Steadily, Raced, Races
  <2>2. Over(events, p.s.h)
    BY <1>2, <1>3, <1>4, <1>5, <2>1 DEF Replays
  <2>3. q.s = y /\ q.screen = p.screen
    BY DEF PhoneShape
  <2> HIDE DEF q
  <2>4. Manned(q)
    BY <1>5, <2>3 DEF Manned, Stays, Races, Opens
  <2>5. RunOK(q, w, G)
    <3>1. SUFFICES ASSUME y.up, p.screen.shown, y.h # None PROVE Awaits(q) \/ Settled(y, w, G)
      BY <2>3 DEF RunOK
    <3>2. ~Raced(p.s) /\ p.s.up /\ p.s.h # None
      BY <1>5, <2>1, <3>1 DEF Stays, Raced
    <3>3. Awaits(p) \/ Settled(p.s, w, G)
      BY <3>1, <3>2 DEF RunOK
    <3>4. Awaits(p) => Awaits(q)
      BY <1>5, <2>3 DEF Awaits, Stays
    <3>5. ~Awaits(p) /\ Newest(w, 0, p.s.here) => G[p.s.here].turn = None
      BY <2>2, <3>1, <3>2
    <3>6. ~Awaits(p) => Settled(y, w, G)
      BY <1>5, <2>1, <3>3, <3>5 DEF Settled, Stays
    <3>7. QED
      BY <3>4, <3>6
  <2>6. QED
    BY <1>1, <2>4, <2>5
<1>8. QED
  BY <1>6, <1>7

\* A call fails, or its time is up.
LEMMA FailedRun ==
  ASSUME NEW p, NEW t, PhoneOK(p, t), Clean(p.s, t), NEW call \in p.s.asked, NEW w, NEW G,
         RunOK(p, w, G), Manned(p), NEW q, q = [p EXCEPT !.s.asked = @ \ {call}]
  PROVE  RunOK(Failed(q, call), w, G) /\ Manned(Failed(q, call))
<1>1. PhoneOK(q, t) /\ Pending(q, t, call)
  BY TakeOK
<1>2. /\ PhoneShape(q) /\ q.screen = p.screen /\ q.s.h = p.s.h /\ q.s.crossed = p.s.crossed
      /\ ~Opens(call) => Manned(q)
      /\ ~(call.k = "submit" /\ call.h = p.s.h) /\ ~(call.k = "resume" /\ call.by = "sync" /\ Alive(p, call))
           => RunOK(q, w, G)
  <2>1. PhoneShape(p)
    BY DEF PhoneOK
  <2>2. QED
    BY <2>1, TakenRun
<1>3. Clean(q.s, t) /\ CallOwn(t, call) /\ (q.screen.watching => ~BootingRef(q, q.screen.visit))
  BY <1>1, <1>2 DEF Clean, Pending, PhoneOK, SoundPhone, TrailsFit, BootingRef
<1>4. CASE call.k = "resume" /\ call.by = "boot"
  <2> DEFINE r == Booted(q, call.m)
  <2>1. Failed(q, call) = StartNew(r, call.m)
    BY <1>4 DEF Failed, ResumeFailed
  <2>2. q.screen.booting \ {call.m} = {} /\ q.s.h = None
    BY <1>1, <1>3, <1>4, OnlyBoot DEF Opens
  <2>3. PhoneShape(r) /\ r.screen.booting = {} /\ r.s.h = None
    BY <1>2, <2>2, BootedIs
  <2> HIDE DEF r
  <2>4. Moves(r, StartNew(r, call.m))
    BY <2>3, StartMoves
  <2>5. RunOK(r, w, G) /\ Manned(r)
    BY <2>3, NoChat, UnmannedOK
  <2>6. QED
    BY <2>1, <2>4, <2>5, MovesRun DEF Moves
<1>5. CASE call.k = "history" /\ call.by = "boot"
  <2> DEFINE u == [q EXCEPT !.s = Cross(@, "bare")]
             bare == Trails(u, call)
  <2>1. Failed(q, call) = bare
    BY <1>5 DEF Failed, HistoryFailed
  <2>2. q.screen.booting \ {call.m} = {}
    BY <1>1, <1>3, <1>5, OnlyBoot DEF Opens
  <2>3. Steadily(q.s, Cross(q.s, "bare"))
    BY <1>2, CalmSteps DEF Calmly, Steadily, PhoneShape
  <2>4. PhoneShape(u) /\ u.screen = q.screen /\ RunOK(u, w, G)
    <3>1. RunOK(u, w, G)
      BY <1>2, <1>5, <2>3, SteadyRun
    <3>2. Moves(q, [q EXCEPT !.s = Cross(q.s, "bare")])
      BY <1>2, <2>3, MovesBy
    <3>3. QED
      BY <1>2, <3>1, <3>2 DEF Moves, PhoneShape
  <2> HIDE DEF u
  <2>5. Trails(u, call).screen.booting = q.screen.booting \ {call.m} /\ RunOK(Trails(u, call), w, G)
    <3>1. Trails(u, call).screen.booting = u.screen.booting \ {call.m}
      BY <2>4, TrailsIs
    <3>2. RunOK(Trails(u, call), w, G)
      BY <2>4, TrailsRun
    <3>3. QED
      BY <2>4, <3>1, <3>2
  <2>6. QED
    BY <2>1, <2>2, <2>5, UnmannedOK
<1>6. CASE call.k \in {"resume", "history"} /\ call.by # "boot"
  <2>1. Failed(q, call) = SyncFailed(q, call)
    BY <1>6 DEF Failed
  <2>2. ~Alive(q, call) => RunOK(q, w, G)
    BY <1>2, <1>6 DEF Alive
  <2>3. Manned(q)
    BY <1>2, <1>6 DEF Opens
  <2>4. RunOK(SyncFailed(q, call), w, G) /\ Manned(SyncFailed(q, call))
    BY <1>2, <1>3, <2>2, <2>3, SyncFailedRun
  <2>5. QED
    BY <2>1, <2>4
<1>7. CASE call.k = "since"
  <2> DEFINE none == <<>>
  <2>1. Failed(q, call) = SyncReplayed(q, call, none)
    BY <1>7 DEF Failed
  <2>2. none \in Seq({}) /\ ~Over(none, q.s.h)
    BY DEF Over
  <2> HIDE DEF none
  <2>3. RunOK(q, w, G) /\ Manned(q)
    BY <1>2, <1>7 DEF Opens
  <2>4. RunOK(SyncReplayed(q, call, none), w, G) /\ Manned(SyncReplayed(q, call, none))
    BY <1>2, <2>2, <2>3, ReplayRun
  <2>5. QED
    BY <2>1, <2>4
<1>8. CASE call.k = "create"
  <2>1. Failed(q, call) = Booted(q, call.m)
    BY <1>8 DEF Failed
  <2>2. q.screen.booting \ {call.m} = {} /\ q.s.h = None
    BY <1>1, <1>3, <1>8, OnlyBoot DEF Opens
  <2>3. Booted(q, call.m).screen.booting = {} /\ Booted(q, call.m).s.h = None
    BY <1>2, <2>2, BootedIs
  <2>4. RunOK(Booted(q, call.m), w, G) /\ Manned(Booted(q, call.m))
    BY <2>3, NoChat, UnmannedOK
  <2>5. QED
    BY <2>1, <2>4
<1>9. CASE call.k = "submit"
  <2> DEFINE y == SubmitFailed(q.s, call)
  <2>1. Failed(q, call) = [q EXCEPT !.s = y]
    BY <1>9 DEF Failed
  <2>2. Stays(q.s, y) /\ "submit" \in y.crossed
    BY <1>2, FailedStays DEF PhoneShape
  <2> HIDE DEF y
  <2>3. Steadily(q.s, y) /\ Raced(y)
    BY <2>2 DEF Steadily, Raced, Races
  <2>4. [q EXCEPT !.s = y].s = y
    BY <1>2 DEF PhoneShape
  <2>5. RunOK([q EXCEPT !.s = y], w, G) /\ Manned([q EXCEPT !.s = y])
    <3>1. Manned(q)
      BY <1>2, <1>9 DEF Opens
    <3>2. RunOK([q EXCEPT !.s = y], w, G)
      BY <2>3, <2>4, NoChat
    <3>3. QED
      BY <1>2, <2>3, <3>1, <3>2, SteadyRun
  <2>6. QED
    BY <2>1, <2>5
<1>10. CASE call.k \in {"undo", "respond"}
  <2>1. Steadily(q.s, UndoFailed(q.s)) /\ Steadily(q.s, RespondFailed(q.s, call))
    <3>1. Shape(q.s)
      BY <1>2 DEF PhoneShape
    <3>2. Calmly(q.s, UndoFailed(q.s)) /\ Calmly(q.s, RespondFailed(q.s, call))
      BY <3>1, CalmSteps, CalmSheets
    <3>3. QED
      BY <3>2 DEF Calmly, Steadily
  <2>2. RunOK(q, w, G) /\ Manned(q)
    BY <1>2, <1>10 DEF Opens
  <2> DEFINE u == UndoFailed(q.s)
             r == RespondFailed(q.s, call)
  <2>3. Failed(q, call) = [q EXCEPT !.s = u] \/ Failed(q, call) = [q EXCEPT !.s = r]
    BY <1>10 DEF Failed
  <2>4. Steadily(q.s, u) /\ Steadily(q.s, r)
    BY <2>1
  <2> HIDE DEF u, r
  <2>5. RunOK([q EXCEPT !.s = u], w, G) /\ Manned([q EXCEPT !.s = u])
    BY <1>2, <2>2, <2>4, SteadyRun
  <2>6. RunOK([q EXCEPT !.s = r], w, G) /\ Manned([q EXCEPT !.s = r])
    BY <1>2, <2>2, <2>4, SteadyRun
  <2>7. QED
    BY <2>3, <2>5, <2>6
<1>11. CASE call.k \notin {"resume", "history", "since", "create", "submit", "undo", "respond"}
  <2>1. Failed(q, call) = q
    BY <1>11 DEF Failed
  <2>2. QED
    BY <1>2, <1>11, <2>1 DEF Opens
<1>12. QED
  BY <1>4, <1>5, <1>6, <1>7, <1>8, <1>9, <1>10, <1>11

-----------------------------------------------------------------------------
(* The stop button, and the frames that come *)

\* The next frame and those after it
Brings(w, G) == IsWire(w) /\ w # <<>> /\ \A c \in Conv : WireTrue(w, G[c], c)

LEMMA TailRun ==
  ASSUME NEW w, NEW G, Brings(w, G), NEW p, p.s.h # None => p.s.here \in Conv,
         ~IsEvent(Head(w), p.s.here), RunOK(p, w, G)
  PROVE  RunOK(p, Tail(w), G)
<1>1. p.s.h # None => /\ Clear(w, G[p.s.here], p.s.here) => Clear(Tail(w), G[p.s.here], p.s.here)
                      /\ Newest(Tail(w), 0, p.s.here) => Newest(w, 0, p.s.here)
  BY TailTrue DEF Brings
<1>2. p.s.h # None /\ Settled(p.s, w, G) => Settled(p.s, Tail(w), G)
  BY <1>1 DEF Settled
<1>3. QED
  BY <1>2 DEF RunOK

\* A store that does as it is told is right.
LEMMA ToldSettles ==
  ASSUME NEW w, NEW G, Brings(w, G), NEW c \in Conv, Tells(Head(w), c), NEW x, x.here = c, x.h = Named(Head(w)),
         Runs(Head(w)) => x.running, x.running => Runs(Head(w)) \/ Sent(x)
  PROVE  Settled(x, Tail(w), G)
<1>1. /\ G[c].on /\ Named(Head(w)) = <<c, G[c].run>> /\ Clear(Tail(w), G[c], c)
      /\ Newest(Tail(w), 0, c) => (Runs(Head(w)) <=> G[c].turn # None)
  BY TailTrue DEF Brings
<1>2. QED
  BY <1>1 DEF Settled

LEMMA SettledRun ==
  ASSUME NEW p, NEW w, NEW G, Settled(p.s, w, G)
  PROVE  RunOK(p, w, G)
BY DEF RunOK

\* A live state that was adopted
LEMMA LiveIs ==
  ASSUME NEW x, Shape(x), NEW res, NEW call, NEW y, y = Call(ApplyLiveState(x, res), call)
  PROVE  /\ Shape(y) /\ y.h = x.h /\ y.here = x.here /\ (y.running <=> res.p # None)
         /\ y.asked = x.asked \cup {call} /\ ("boots" \in x.crossed => "boots" \in y.crossed)
BY DEF Shape, ApplyLiveState, Call

LEMMA ResumeRun ==
  ASSUME NEW p, PhoneShape(p), NEW w, NEW G, Brings(w, G), NEW f, f = Head(w), f.t = "answer", f.ok,
         f.call.k = "resume", f.call.c \in Conv, f.res.h[1] = f.call.c
  PROVE  RunOK(ResumeAnswered(p, f.call, f.res), Tail(w), G) /\ Manned(ResumeAnswered(p, f.call, f.res))
<1> DEFINE res == f.res
           x == AdoptSession(p.s, res.h)
           next == [k |-> "history", h |-> res.h, by |-> "boot", m |-> f.call.m, url |-> f.call.url]
           y == Call(ApplyLiveState(x, res), next)
           q == [p EXCEPT !.s = y, !.screen.watching = FALSE]
<1>1. ResumeAnswered(p, f.call, res) = q
  BY DEF ResumeAnswered
<1>2. Shape(x) /\ x.h = res.h /\ x.here = f.call.c
  BY DEF PhoneShape, Shape, AdoptSession
<1>3. Opens(next)
  BY DEF Opens
<1> HIDE DEF x, next
<1>4. y.h = res.h /\ y.here = f.call.c /\ (y.running <=> res.p # None) /\ y.asked = x.asked \cup {next}
  BY <1>2, LiveIs
<1> HIDE DEF y
<1>5. q.s = y
  BY DEF PhoneShape
<1> HIDE DEF q
<1>6. Tells(f, f.call.c) /\ Named(f) = res.h /\ (Runs(f) <=> res.p # None)
  BY DEF Tells, Named, Runs
<1>7. Settled(y, Tail(w), G)
  BY <1>4, <1>6, ToldSettles
<1>8. RunOK(q, Tail(w), G) /\ Manned(q)
  BY <1>3, <1>4, <1>5, <1>7, SettledRun DEF Manned
<1>9. QED
  BY <1>1, <1>8

LEMMA ResyncRun ==
  ASSUME NEW p, PhoneShape(p), NEW w, NEW G, Brings(w, G), NEW f, f = Head(w), f.t = "answer", f.ok,
         f.call.k = "resume", f.call.c \in Conv, f.res.h[1] = f.call.c, f.res.h # None,
         p.s.h # None => p.s.here = p.s.h[1], Manned(p), ~Alive(p, f.call) => RunOK(p, Tail(w), G)
  PROVE  RunOK(SyncResumed(p, f.call, f.res), Tail(w), G) /\ Manned(SyncResumed(p, f.call, f.res))
<1> DEFINE res == f.res
           rebuilt == res.h # p.s.h
           stale == IF p.s.sheet # None /\ p.s.sheet.p # res.ask THEN Cross(p.s, "stale") ELSE p.s
           x == IF rebuilt THEN Cross(AdoptSession(stale, res.h), "rebuilt") ELSE stale
           next == [k |-> "history", h |-> res.h, by |-> "sync", m |-> f.call.m, p |-> res.p]
           y == Call(ApplyLiveState(x, res), next)
           q == [p EXCEPT !.s = y, !.screen.watching = ~rebuilt]
<1>1. SyncResumed(p, f.call, res) = IF ~Alive(p, f.call) THEN p ELSE q
  BY DEF SyncResumed
<1>2. /\ Shape(stale) /\ stale.h = p.s.h /\ stale.here = p.s.here /\ stale.asked = p.s.asked
      /\ p.s.crossed \subseteq stale.crossed
  BY DEF PhoneShape, Shape, Cross
<1> HIDE DEF stale
<1>3. Shape(x) /\ x.h = res.h /\ x.here = f.call.c /\ x.asked = p.s.asked /\ p.s.crossed \subseteq x.crossed
  BY <1>2 DEF Shape, AdoptSession, Cross
<1> HIDE DEF x, next
<1>4. /\ y.h = res.h /\ y.here = f.call.c /\ (y.running <=> res.p # None) /\ y.asked = x.asked \cup {next}
      /\ "boots" \in x.crossed => "boots" \in y.crossed
  BY <1>3, LiveIs
<1> HIDE DEF y
<1>5. q.s = y /\ q.screen.booting = p.screen.booting
  BY DEF PhoneShape
<1> HIDE DEF q
<1>6. Tells(f, f.call.c) /\ Named(f) = res.h /\ (Runs(f) <=> res.p # None)
  BY DEF Tells, Named, Runs
<1>7. Settled(y, Tail(w), G)
  BY <1>4, <1>6, ToldSettles
<1>8. RunOK(q, Tail(w), G) /\ Manned(q)
  BY <1>3, <1>4, <1>5, <1>7, SettledRun DEF Manned
<1>9. QED
  BY <1>1, <1>8

LEMMA CreateRun ==
  ASSUME NEW p, PhoneShape(p), NEW w, NEW G, Brings(w, G), NEW f, f = Head(w), f.t = "answer", f.ok,
         f.call.k = "create", f.res[1] \in Conv, ~p.s.running, p.screen.booting \ {f.call.m} = {}
  PROVE  RunOK(CreateAnswered(p, f.call, f.res), Tail(w), G) /\ Manned(CreateAnswered(p, f.call, f.res))
<1> DEFINE q == Adopts(p, f.res)
           r == Booted(q, f.call.m)
<1>1. CreateAnswered(p, f.call, f.res) = r
  BY DEF CreateAnswered, Adopts
<1>2. /\ PhoneShape(q) /\ q.s.h = f.res /\ q.s.here = f.res[1] /\ ~q.s.running
      /\ q.screen.booting = p.screen.booting
  BY DEF PhoneShape, Shape, AdoptSession, Adopts
<1> HIDE DEF q
<1>3. r.s = q.s /\ r.screen.booting = {}
  BY <1>2, BootedIs
<1> HIDE DEF r
<1>4. Tells(f, f.res[1]) /\ Named(f) = f.res /\ ~Runs(f)
  BY DEF Tells, Named, Runs
<1>5. Settled(q.s, Tail(w), G)
  BY <1>2, <1>4, ToldSettles
<1>6. RunOK(r, Tail(w), G) /\ Manned(r)
  BY <1>3, <1>5, SettledRun, UnmannedOK
<1>7. QED
  BY <1>1, <1>6

LEMMA CalmLoad ==
  ASSUME NEW x, Shape(x), NEW rows, NEW resync
  PROVE  Calmly(x, LoadHistory(x, rows, resync))
<1> DEFINE there == \E i \in DOMAIN rows : rows[i] = <<"said", x.inflight>>
           grafted == x.running /\ x.inflight # None /\ ~there
           put == IF grafted THEN Append(rows, <<"said", x.inflight>>) ELSE rows
<1>1. LoadHistory(x, rows, resync) = [x EXCEPT !.rows = put, !.queued = IF resync THEN @ ELSE None]
  BY DEF LoadHistory
<1> HIDE DEF put
<1>2. QED
  BY <1>1 DEF Calmly, Stays, Shape

LEMMA HistoryRun ==
  ASSUME NEW p, PhoneShape(p), NEW call, p.screen.booting \ {call.m} = {}, NEW rows, NEW w, NEW G, RunOK(p, w, G)
  PROVE  RunOK(HistoryAnswered(p, call, rows), w, G) /\ Manned(HistoryAnswered(p, call, rows))
<1> DEFINE fresh == IF p.s.rows = <<>> /\ p.s.queued = None THEN p.s ELSE Cross(p.s, "over")
           y == LoadHistory(fresh, rows, FALSE)
           q == [p EXCEPT !.s = y]
           loaded == Trails(q, call)
<1>1. HistoryAnswered(p, call, rows) = loaded
  BY DEF HistoryAnswered
<1>2. Calmly(p.s, fresh) /\ Shape(fresh)
  <2>1. Calmly(p.s, p.s) /\ Calmly(p.s, Cross(p.s, "over"))
    BY CalmSteps DEF PhoneShape
  <2>2. QED
    BY <2>1 DEF Calmly, Stays
<1> HIDE DEF fresh
<1>3. \A resync : Calmly(fresh, LoadHistory(fresh, rows, resync))
  BY <1>2, CalmLoad
<1>4. Steadily(p.s, y)
  BY <1>2, <1>3, StaysTwice DEF Calmly, Steadily
<1> HIDE DEF y
<1>5. RunOK(q, w, G)
  BY <1>4, SteadyRun
<1>6. PhoneShape(q) /\ q.screen = p.screen
  BY <1>4 DEF PhoneShape, Steadily, Stays
<1> HIDE DEF q
<1>7. Trails(q, call).screen.booting = p.screen.booting \ {call.m} /\ RunOK(Trails(q, call), w, G)
  <2>1. Trails(q, call).screen.booting = q.screen.booting \ {call.m}
    BY <1>6, TrailsIs
  <2>2. RunOK(Trails(q, call), w, G)
    BY <1>5, <1>6, TrailsRun
  <2>3. QED
    BY <1>6, <2>1, <2>2
<1>8. QED
  BY <1>1, <1>7, UnmannedOK

LEMMA ResyncSteady ==
  ASSUME NEW x, Shape(x), NEW rows, NEW running
  PROVE  /\ Stays(x, ApplyResync(x, rows, running))
         /\ \/ ApplyResync(x, rows, running).running <=> x.running
            \/ ~running /\ ~ApplyResync(x, rows, running).running
<1> DEFINE loaded == LoadHistory(x, rows, TRUE)
<1>1. \A resync : Calmly(x, LoadHistory(x, rows, resync))
  BY CalmLoad
<1>2. Calmly(x, loaded) /\ Shape(loaded)
  BY <1>1 DEF Calmly, Stays
<1>3. ApplyResync(x, rows, running) = IF Len(rows) < Len(x.rows) THEN x
                                      ELSE IF running THEN loaded
                                      ELSE [loaded EXCEPT !.running = FALSE, !.inflight = None]
  BY DEF ApplyResync
<1> HIDE DEF loaded
<1>4. QED
  BY <1>2, <1>3, CalmSteps DEF Calmly, Stays, Shape

LEMMA SyncHistoryRun ==
  ASSUME NEW p, PhoneShape(p), NEW call, NEW rows, NEW w, NEW G, RunOK(p, w, G), Manned(p)
  PROVE  RunOK(SyncHistory(p, call, rows), w, G) /\ Manned(SyncHistory(p, call, rows))
<1> DEFINE running == call.p # None
           raced == (IF Len(rows) < Len(p.s.rows) THEN {"longer"} ELSE {})
                    \cup (IF running /\ Contains(p.s.rows \o rows, <<"reply", call.p>>) THEN {"ended", "outrun"} ELSE {})
                    \cup (IF ~running /\ p.s.running THEN {"outrun"} ELSE {})
           x == [p.s EXCEPT !.crossed = @ \cup raced]
           synced == ApplyResync(x, rows, running)
           next == [k |-> "since", h |-> call.h, m |-> call.m]
           y == IF running THEN Call(BeginReplayWindow(synced), next) ELSE synced
<1>1. SyncHistory(p, call, rows) = IF ~Alive(p, call) THEN p ELSE [p EXCEPT !.s = y]
  BY DEF SyncHistory
<1>2. ~running /\ p.s.running => "outrun" \in raced
  OBVIOUS
<1> HIDE DEF raced
<1>3. Calmly(p.s, x) /\ Shape(x) /\ (~running /\ p.s.running => "outrun" \in x.crossed)
  BY <1>2 DEF Calmly, Stays, Shape, PhoneShape
<1> HIDE DEF x
<1>4. \A told : /\ Stays(x, ApplyResync(x, rows, told))
                /\ (ApplyResync(x, rows, told).running <=> x.running) \/ (~told /\ ~ApplyResync(x, rows, told).running)
  BY <1>3, ResyncSteady
<1>5. Stays(x, synced) /\ ((synced.running <=> x.running) \/ (~running /\ ~synced.running))
  <2>1. PICK told : told = running
    OBVIOUS
  <2>2. synced = ApplyResync(x, rows, told)
    BY <2>1
  <2>3. QED
    BY <1>4, <2>1, <2>2
<1> HIDE DEF synced, next
<1>6. Calmly(synced, y)
  BY <1>5 DEF Calmly, Stays, Shape, BeginReplayWindow, Call
<1> HIDE DEF y, running
<1>7. Stays(p.s, y) /\ (y.running <=> synced.running)
  BY <1>3, <1>5, <1>6, StaysTwice DEF Calmly
<1>8. "outrun" \in x.crossed => Raced(y)
  BY <1>5, <1>6 DEF Calmly, Stays, Raced, Races
<1>9. Steadily(p.s, y)
  BY <1>3, <1>5, <1>7, <1>8 DEF Steadily, Calmly
<1>10. RunOK([p EXCEPT !.s = y], w, G) /\ Manned([p EXCEPT !.s = y])
  BY <1>9, SteadyRun
<1>11. QED
  BY <1>1, <1>10

\* A prompt has been taken: its turn runs, or its end is on its way.
LEMMA SubmitRun ==
  ASSUME NEW p, PhoneShape(p), p.s.h # None => p.s.here \in Conv /\ p.s.here = p.s.h[1], NEW w, NEW G, Brings(w, G),
         RunOK(p, w, G), NEW f, f = Head(w), f.t = "answer", f.ok, f.call.k = "submit", f.call.h = p.s.h,
         NEW q, q.s.asked = p.s.asked \ {f.call}, q.s.h = p.s.h, q.s.here = p.s.here, q.s.up = p.s.up,
         q.s.running = p.s.running, q.s.crossed = p.s.crossed, q.screen = p.screen
  PROVE  RunOK(q, Tail(w), G)
<1> DEFINE c == p.s.here
           v == Tail(w)
<1>1. SUFFICES ASSUME ~Raced(p.s), p.s.up, p.screen.shown, p.s.h # None PROVE Awaits(q) \/ Settled(q.s, v, G)
  BY DEF RunOK, Raced
<1>2. Awaits(p) => Awaits(q)
  BY DEF Awaits
<1>3. /\ Clear(w, G[c], c) => Clear(v, G[c], c)
      /\ ~IsEvent(f, c) /\ Newest(v, 0, c) => Newest(w, 0, c)
      /\ Clear(w, G[c], c) /\ Hints(f, c) /\ Newest(v, 0, c) => (Runs(f) <=> G[c].turn # None)
  BY <1>1, TailTrue DEF Brings
<1>4. ~IsEvent(f, c) /\ Hints(f, c) /\ Runs(f)
  BY <1>1 DEF IsEvent, Hints, Runs
<1> HIDE DEF v
<1>5. Settled(p.s, w, G) => Settled(q.s, v, G)
  BY <1>3, <1>4 DEF Settled
<1>6. QED
  BY <1>1, <1>2, <1>5 DEF RunOK

\* The events of a turn that is over by now.
LEMMA SinceRun ==
  ASSUME NEW p, PhoneShape(p), p.s.h # None => p.s.here \in Conv /\ p.s.here = p.s.h[1], NEW w, NEW G, Brings(w, G),
         NEW v, v = Tail(w), RunOK(p, w, G), RunOK(p, v, G), NEW f, f = Head(w), f.t = "answer", f.ok,
         f.call.k = "since", Manned(p), NEW S, f.res.events \in Seq(S)
  PROVE  /\ RunOK(SyncReplayed(p, f.call, f.res.events), v, G)
         /\ Manned(SyncReplayed(p, f.call, f.res.events))
<1> DEFINE c == p.s.here
           events == f.res.events
<1>1. ASSUME ~Raced(p.s), p.s.up, p.screen.shown, p.s.h # None, ~Awaits(p), Over(events, p.s.h), Newest(v, 0, c)
      PROVE  G[c].turn = None
  <2>1. Settled(p.s, w, G)
    BY <1>1 DEF RunOK
  <2>2. Clear(w, G[c], c)
    BY <2>1 DEF Settled
  <2>3. Hints(f, c) /\ ~Runs(f)
    BY <1>1 DEF Hints, Runs, Over
  <2>4. Runs(f) <=> G[c].turn # None
    BY <1>1, <2>2, <2>3, TailTrue DEF Brings
  <2>5. QED
    BY <2>3, <2>4
<1>2. ~Raced(p.s) /\ p.s.up /\ p.screen.shown /\ p.s.h # None /\ ~Awaits(p) /\ Over(events, p.s.h)
        => (Newest(v, 0, c) => G[c].turn = None)
  BY <1>1
<1>3. QED
  BY <1>2, ReplayRun

\* An answer to a call the phone waits for.
LEMMA AnsweredRun ==
  ASSUME NEW p, NEW t, PhoneOK(p, t), Clean(p.s, t), NEW w, NEW G, Brings(w, G), RunOK(p, w, G), Manned(p),
         NEW f, f = Head(w), f.t = "answer", f.ok, f.call \in p.s.asked, AnswerOwn(t, f.call, f.res),
         NEW q, q = [p EXCEPT !.s.asked = @ \ {f.call}]
  PROVE  RunOK(Answered(q, f), Tail(w), G) /\ Manned(Answered(q, f))
<1> DEFINE call == f.call
           v == Tail(w)
           told == [q EXCEPT !.s = DeliverOpenRequests(@, f.res)]
<1>0. SUFFICES RunOK(Answered(q, f), v, G) /\ Manned(Answered(q, f))
  OBVIOUS
<1>1. PhoneOK(q, t) /\ Pending(q, t, call)
  BY TakeOK
<1>2. /\ PhoneShape(q) /\ q.screen = p.screen /\ q.s.h = p.s.h /\ q.s.here = p.s.here /\ q.s.up = p.s.up
      /\ q.s.running = p.s.running /\ q.s.crossed = p.s.crossed /\ q.s.asked = p.s.asked \ {call}
      /\ ~Opens(call) => Manned(q)
      /\ ~(call.k = "submit" /\ call.h = p.s.h) /\ ~(call.k = "resume" /\ call.by = "sync" /\ Alive(p, call))
           => RunOK(q, w, G)
  BY TakenRun DEF PhoneOK
<1>3. /\ Clean(q.s, t) /\ CallOwn(t, call) /\ PhoneShape(p)
      /\ p.s.h # None => p.s.here \in Conv /\ p.s.here = p.s.h[1]
      /\ p.s.running => p.s.h # None
  BY <1>1, <1>2 DEF Clean, Pending, PhoneOK, SoundPhone, Sound, Known
<1>4. RunOK(q, w, G) => RunOK(q, v, G)
  <2>1. ~IsEvent(f, q.s.here)
    BY DEF IsEvent
  <2>2. QED
    BY <1>2, <1>3, <2>1, TailRun
<1>5. /\ PhoneShape(told) /\ told.screen = q.screen /\ told.s.h = q.s.h /\ told.s.here = q.s.here
      /\ Manned(q) => Manned(told)
      /\ RunOK(q, w, G) => RunOK(told, w, G)
      /\ RunOK(q, v, G) => RunOK(told, v, G)
  <2> DEFINE y == DeliverOpenRequests(q.s, f.res)
  <2>1. Calmly(q.s, y)
    BY <1>2, CalmSheets DEF PhoneShape
  <2>2. told = [q EXCEPT !.s = y]
    OBVIOUS
  <2> HIDE DEF y, told, v
  <2>3. Steadily(q.s, y) /\ y.h = q.s.h /\ y.here = q.s.here /\ Shape(y)
    BY <2>1 DEF Steadily, Calmly, Stays
  <2>4. Manned(q) => Manned([q EXCEPT !.s = y])
    BY <1>2, <2>3, SteadyRun
  <2>5. RunOK(q, w, G) => RunOK([q EXCEPT !.s = y], w, G)
    BY <1>2, <2>3, SteadyRun
  <2>6. RunOK(q, v, G) => RunOK([q EXCEPT !.s = y], v, G)
    BY <1>2, <2>3, SteadyRun
  <2>7. QED
    BY <1>2, <2>2, <2>3, <2>4, <2>5, <2>6 DEF PhoneShape
<1> HIDE DEF v
<1>6. CASE call.k = "resume"
  <2>1. call.c \in Conv /\ f.res.h[1] = call.c /\ f.res.h # None
    BY <1>3, <1>6, ChatAssumption DEF CallOwn, AnswerOwn, Known, Handles
  <2>2. Answered(q, f) = IF call.by = "boot" THEN ResumeAnswered(told, call, f.res) ELSE SyncResumed(told, call, f.res)
    BY <1>6 DEF Answered
  <2> HIDE DEF told
  <2>3. RunOK(ResumeAnswered(told, call, f.res), v, G) /\ Manned(ResumeAnswered(told, call, f.res))
    BY <1>5, <1>6, <2>1, ResumeRun DEF v
  <2>4. CASE call.by = "boot"
    BY <2>2, <2>3, <2>4
  <2>5. CASE call.by # "boot"
    <3>1. Manned(told)
      BY <1>2, <1>5, <1>6, <2>5 DEF Opens
    <3>2. ~Alive(told, call) => RunOK(told, v, G)
      BY <1>2, <1>4, <1>5, <1>6 DEF Alive
    <3>3. told.s.h # None => told.s.here = told.s.h[1]
      BY <1>2, <1>3, <1>5
    <3>4. RunOK(SyncResumed(told, call, f.res), v, G) /\ Manned(SyncResumed(told, call, f.res))
      BY <1>5, <1>6, <2>1, <3>1, <3>2, <3>3, ResyncRun DEF v
    <3>5. QED
      BY <2>2, <2>5, <3>4
  <2>6. QED
    BY <2>4, <2>5
<1>7. CASE call.k = "history"
  <2>1. RunOK(q, v, G)
    BY <1>2, <1>4, <1>7
  <2>2. CASE call.by = "boot"
    <3>1. q.screen.booting \ {call.m} = {}
      BY <1>1, <1>3, <1>7, <2>2, OnlyBoot DEF Opens
    <3>2. Answered(q, f) = HistoryAnswered(q, call, f.res)
      BY <1>7, <2>2 DEF Answered
    <3>3. \A rows : RunOK(HistoryAnswered(q, call, rows), v, G) /\ Manned(HistoryAnswered(q, call, rows))
      BY <1>2, <2>1, <3>1, HistoryRun
    <3>4. QED
      BY <3>2, <3>3
  <2>3. CASE call.by # "boot"
    <3>1. Answered(q, f) = SyncHistory(q, call, f.res)
      BY <1>7, <2>3 DEF Answered
    <3>2. Manned(q)
      BY <1>2, <1>7, <2>3 DEF Opens
    <3>3. QED
      BY <1>2, <2>1, <3>1, <3>2, SyncHistoryRun
  <2>4. QED
    BY <2>2, <2>3
<1>8. CASE call.k = "since"
  <2>1. Answered(q, f) = SyncReplayed(told, call, f.res.events)
    BY <1>8 DEF Answered
  <2> HIDE DEF told
  <2>2. RunOK(told, w, G) /\ RunOK(told, v, G) /\ Manned(told)
    BY <1>2, <1>4, <1>5, <1>8 DEF Opens
  <2>3. f.res.events \in Seq(OwnEvent(t))
    BY <1>8 DEF AnswerOwn
  <2>4. told.s.h # None => told.s.here \in Conv /\ told.s.here = told.s.h[1]
    BY <1>2, <1>3, <1>5
  <2>5. RunOK(SyncReplayed(told, f.call, f.res.events), v, G) /\ Manned(SyncReplayed(told, f.call, f.res.events))
    BY <1>5, <1>8, <2>2, <2>3, <2>4, SinceRun DEF v
  <2>6. QED
    BY <2>1, <2>5
<1>9. CASE call.k = "create"
  <2>1. q.screen.booting \ {call.m} = {} /\ q.s.h = None
    BY <1>1, <1>3, <1>9, OnlyBoot DEF Opens
  <2>2. ~q.s.running /\ f.res[1] \in Conv
    BY <1>2, <1>3, <1>9, <2>1 DEF AnswerOwn, Known
  <2>3. Answered(q, f) = CreateAnswered(q, call, f.res)
    BY <1>9 DEF Answered
  <2>4. RunOK(CreateAnswered(q, f.call, f.res), v, G) /\ Manned(CreateAnswered(q, f.call, f.res))
    BY <1>2, <1>9, <2>1, <2>2, CreateRun DEF v
  <2>5. QED
    BY <2>3, <2>4
<1>10. CASE call.k = "submit"
  <2> DEFINE y == Rewound(q.s, call)
  <2>1. Answered(q, f) = [q EXCEPT !.s = y]
    BY <1>10 DEF Answered
  <2>2. Steadily(q.s, y)
    BY <1>2, CalmSteps DEF PhoneShape, Calmly, Steadily
  <2> HIDE DEF y
  <2>3. RunOK(q, v, G) /\ Manned(q)
    <3>1. call.h = p.s.h => RunOK(q, v, G)
      BY <1>2, <1>3, <1>10, SubmitRun DEF v
    <3>2. QED
      BY <1>2, <1>4, <1>10, <3>1 DEF Opens
  <2>4. RunOK([q EXCEPT !.s = y], v, G) /\ Manned([q EXCEPT !.s = y])
    BY <1>2, <2>2, <2>3, SteadyRun
  <2>5. QED
    BY <2>1, <2>4
<1>11. CASE call.k \in {"undo", "respond"}
  <2> DEFINE u == Undone(q.s, call)
             r == Responded(q.s, call, f.res)
  <2>1. Answered(q, f) = [q EXCEPT !.s = u] \/ Answered(q, f) = [q EXCEPT !.s = r]
    BY <1>11 DEF Answered
  <2>2. Steadily(q.s, u) /\ Steadily(q.s, r)
    <3>1. Shape(q.s)
      BY <1>2 DEF PhoneShape
    <3>2. Steadily(q.s, u) /\ Calmly(q.s, r)
      BY <3>1, SendSteady, CalmSheets
    <3>3. QED
      BY <3>2 DEF Calmly, Steadily
  <2> HIDE DEF u, r
  <2>3. RunOK(q, v, G) /\ Manned(q)
    BY <1>2, <1>4, <1>11 DEF Opens
  <2>4. RunOK([q EXCEPT !.s = u], v, G) /\ Manned([q EXCEPT !.s = u])
    BY <1>2, <2>2, <2>3, SteadyRun
  <2>5. RunOK([q EXCEPT !.s = r], v, G) /\ Manned([q EXCEPT !.s = r])
    BY <1>2, <2>2, <2>3, SteadyRun
  <2>6. QED
    BY <2>1, <2>4, <2>5
<1>12. CASE call.k \notin {"resume", "history", "since", "create", "submit", "undo", "respond"}
  <2>1. Answered(q, f) = q
    BY <1>12 DEF Answered
  <2>2. QED
    BY <1>2, <1>4, <1>12, <2>1 DEF Opens
<1>13. QED
  BY <1>6, <1>7, <1>8, <1>9, <1>10, <1>11, <1>12

\* An event: it is of a turn the phone is in, or none it can be wrong about.
LEMMA EventRun ==
  ASSUME NEW p, NEW t, PhoneOK(p, t), Clean(p.s, t), NEW w, NEW G, Brings(w, G), RunOK(p, w, G), Manned(p),
         NEW f, f = Head(w), f.t \in {"start", "work", "complete"}, FrameOwn(t, f),
         NEW q, q = IF p.screen.shown THEN [p EXCEPT !.s = ApplyEvent(@, f)] ELSE p
  PROVE  RunOK(q, Tail(w), G) /\ Manned(q)
<1> DEFINE y == ApplyEvent(p.s, f)
           c == p.s.here
           v == Tail(w)
<1>1. /\ PhoneShape(p) /\ f.h \in Handles /\ f.h[1] \in Conv
      /\ p.s.h # None => c \in Conv /\ c = p.s.h[1]
  BY DEF PhoneOK, SoundPhone, Sound, Known, FrameOwn, Handles
<1>2. Stays(p.s, y) /\ (f.h # p.s.h => y = p.s) /\ (f.h = p.s.h => Learnt(y, f))
  BY <1>1, EventLearns DEF PhoneShape
<1>3. CASE ~p.screen.shown
  BY <1>3 DEF RunOK
<1>4. CASE p.screen.shown
  <2>1. q.s = y /\ q.screen = p.screen
    BY <1>1, <1>4 DEF PhoneShape
  <2> HIDE DEF y
  <2>2. Manned(q)
    BY <1>2, <2>1 DEF Manned, Stays, Races, Opens
  <2>3. RunOK(q, v, G)
    <3>1. SUFFICES ASSUME ~Raced(y), y.up, y.h # None PROVE Awaits(q) \/ Settled(y, v, G)
      BY <2>1 DEF RunOK
    <3>2. Awaits(p) \/ Settled(p.s, w, G)
      BY <1>2, <1>4, <3>1 DEF RunOK, Stays, Raced
    <3>3. Awaits(p) => Awaits(q)
      BY <1>2, <2>1 DEF Awaits, Stays
    <3>4. CASE f.h = p.s.h
      <4>1. c \in Conv /\ y.here = c /\ y.h = p.s.h /\ c = p.s.h[1]
        BY <1>1, <1>2, <3>1 DEF Stays
      <4>2. Tells(f, c) /\ Named(f) = f.h /\ (Runs(f) <=> f.t # "complete")
        BY <3>4, <4>1 DEF Tells, IsEvent, Named, Runs
      <4>3. (Runs(f) => y.running) /\ (y.running => Runs(f) \/ Sent(y))
        BY <1>2, <3>1, <3>4, <4>2 DEF Learnt
      <4>4. Settled(y, v, G)
        BY <3>4, <4>1, <4>2, <4>3, ToldSettles
      <4>5. QED
        BY <4>4
    <3>5. CASE f.h # p.s.h
      <4>1. y = p.s /\ c \in Conv
        BY <1>1, <1>2, <3>1, <3>5 DEF Stays
      <4>2. Tells(f, c) => G[c].on /\ f.h = <<c, G[c].run>>
        <5>1. Named(f) = f.h
          BY DEF Named
        <5>2. QED
          BY <4>1, <5>1, TailTrue DEF Brings
      <4>3. Settled(p.s, w, G) => ~IsEvent(f, c)
        BY <3>5, <4>2 DEF Settled, Tells
      <4>4. ~IsEvent(f, c) => RunOK(p, v, G)
        BY <4>1, TailRun
      <4>5. Awaits(q) \/ RunOK(p, v, G)
        BY <3>2, <3>3, <4>3, <4>4
      <4>6. QED
        BY <1>4, <2>1, <3>1, <3>3, <4>1, <4>5 DEF RunOK
    <3>6. QED
      BY <3>4, <3>5
  <2>4. QED
    BY <2>2, <2>3
<1>5. QED
  BY <1>3, <1>4

LEMMA ReceivedRun ==
  ASSUME NEW p, NEW t, PhoneOK(p, t), Clean(p.s, t), NEW w, NEW G, Brings(w, G), RunOK(p, w, G), Manned(p),
         NEW f, f = Head(w), FrameOwn(t, f)
  PROVE  RunOK(Received(p, f), Tail(w), G) /\ Manned(Received(p, f))
<1> DEFINE v == Tail(w)
           q == [p EXCEPT !.s.asked = @ \ {f.call}]
<1>1. /\ PhoneShape(p) /\ (p.s.h # None => p.s.here \in Conv)
      /\ f.t \in {"answer", "start", "work", "complete", "ask", "cancel"}
  BY DEF PhoneOK, SoundPhone, Sound, Known, FrameOwn
<1>2. f.t \in {"answer", "ask", "cancel"} => RunOK(p, v, G)
  <2>1. f.t \in {"answer", "ask", "cancel"} => ~IsEvent(f, p.s.here)
    BY DEF IsEvent
  <2>2. QED
    BY <1>1, <2>1, TailRun
<1>3. CASE f.t = "answer" /\ f.call \notin p.s.asked
  BY <1>2, <1>3 DEF Received
<1>4. CASE f.t = "answer" /\ f.call \in p.s.asked /\ f.ok
  <2>1. Received(p, f) = Answered(q, f)
    BY <1>4 DEF Received
  <2>2. AnswerOwn(t, f.call, f.res)
    BY <1>4 DEF FrameOwn
  <2>3. RunOK(Answered(q, f), v, G) /\ Manned(Answered(q, f))
    BY <1>4, <2>2, AnsweredRun
  <2>4. QED
    BY <2>1, <2>3
<1>5. CASE f.t = "answer" /\ f.call \in p.s.asked /\ ~f.ok
  <2>1. Received(p, f) = Failed(q, f.call)
    BY <1>5 DEF Received
  <2> HIDE DEF v
  <2>2. RunOK(p, v, G)
    BY <1>2, <1>5
  <2>3. RunOK(Failed(q, f.call), v, G) /\ Manned(Failed(q, f.call))
    BY <1>5, <2>2, FailedRun
  <2>4. QED
    BY <2>1, <2>3 DEF v
<1>6. CASE f.t \in {"ask", "cancel"}
  <2> DEFINE x == ApplyServerRequest(p.s, f.h, f.p)
             y == CancelServerRequest(p.s, f.h, f.p)
  <2>1. Received(p, f) = [p EXCEPT !.s = x] \/ Received(p, f) = [p EXCEPT !.s = y]
    BY <1>6 DEF Received
  <2>2. Calmly(p.s, x) /\ Calmly(p.s, y)
    BY <1>1, CalmSheets DEF PhoneShape
  <2> HIDE DEF x, y, v
  <2>3. Steadily(p.s, x) /\ Steadily(p.s, y)
    BY <2>2 DEF Calmly, Steadily
  <2>4. RunOK([p EXCEPT !.s = x], v, G) /\ Manned([p EXCEPT !.s = x])
    BY <1>1, <1>2, <1>6, <2>3, SteadyRun
  <2>5. RunOK([p EXCEPT !.s = y], v, G) /\ Manned([p EXCEPT !.s = y])
    BY <1>1, <1>2, <1>6, <2>3, SteadyRun
  <2>6. QED
    BY <2>1, <2>4, <2>5 DEF v
<1>7. CASE f.t \in {"start", "work", "complete"}
  <2> DEFINE r == IF p.screen.shown THEN [p EXCEPT !.s = ApplyEvent(@, f)] ELSE p
  <2>1. Received(p, f) = r
    BY <1>7 DEF Received
  <2>2. RunOK(r, v, G) /\ Manned(r)
    BY <1>7, EventRun
  <2>3. QED
    BY <2>1, <2>2
<1>8. QED
  BY <1>1, <1>3, <1>4, <1>5, <1>6, <1>7

-----------------------------------------------------------------------------
(* The stop button, step by step.  Once a conversation was opened over      *)
(* another's boot nothing is said any more.                                 *)

StopInv == Manned(Phone) /\ ("boots" \notin s.crossed => Tracked /\ RunOK(Phone, wire, gw))

StopNext == "boots" \in s'.crossed
            \/ /\ Manned(Phone') /\ RunOK(Phone', wire', gw')
               /\ \A c \in Conv : Track(wire', gw'[c], c)

LEMMA StopHas ==
  ASSUME NEW b \in BOOLEAN, ~b, Has(b), StopInv
  PROVE  /\ PhoneOK(Phone, Now(b)) /\ PhoneShape(Phone) /\ Phone.s = s /\ Phone.screen = screen
         /\ Manned(Phone) /\ (Clean(s, Now(b)) <=> "boots" \notin s.crossed)
         /\ Clean(s, Now(b)) => /\ World(b) /\ Tracked /\ RunOK(Phone, wire, gw)
                                /\ s.h # None => s.here \in Conv
                                /\ \A m \in screen.booting : m \in Nat /\ m <= screen.visit
                                /\ screen.visit \in Nat
<1>1. PhoneOK(Phone, Now(b)) /\ Phone.s = s /\ Phone.screen = screen
  BY InvPhone
<1>2. Clean(s, Now(b)) <=> "boots" \notin s.crossed
  BY DEF Clean, Now
<1>3. Clean(s, Now(b)) => /\ World(b)
                          /\ s.h # None => s.here \in Conv
                          /\ \A m \in screen.booting : m \in Nat /\ m <= screen.visit
                          /\ screen.visit \in Nat
  BY <1>1 DEF Has, SoundPhone, Sound, Known
<1>4. QED
  BY <1>1, <1>2, <1>3 DEF StopInv, PhoneOK

\* What a step leaves is right if what it made of the phone is.
LEMMA LeavesRight ==
  ASSUME NEW q, PhoneShape(q), NEW asked, asked = {call \in q.s.asked : call.k # "response"},
         NEW x, x \in {q.s, [q.s EXCEPT !.asked = asked]}, s' = x, screen' = q.screen, NEW w, NEW G
  PROVE  /\ s'.crossed = q.s.crossed
         /\ Manned(q) => Manned(Phone')
         /\ RunOK(q, w, G) => RunOK(Phone', w, G)
<1>1. Phone'.s = s' /\ Phone'.screen = screen'
  BY DEF Phone
<1>2. /\ s'.crossed = q.s.crossed /\ s'.h = q.s.h /\ s'.here = q.s.here /\ s'.up = q.s.up
      /\ s'.running = q.s.running /\ \A call \in q.s.asked : call.k # "response" => call \in s'.asked
  BY DEF PhoneShape, Shape
<1>3. Manned(q) => Manned(Phone')
  BY <1>1, <1>2 DEF Manned, Opens
<1>4. Sent(q.s) => Sent(s')
  BY <1>2 DEF Sent
<1>5. Settled(q.s, w, G) => Settled(s', w, G)
  BY <1>2, <1>4 DEF Settled
<1>6. Awaits(q) => Awaits(Phone')
  BY <1>1, <1>2 DEF Awaits
<1>7. RunOK(q, w, G) => RunOK(Phone', w, G)
  BY <1>1, <1>2, <1>5, <1>6 DEF RunOK, Raced
<1>8. QED
  BY <1>2, <1>3, <1>7

LEMMA PhoneStops ==
  ASSUME NEW b \in BOOLEAN, ~b, Has(b), StopInv, NEW q, PhoneShape(q), Onward(Phone, q), UNCHANGED gw,
         Is(q) \/ (s' = q.s /\ screen' = q.screen),
         Clean(s, Now(b)) => Manned(q) /\ RunOK(q, wire', gw) /\ \A c \in Conv : Track(wire', gw[c], c)
  PROVE  StopNext
<1>1. /\ Phone.s = s
      /\ Clean(s, Now(b)) <=> "boots" \notin s.crossed
  BY StopHas
<1> DEFINE asked == {call \in q.s.asked : call.k # "response"}
<1>2. s' \in {q.s, [q.s EXCEPT !.asked = asked]} /\ screen' = q.screen
  BY DEF Is
<1> HIDE DEF asked
<1>3. /\ s'.crossed = q.s.crossed /\ (Manned(q) => Manned(Phone'))
      /\ RunOK(q, wire', gw) => RunOK(Phone', wire', gw)
  BY <1>2, LeavesRight DEF asked
<1>4. "boots" \in s.crossed => "boots" \in s'.crossed
  BY <1>1, <1>3 DEF Onward
<1>5. QED
  BY <1>1, <1>3, <1>4 DEF StopNext

\* Steps that the wire has no part in.
LEMMA MovingStops ==
  ASSUME NEW b \in BOOLEAN, ~b, Has(b), StopInv, NEW q, Moves(Phone, q), Is(q), UNCHANGED <<wire, gw>>
  PROVE  StopNext
<1>1. /\ Phone.s = s /\ Manned(Phone)
      /\ Clean(s, Now(b)) <=> "boots" \notin s.crossed
      /\ Clean(s, Now(b)) => Tracked /\ RunOK(Phone, wire, gw)
  BY StopHas
<1>2. Clean(s, Now(b)) => RunOK(q, wire, gw) /\ Manned(q)
  BY <1>1, MovesRun DEF Moves
<1> DEFINE asked == {call \in q.s.asked : call.k # "response"}
<1>3. s' \in {q.s, [q.s EXCEPT !.asked = asked]} /\ screen' = q.screen /\ PhoneShape(q)
  BY DEF Is, Moves
<1> HIDE DEF asked
<1>4. /\ s'.crossed = q.s.crossed /\ (Manned(q) => Manned(Phone'))
      /\ RunOK(q, wire, gw) => RunOK(Phone', wire, gw)
  BY <1>3, LeavesRight DEF asked
<1>5. "boots" \in s.crossed => "boots" \in s'.crossed
  BY <1>1, <1>4 DEF Moves
<1>6. QED
  BY <1>1, <1>2, <1>4, <1>5 DEF StopNext, Tracked

LEMMA SteadyStops ==
  ASSUME NEW b \in BOOLEAN, ~b, Has(b), StopInv, NEW y, Steadily(s, y), Is([Phone EXCEPT !.s = y]),
         UNCHANGED <<wire, gw>>
  PROVE  StopNext
<1>1. PhoneShape(Phone) /\ Phone.s = s
  BY StopHas
<1>2. Moves(Phone, [Phone EXCEPT !.s = y])
  BY <1>1, MovesBy
<1>3. QED
  BY <1>2, MovingStops

LEMMA ReceiveStops ==
  ASSUME NEW b \in BOOLEAN, ~b, Has(b), StopInv, Receive
  PROVE  StopNext
<1> DEFINE f == Head(wire)
           q == Received(Phone, f)
<1>1. /\ PhoneOK(Phone, Now(b)) /\ Phone.s = s /\ Manned(Phone)
      /\ Clean(s, Now(b)) => World(b) /\ Tracked /\ RunOK(Phone, wire, gw)
  BY StopHas
<1>2. Is(q) /\ UNCHANGED gw /\ wire # <<>> /\ wire' = Tail(wire)
  BY DEF Receive
<1>3. Clean(s, Now(b)) => FrameOwn(Now(b), f) /\ Brings(wire, gw)
  <2>1. Clean(s, Now(b)) => f \in Range(wire) /\ IsWire(wire)
    <3>1. Clean(s, Now(b)) => wire \in Seq(Range(wire))
      BY <1>1 DEF World, WireOK
    <3>2. QED
      BY <1>2, <3>1 DEF IsWire
  <2>2. QED
    BY <1>1, <1>2, <2>1 DEF World, WireOK, Brings, Tracked, Track
<1>4. PhoneOK(q, Now(b)) /\ Onward(Phone, q)
  BY <1>1, <1>3, ReceivedOK
<1> HIDE DEF f
<1>5. Clean(s, Now(b)) => RunOK(q, Tail(wire), gw) /\ Manned(q)
  BY <1>1, <1>3, ReceivedRun DEF f
<1>6. Clean(s, Now(b)) => \A c \in Conv : Track(Tail(wire), gw[c], c)
  <2>1. SUFFICES ASSUME Clean(s, Now(b)), NEW c \in Conv PROVE Track(Tail(wire), gw[c], c)
    OBVIOUS
  <2>2. WireTrue(Tail(wire), gw[c], c)
    BY <1>3, <2>1, TailTrue DEF Brings
  <2>3. QED
    BY <1>1, <2>1, <2>2 DEF Tracked, Track
<1> HIDE DEF q
<1>7. QED
  BY <1>2, <1>4, <1>5, <1>6, PhoneStops DEF PhoneOK

\* A call whose time is up, or that fails with the socket.
LEMMA FailStops ==
  ASSUME NEW b \in BOOLEAN, ~b, Has(b), StopInv, NEW call \in s.asked, NEW q,
         q = Failed([Phone EXCEPT !.s.asked = @ \ {call}], call), s' = q.s, screen' = q.screen, UNCHANGED <<wire, gw>>
  PROVE  StopNext
<1> DEFINE known == [Phone EXCEPT !.s.asked = @ \ {call}]
<1>1. /\ PhoneOK(Phone, Now(b)) /\ Phone.s = s /\ Manned(Phone)
      /\ Clean(s, Now(b)) => World(b) /\ Tracked /\ RunOK(Phone, wire, gw)
  BY StopHas
<1>2. PhoneOK(known, Now(b)) /\ Onward(Phone, known) /\ (Clean(s, Now(b)) => Pending(known, Now(b), call))
  BY <1>1, TakeOK
<1>3. Clean(s, Now(b)) => RunOK(Failed(known, call), wire, gw) /\ Manned(Failed(known, call))
  BY <1>1, FailedRun
<1>4. q = Failed(known, call)
  OBVIOUS
<1> HIDE DEF known
<1>5. PhoneOK(q, Now(b)) /\ Onward(known, q)
  BY <1>1, <1>2, <1>4, OnwardClean, FailedOK
<1>6. Onward(Phone, q) /\ PhoneShape(q)
  BY <1>2, <1>5 DEF Onward, PhoneOK
<1>7. QED
  BY <1>1, <1>3, <1>4, <1>6, PhoneStops DEF Tracked

LEMMA LostStops ==
  ASSUME NEW b \in BOOLEAN, ~b, Has(b), StopInv, TimeOut \/ CallFails
  PROVE  StopNext
<1>1. PICK call \in s.asked :
        LET p == Failed([Phone EXCEPT !.s.asked = @ \ {call}], call) IN s' = p.s /\ screen' = p.screen
  BY DEF TimeOut, CallFails
<1>2. UNCHANGED <<wire, gw>>
  BY DEF TimeOut, CallFails
<1>3. QED
  BY <1>1, <1>2, FailStops

LEMMA DropStops ==
  ASSUME NEW b \in BOOLEAN, ~b, Has(b), StopInv, Drop
  PROVE  StopNext
<1>1. /\ Manned(Phone) /\ PhoneShape(Phone) /\ Phone.s = s /\ Phone.screen = screen
      /\ Clean(s, Now(b)) <=> "boots" \notin s.crossed
      /\ Clean(s, Now(b)) => World(b) /\ Tracked
  BY StopHas
<1>2. s' = [s EXCEPT !.up = FALSE, !.held = {}] /\ screen' = [screen EXCEPT !.watching = FALSE]
  BY DEF Drop
<1>3. /\ Phone'.s.crossed = s.crossed /\ ~Phone'.s.up /\ Phone'.s.asked = s.asked
      /\ Phone'.screen.booting = screen.booting /\ Phone'.s = s'
  BY <1>1, <1>2 DEF PhoneShape, Shape, Phone
<1>4. Manned(Phone') /\ RunOK(Phone', wire', gw')
  BY <1>1, <1>3 DEF Manned, RunOK
<1>5. Clean(s, Now(b)) => \A c \in Conv : Track(wire', gw'[c], c)
  BY <1>1, DropTracks
<1>6. QED
  BY <1>1, <1>3, <1>4, <1>5 DEF StopNext

LEMMA BackStops ==
  ASSUME NEW b \in BOOLEAN, ~b, Has(b), StopInv, NEW p, PhoneOK(p, Now(b)), Onward(Phone, p), Is(Effects(p)),
         UNCHANGED <<wire, gw>>, Clean(s, Now(b)) => p.screen.visit \notin p.screen.booting /\ Manned(p)
  PROVE  StopNext
<1> DEFINE q == Effects(p)
<1>1. Phone.s = s /\ (Clean(s, Now(b)) => Tracked)
  BY StopHas
<1>2. Moves(p, BootEffect(p))
  BY BootMoves DEF PhoneOK
<1>3. PhoneShape(q) /\ ("boots" \in p.s.crossed => "boots" \in q.s.crossed)
  <2> DEFINE r == BootEffect(p)
             call == [k |-> "resume", c |-> p.s.here, by |-> "sync", m |-> p.screen.visit]
             back == [r EXCEPT !.s = Cross(@, "back")]
             asks == [r EXCEPT !.s = Call(@, call), !.screen.watching = TRUE]
  <2>1. q \in {r, back, asks}
    BY DEF Effects, ReconnectEffect
  <2> HIDE DEF r, q, call
  <2>2. PhoneShape(r) /\ ("boots" \in p.s.crossed => "boots" \in r.s.crossed)
    BY <1>2 DEF Moves, r
  <2>3. PhoneShape(back) /\ back.s.crossed = r.s.crossed \cup {"back"}
    BY <2>2 DEF PhoneShape, Shape, Cross
  <2>4. PhoneShape(asks) /\ asks.s.crossed = r.s.crossed
    BY <2>2 DEF PhoneShape, Shape, Call
  <2>5. QED
    BY <2>1, <2>2, <2>3, <2>4
<1>4. Clean(s, Now(b)) => RunOK(q, wire, gw) /\ Manned(q)
  BY EffectsRun DEF PhoneOK
<1> DEFINE asked == {call \in q.s.asked : call.k # "response"}
<1>5. s' \in {q.s, [q.s EXCEPT !.asked = asked]} /\ screen' = q.screen
  BY DEF Is
<1> HIDE DEF q, asked
<1>6. /\ s'.crossed = q.s.crossed /\ (Manned(q) => Manned(Phone'))
      /\ RunOK(q, wire, gw) => RunOK(Phone', wire, gw)
  BY <1>3, <1>5, LeavesRight DEF asked
<1>7. ~Clean(s, Now(b)) => "boots" \in s'.crossed
  BY <1>1, <1>3, <1>6, StopHas DEF Onward
<1>8. QED
  BY <1>1, <1>4, <1>6, <1>7 DEF StopNext, Tracked

LEMMA ReopenStops ==
  ASSUME NEW b \in BOOLEAN, ~b, Has(b), StopInv, Reopen, ~Failing
  PROVE  StopNext
<1> DEFINE p == [Phone EXCEPT !.s.up = TRUE]
<1>1. /\ PhoneOK(Phone, Now(b)) /\ PhoneShape(Phone) /\ Phone.s = s /\ Phone.screen = screen /\ Manned(Phone)
      /\ Clean(s, Now(b)) <=> "boots" \notin s.crossed
  BY StopHas
<1>2. s.asked = {}
  BY DEF Reopen, Failing
<1>3. /\ PhoneShape(p) /\ p.s.asked = {} /\ p.s.crossed = s.crossed /\ p.screen = screen
      /\ p.s = [s EXCEPT !.up = TRUE]
  BY <1>1, <1>2 DEF PhoneShape, Shape
<1>4. Is(Effects(p)) /\ UNCHANGED <<wire, gw>>
  BY DEF Reopen
<1>5. PhoneOK(p, Now(b)) /\ Onward(Phone, p)
  <2>1. StoreOK(s, Now(b))
    BY <1>1 DEF PhoneOK, PhoneShape, SoundPhone, StoreOK
  <2>2. StoreOK([s EXCEPT !.up = TRUE], Now(b)) /\ Within(s, [s EXCEPT !.up = TRUE])
    BY <2>1 DEF StoreOK, Within, Shape, Clean, Sound, SheetClean
  <2>3. p = [Phone EXCEPT !.s = [s EXCEPT !.up = TRUE]]
    BY <1>1 DEF Phone
  <2>4. QED
    BY <1>1, <2>2, <2>3, StoreMoves
<1> HIDE DEF p
<1>6. Clean(s, Now(b)) => p.screen.booting = {}
  BY <1>1, <1>2, <1>3 DEF Manned
<1>7. Clean(s, Now(b)) => p.screen.visit \notin p.screen.booting /\ Manned(p)
  BY <1>6, UnmannedOK
<1>8. QED
  BY <1>4, <1>5, <1>7, BackStops

\* A boot is over, to the REST reads behind it.
LEMMA TrailedStops ==
  ASSUME NEW b \in BOOLEAN, ~b, Has(b), StopInv, BootTrailed
  PROVE  StopNext
<1>1. PICK boot \in screen.trailing : Is(Trailed(Phone, boot))
  BY DEF BootTrailed
<1>2. UNCHANGED <<wire, gw>>
  BY DEF BootTrailed
<1>3. Moves(Phone, Trailed(Phone, boot))
  BY StopHas, TrailedMoves
<1>4. QED
  BY <1>1, <1>2, <1>3, MovingStops

\* A new visit, by a tap or by the tab
LEMMA VisitStops ==
  ASSUME NEW b \in BOOLEAN, ~b, Has(b), StopInv, NEW p, PhoneShape(p), p.s = s, p.screen.booting = screen.booting,
         p.screen.trailing = screen.trailing, p.screen.visit = screen.visit + 1, Clean(s, Now(b)) => p.screen.intent \in Known(Now(b)) \cup {None},
         Is(Effects(p)), UNCHANGED <<wire, gw>>
  PROVE  StopNext
<1>1. PhoneOK(p, Now(b)) /\ Onward(Phone, p)
  BY VisitOK
<1>2. /\ Manned(Phone) /\ Phone.s = s /\ Phone.screen = screen
      /\ Clean(s, Now(b)) => /\ \A m \in screen.booting : m \in Nat /\ m <= screen.visit
                             /\ screen.visit \in Nat
  BY StopHas
<1>3. Manned(p)
  BY <1>2 DEF Manned
<1>4. Clean(s, Now(b)) => p.screen.visit \notin p.screen.booting
  BY <1>2
<1>5. QED
  BY <1>1, <1>3, <1>4, BackStops

LEMMA OpenStops ==
  ASSUME NEW b \in BOOLEAN, ~b, Has(b), StopInv, NEW c \in Conv, Open(c)
  PROVE  StopNext
<1>0. PhoneShape(Phone) /\ Phone.s = s /\ Phone.screen = screen
  BY StopHas
<1> DEFINE p == [Phone EXCEPT !.screen.intent = c]
           v == [Phone EXCEPT !.screen.intent = c, !.screen.shown = TRUE, !.screen.visit = @ + 1]
<1>1. UNCHANGED <<wire, gw>> /\ c \in Known(Now(b)) /\ (Is(BootEffect(p)) \/ Is(Effects(v)))
  BY DEF Open, Known, Now
<1>2. CASE Is(BootEffect(p))
  <2>1. Moves(Phone, p) /\ PhoneShape(p)
    BY <1>0, IntentMoves DEF Moves
  <2> HIDE DEF p
  <2>2. Moves(p, BootEffect(p))
    BY <2>1, BootMoves
  <2>3. Moves(Phone, BootEffect(p))
    BY <2>1, <2>2, MovesTwice
  <2>4. QED
    BY <1>1, <1>2, <2>3, MovingStops
<1>3. CASE Is(Effects(v))
  <2>1. /\ PhoneShape(v) /\ v.s = s /\ v.screen.booting = screen.booting /\ v.screen.trailing = screen.trailing
        /\ v.screen.visit = screen.visit + 1 /\ v.screen.intent = c
    BY <1>0 DEF PhoneShape
  <2> HIDE DEF v
  <2>2. QED
    BY <1>1, <1>3, <2>1, VisitStops
<1>4. QED
  BY <1>1, <1>2, <1>3

LEMMA ReturnStops ==
  ASSUME NEW b \in BOOLEAN, ~b, Has(b), StopInv, Return
  PROVE  StopNext
<1> DEFINE v == [Phone EXCEPT !.screen.shown = TRUE, !.screen.visit = @ + 1]
<1>1. UNCHANGED <<wire, gw>> /\ Is(Effects(v))
  BY DEF Return
<1>2. /\ PhoneShape(v) /\ v.s = s /\ v.screen.booting = screen.booting /\ v.screen.trailing = screen.trailing
      /\ v.screen.visit = screen.visit + 1 /\ v.screen.intent = screen.intent
  BY StopHas DEF PhoneShape
<1>3. Clean(s, Now(b)) => screen.intent \in Known(Now(b)) \cup {None}
  BY DEF Has, World, SoundPhone, Phone
<1> HIDE DEF v
<1>4. QED
  BY <1>1, <1>2, <1>3, VisitStops

LEMMA LeaveStops ==
  ASSUME NEW b \in BOOLEAN, ~b, Has(b), StopInv, Leave
  PROVE  StopNext
<1>1. /\ PhoneShape(Phone) /\ Phone.s = s /\ Phone.screen = screen /\ Manned(Phone)
      /\ Clean(s, Now(b)) <=> "boots" \notin s.crossed
      /\ Clean(s, Now(b)) => Tracked
  BY StopHas
<1>2. screen' = [screen EXCEPT !.shown = FALSE, !.intent = None, !.watching = FALSE] /\ UNCHANGED <<s, wire, gw>>
  BY DEF Leave
<1>3. Phone'.s = s /\ Phone'.screen.booting = screen.booting /\ ~Phone'.screen.shown
  BY <1>1, <1>2 DEF PhoneShape, Phone
<1>4. Manned(Phone') /\ RunOK(Phone', wire', gw')
  BY <1>1, <1>3 DEF Manned, RunOK
<1>5. QED
  BY <1>1, <1>2, <1>4 DEF StopNext, Tracked

\* Another chat, and whatever the user does in the one on screen.
LEMMA ChatStops ==
  ASSUME NEW b \in BOOLEAN, ~b, Has(b), StopInv, NewChat \/ (\E p \in Prompt : Type(p)) \/ SendAgain \/ Interrupt \/ Approve
  PROVE  StopNext
<1>0. PhoneShape(Phone) /\ Phone.s = s /\ Phone.screen = screen /\ Shape(s)
  BY StopHas DEF PhoneShape
<1>1. CASE NewChat
  <2>1. Moves(Phone, StartNew(Phone, screen.visit))
    BY <1>0, StartMoves
  <2>2. Is(StartNew(Phone, screen.visit)) /\ UNCHANGED <<wire, gw>>
    BY <1>1 DEF NewChat
  <2>3. QED
    BY <2>1, <2>2, MovingStops
<1>2. CASE \E p \in Prompt : Type(p)
  <2>1. PICK p \in Prompt : Type(p)
    BY <1>2
  <2> DEFINE y == SubmitPrompt(s, p, FALSE)
  <2>2. Is([Phone EXCEPT !.s = y]) /\ UNCHANGED <<wire, gw>>
    BY <1>0, <2>1 DEF Type
  <2>3. \A r : Steadily(s, SubmitPrompt(s, p, r))
    BY <1>0, SubmitSteady
  <2>4. Steadily(s, y)
    BY <2>3
  <2> HIDE DEF y
  <2>5. QED
    BY <2>2, <2>4, SteadyStops
<1>3. CASE SendAgain
  <2>1. PICK y : Is([Phone EXCEPT !.s = y]) /\ (y = SendNow(s) \/ \E i : y = ResendFailed(s, i))
    BY <1>0, <1>3 DEF SendAgain
  <2>2. UNCHANGED <<wire, gw>>
    BY <1>3 DEF SendAgain
  <2>3. Steadily(s, SendNow(s)) /\ \A i : Steadily(s, ResendFailed(s, i))
    BY <1>0, SendSteady
  <2>4. QED
    BY <2>1, <2>2, <2>3, SteadyStops
<1>4. CASE Interrupt
  <2> DEFINE y == Call(s, [k |-> "stop", h |-> s.h])
  <2>1. Is([Phone EXCEPT !.s = y]) /\ UNCHANGED <<wire, gw>>
    BY <1>0, <1>4 DEF Interrupt
  <2>2. Calmly(s, y)
    BY <1>0, CalmSteps
  <2> HIDE DEF y
  <2>3. QED
    BY <2>1, <2>2, SteadyStops DEF Calmly, Steadily
<1>5. CASE Approve
  <2> DEFINE y == Respond(s)
  <2>1. Is([Phone EXCEPT !.s = y]) /\ UNCHANGED <<wire, gw>>
    BY <1>0, <1>5 DEF Approve
  <2>2. Calmly(s, y)
    BY <1>0, CalmRespond
  <2> HIDE DEF y
  <2>3. QED
    BY <2>1, <2>2, SteadyStops DEF Calmly, Steadily
<1>6. QED
  BY <1>1, <1>2, <1>3, <1>4, <1>5

LEMMA AgainStops ==
  ASSUME NEW b \in BOOLEAN, ~b, Has(b), StopInv, Again
  PROVE  StopNext
<1>0. PhoneShape(Phone) /\ Phone.s = s /\ Shape(s)
  BY StopHas DEF PhoneShape
<1>1. PICK y : Is([Phone EXCEPT !.s = y]) /\ \E i, p : y = Rewind(Counted, i, p)
  BY DEF Again
<1>2. UNCHANGED <<wire, gw>>
  BY DEF Again
<1>3. Calmly(s, Counted)
  <2>1. Calmly(s, s) /\ Calmly(s, Cross(s, "rewind"))
    BY <1>0, CalmSteps
  <2>2. QED
    BY <2>1 DEF Counted
<1>4. Shape(Counted)
  BY <1>3 DEF Calmly, Stays
<1>5. \A i, p : Steadily(Counted, Rewind(Counted, i, p))
  BY <1>4, SendSteady
<1>6. Steadily(s, y)
  BY <1>1, <1>3, <1>5, StaysTwice
<1>7. QED
  BY <1>1, <1>2, <1>6, SteadyStops

LEMMA NoticeStops ==
  ASSUME NEW b \in BOOLEAN, ~b, Has(b), StopInv, AddNotice
  PROVE  StopNext
<1> DEFINE y == [s EXCEPT !.rows = Append(@, <<"note", None>>)]
           q == [Phone EXCEPT !.s = y]
<1>1. /\ PhoneShape(Phone) /\ Phone.s = s /\ Phone.screen = screen /\ Shape(s) /\ Manned(Phone)
      /\ Clean(s, Now(b)) <=> "boots" \notin s.crossed
      /\ Clean(s, Now(b)) => Tracked /\ RunOK(Phone, wire, gw)
  BY StopHas DEF PhoneShape
<1>2. s' = y /\ screen' = screen /\ UNCHANGED <<wire, gw>>
  BY DEF AddNotice
<1>3. Steadily(s, y) /\ y.crossed = s.crossed
  BY <1>1 DEF Steadily, Stays, Shape
<1> HIDE DEF y
<1>4. q.s = y /\ q.screen = screen /\ PhoneShape(q)
  BY <1>1, <1>3 DEF PhoneShape, Steadily, Stays
<1>5. Manned(q) /\ (Clean(s, Now(b)) => RunOK(q, wire, gw))
  BY <1>1, <1>3, SteadyRun
<1> HIDE DEF q
<1>6. Onward(Phone, q)
  BY <1>1, <1>3, <1>4 DEF Onward
<1>7. QED
  BY <1>1, <1>2, <1>4, <1>5, <1>6, PhoneStops DEF Tracked

\* The gateway tells the phone what it does.
LEMMA GatewayStops ==
  ASSUME NEW b \in BOOLEAN, ~b, Has(b), StopInv, ServeCall \/ Turns
  PROVE  StopNext
<1>1. /\ Phone.s = s /\ Manned(Phone)
      /\ Clean(s, Now(b)) <=> "boots" \notin s.crossed
      /\ Clean(s, Now(b)) => World(b) /\ Tracked /\ RunOK(Phone, wire, gw) /\ (s.h # None => s.here \in Conv)
  BY StopHas
<1>2. UNCHANGED <<s, screen>>
  <2>1. CASE ServeCall
    BY <2>1 DEF ServeCall
  <2>2. CASE Turns
    <3>1. PICK c \in Conv : Work(c) \/ AskUser(c) \/ Withdraw(c) \/ Reply(c) \/ Reap(c)
      BY <2>2 DEF Turns
    <3>2. (Work(c) => UNCHANGED <<s, screen>>) /\ (AskUser(c) => UNCHANGED <<s, screen>>)
      BY DEF Work, AskUser
    <3>3. (Withdraw(c) => UNCHANGED <<s, screen>>) /\ (Reply(c) => UNCHANGED <<s, screen>>)
      BY DEF Withdraw, Reply
    <3>4. Reap(c) => UNCHANGED <<s, screen>>
      BY DEF Reap
    <3>5. QED
      BY <3>1, <3>2, <3>3, <3>4
  <2>3. QED
    BY <2>1, <2>2
<1>3. Phone' = Phone
  BY <1>2 DEF Phone
<1>4. ASSUME Clean(s, Now(b)) PROVE RunOK(Phone', wire', gw') /\ \A c \in Conv : Track(wire', gw'[c], c)
  <2>1. \A c \in Conv : Serves(c)
    BY <1>1, <1>4, GatewayServes
  <2>2. s.h # None => Follows(wire, gw[s.here], wire', gw'[s.here], s.here)
    BY <1>1, <1>4, <2>1 DEF Serves
  <2>3. s.h # None /\ Settled(s, wire, gw) => Settled(s, wire', gw')
    BY <2>2 DEF Settled, Follows
  <2>4. RunOK(Phone, wire', gw')
    BY <1>1, <1>4, <2>3 DEF RunOK
  <2>5. QED
    BY <1>3, <2>1, <2>4 DEF Serves
<1>5. QED
  BY <1>1, <1>2, <1>3, <1>4 DEF StopNext

LEMMA NextStops ==
  ASSUME NEW b \in BOOLEAN, ~b, Has(b), StopInv, [Next]_vars
  PROVE  StopInv'
<1>1. StopNext => StopInv'
  BY DEF StopNext, StopInv, Manned, Tracked, Phone
<1>2. CASE ~Failing /\ User
  <2>1. CASE \E c \in Conv : Open(c)
    BY <1>1, <2>1, OpenStops
  <2>2. CASE Return \/ Leave \/ Again \/ AddNotice
    BY <1>1, <2>2, ReturnStops, LeaveStops, AgainStops, NoticeStops
  <2>3. CASE NewChat \/ (\E p \in Prompt : Type(p)) \/ SendAgain \/ Interrupt \/ Approve
    BY <1>1, <2>3, ChatStops
  <2>4. QED
    BY <1>2, <2>1, <2>2, <2>3 DEF User
<1>3. CASE Receive \/ BootTrailed \/ TimeOut \/ Drop \/ (~Failing /\ Reopen) \/ CallFails
  BY <1>1, <1>3, ReceiveStops, TrailedStops, LostStops, DropStops, ReopenStops
<1>4. CASE ServeCall \/ Turns
  BY <1>1, <1>4, GatewayStops
<1>5. CASE UNCHANGED vars
  BY <1>5 DEF vars, StopInv, Tracked, Phone
<1>6. QED
  BY <1>2, <1>3, <1>4, <1>5 DEF Next

LEMMA InitStops ==
  ASSUME Init
  PROVE  StopInv
<1>1. wire = <<>> /\ s = Loaded /\ screen.booting = {}
  BY DEF Init
<1>2. Manned(Phone) /\ RunOK(Phone, wire, gw)
  BY <1>1 DEF Manned, RunOK, Phone, Loaded
<1>3. ASSUME NEW c \in Conv PROVE Track(wire, gw[c], c)
  <2>1. ~gw[c].up /\ ~gw[c].on /\ gw[c].turn = None /\ gw[c].ring = <<>>
    BY DEF Init
  <2>2. QED
    BY <1>1, <2>1 DEF Track, GateOK, RingOK, WireTrue
<1>4. QED
  BY <1>2, <1>3 DEF StopInv, Tracked

\* Once everything has been told and nothing is waited for, the stop button is on
\* screen exactly when a turn runs: whatever was dropped, reaped, left and come back
\* to, and in whatever order a submit, a resume, a history, a replay and events came
\* (applyLiveState, applyEvent, applyReplay and submitPrompt of session.ts).
THEOREM StopButtonIsTrue == Spec => []RunningIsTrue
<1>1. Init => StopInv
  BY InitStops
<1>2. ChatInv /\ StopInv /\ [Next]_vars => StopInv'
  <2>1. PICK b \in BOOLEAN : ~b
    OBVIOUS
  <2>2. ChatInv => Has(b)
    BY <2>1 DEF ChatInv
  <2>3. QED
    BY <2>1, <2>2, NextStops
<1>3. StopInv => RunningIsTrue
  <2>1. SUFFICES ASSUME StopInv, Quiet, Spared(Races) PROVE s.running <=> gw[s.here].turn # None
    BY DEF RunningIsTrue, Races
  <2>2. Phone.s = s /\ Phone.screen = screen
    BY DEF Phone
  <2>3. ~Raced(s) /\ "boots" \notin s.crossed
    BY <2>1 DEF Spared, Raced, Races
  <2>4. ~Awaits(Phone) /\ ~Sent(s) /\ s.up /\ screen.shown /\ s.h # None
    BY <2>1, <2>2 DEF Quiet, Awaits, Sent
  <2>5. Settled(s, wire, gw)
    BY <2>1, <2>2, <2>3, <2>4 DEF StopInv, RunOK
  <2>6. Newest(wire, 0, s.here)
    BY <2>1 DEF Quiet, Newest
  <2>7. QED
    BY <2>4, <2>5, <2>6 DEF Settled
<1>4. QED
  BY <1>1, <1>2, <1>3, ChatInvariant, PTL DEF Spec
=============================================================================
