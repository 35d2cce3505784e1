----------------------------- MODULE ChatScreen -----------------------------
(***************************************************************************)
(* The chat screen (web/src/screens/ChatScreen.tsx) over the store of      *)
(* SessionStore: it opens conversations, starts new ones, and reattaches   *)
(* the one it holds whenever the socket comes back or the screen itself    *)
(* does.  At the other end is the gateway, modelled from what the code     *)
(* asks of it and expects: one turn at a time in a conversation, a history *)
(* that gains a turn when it ends, events to the socket that resumed the   *)
(* conversation and to no other, runtimes reaped when nobody comes back.   *)
(*                                                                         *)
(* Answers and events come over one socket in order, but calls are         *)
(* answered in any order, or too late.  A socket that drops takes every    *)
(* frame with it, and a call that was under way may have arrived or not.   *)
(* Each screen visit (mount) has its own guard against booting twice, which *)
(* stays up through the REST reads at the end of a boot.                   *)
(***************************************************************************)
EXTENDS SessionStore

CONSTANTS
  Stored,     \* the conversations there are before anything happens
  Budgets,    \* how often each trouble and whim may happen: one budget is drawn
  MaxWire     \* frames on their way to the phone

Whims == {"open", "new", "type", "note", "rewind", "stop", "leave",
          "drop", "timeout", "reap", "ask", "work"}

ASSUME ChatAssumption ==
  /\ Stored \subseteq Conv /\ None \notin Conv \cup Prompt \cup (Conv \X Nat)
  /\ None \notin [p : Prompt, worked : BOOLEAN, ask : {"no", "open", "over"}]
  /\ Budgets \subseteq [Whims -> Nat] /\ MaxWire \in Nat \ {0}

VARIABLES
  s,        \* the store, and the calls it waits for
  screen,   \* the chat screen: shown, its visits, their boots, the URL
  inbox,    \* calls that have reached the gateway
  wire,     \* frames from the gateway
  gw,       \* the gateway's conversations
  typed,    \* where each prompt was typed
  left      \* what is left of the budget

vars == <<s, screen, inbox, wire, gw, typed, left>>

Spend(w) == left[w] > 0 /\ left' = [left EXCEPT ![w] = @ - 1]

-----------------------------------------------------------------------------
(* Opening a conversation.  A phone is [s, screen]. *)

Phone == [s |-> s, screen |-> screen]

\* What a step of the phone leaves, and sends.
Is(p) ==
  /\ s' = [p.s EXCEPT !.asked = {call \in @ : call.k # "response"}]
  /\ screen' = p.screen
  /\ inbox' = inbox \cup (p.s.asked \ s.asked)

\* bootingRef.current: a boot waits for the gateway, or trails after it.
BootingRef(p, m) == m \in p.screen.booting \/ \E b \in p.screen.trailing : b.m = m

Booted(p, m) == [p EXCEPT !.screen.booting = @ \ {m}]
Booting(p, m) ==
  LET crossed == IF p.screen.booting = {} THEN p.s ELSE Cross(p.s, "boots")
  IN  [p EXCEPT !.s = Reset(crossed), !.screen.booting = @ \cup {m}, !.screen.watching = FALSE]

\* startNew(); with the socket down the call fails at once.
StartNew(p, m) ==
  IF BootingRef(p, m) THEN p
  ELSE LET begun == Booting(p, m)
       IN  IF p.s.up THEN [begun EXCEPT !.s = Call(@, [k |-> "create", m |-> m])]
           ELSE Booted(begun, m)

\* doResume(), for the URL or as the reconnect's fallback
DoResume(p, c, m, url) ==
  IF BootingRef(p, m) THEN p
  ELSE LET call == [k |-> "resume", c |-> c, by |-> "boot", m |-> m, url |-> url]
       IN  [Booting(p, m) EXCEPT !.s = Call(@, call)]

\* Its catch, which sees the connection the screen had when it began.
ResumeFailed(p, call) == StartNew(Booted(p, call.m), call.m)

ResumeAnswered(p, call, res) ==
  LET open == ApplyLiveState(AdoptSession(p.s, res.h), res)
  IN  [p EXCEPT !.s = Call(open, [k |-> "history", h |-> res.h, by |-> "boot", m |-> call.m, url |-> call.url]),
                !.screen.watching = FALSE]

\* The boot effect, on a connection, a visit or a URL that is new
BootEffect(p) ==
  LET m == p.screen.visit
      c == p.screen.intent
  IN  IF ~p.s.up \/ ~p.screen.shown THEN p
      ELSE IF c = None THEN IF p.s.h = None THEN StartNew(p, m) ELSE p
      ELSE IF c = p.s.here THEN [p EXCEPT !.screen.intent = None]
      ELSE DoResume(p, c, m, TRUE)

\* setParams({})
ClearIntent(p) == IF p.screen.intent = None THEN p
                  ELSE BootEffect([p EXCEPT !.screen.intent = None])

\* What is left of the boot is read from the REST API: the answers of clarify
\* cards, the title.
Trails(p, call) == [Booted(p, call.m) EXCEPT !.screen.trailing = @ \cup {[m |-> call.m, url |-> call.url]}]

HistoryAnswered(p, call, rows) ==
  LET fresh == IF p.s.rows = <<>> /\ p.s.queued = None THEN p.s ELSE Cross(p.s, "over")
  IN  Trails([p EXCEPT !.s = LoadHistory(fresh, rows, FALSE)], call)

\* The conversation is open without a transcript.
HistoryFailed(p, call) == Trails([p EXCEPT !.s = Cross(@, "bare")], call)

\* doResume()'s finally, and what was to be done about the URL then
Trailed(p, b) ==
  LET done == [p EXCEPT !.screen.trailing = @ \ {b}]
  IN  IF b.url THEN ClearIntent(done) ELSE done

CreateAnswered(p, call, h) ==
  Booted([p EXCEPT !.s = AdoptSession(@, h), !.screen.watching = FALSE], call.m)

-----------------------------------------------------------------------------
(* The reconnect effect.  Its run is over when the connection, the handle  *)
(* or the visit is another: `watching'.                                    *)

ReconnectEffect(p, before) ==
  LET m == before.screen.visit
      call == [k |-> "resume", c |-> before.s.here, by |-> "sync", m |-> m]
  IN  IF ~p.s.up \/ ~p.screen.shown \/ before.s.h = None \/ m \in p.screen.booting THEN p
      ELSE IF before.screen.intent # None \/ BootingRef(p, m) THEN [p EXCEPT !.s = Cross(@, "back")]
      ELSE [p EXCEPT !.s = Call(@, call), !.screen.watching = TRUE]

\* Both effects of a render, in their order
Effects(p) == ReconnectEffect(BootEffect(p), p)

Alive(p, call) == p.screen.watching /\ call.m = p.screen.visit

SyncResumed(p, call, res) ==
  LET rebuilt == res.h # p.s.h
      stale == IF p.s.sheet # None /\ p.s.sheet.p # res.ask THEN Cross(p.s, "stale") ELSE p.s
      adopted == IF rebuilt THEN Cross(AdoptSession(stale, res.h), "rebuilt") ELSE stale
      next == [k |-> "history", h |-> res.h, by |-> "sync", m |-> call.m, p |-> res.p]
  IN  IF ~Alive(p, call) THEN p
      ELSE [p EXCEPT !.s = Call(ApplyLiveState(adopted, res), next), !.screen.watching = ~rebuilt]

\* What the resume said of the turn may be over by now, or have begun since.
SyncHistory(p, call, rows) ==
  LET running == call.p # None
      raced == (IF Len(rows) < Len(p.s.rows) THEN {"longer"} ELSE {})
               \cup (IF running /\ Contains(p.s.rows \o rows, <<"reply", call.p>>) THEN {"ended", "outrun"} ELSE {})
               \cup (IF ~running /\ p.s.running THEN {"outrun"} ELSE {})
      synced == ApplyResync([p.s EXCEPT !.crossed = @ \cup raced], rows, running)
      next == [k |-> "since", h |-> call.h, m |-> call.m]
  IN  IF ~Alive(p, call) THEN p
      ELSE [p EXCEPT !.s = IF running THEN Call(BeginReplayWindow(synced), next) ELSE synced]

\* The turn may have ended before the events it had until then are here, and
\* the window a visit closes may be that of the next one.
SyncReplayed(p, call, events) ==
  LET replayed == ApplyReplay(p.s, IF Alive(p, call) THEN events ELSE <<>>)
      raced == (IF replayed.running /\ ~p.s.running THEN {"revived"} ELSE {})
               \cup (IF \E other \in p.s.asked : other.k = "since" THEN {"shut"} ELSE {})
  IN  [p EXCEPT !.s = [replayed EXCEPT !.crossed = @ \cup raced]]

\* The whole conversation is opened again.
SyncFailed(p, call) ==
  IF Alive(p, call) THEN DoResume(p, p.s.here, call.m, FALSE) ELSE p

-----------------------------------------------------------------------------
(* Frames *)

Answered(p, f) ==
  LET call == f.call IN
  CASE call.k = "resume" ->
         LET told == [p EXCEPT !.s = DeliverOpenRequests(@, f.res)]
         IN  IF call.by = "boot" THEN ResumeAnswered(told, call, f.res) ELSE SyncResumed(told, call, f.res)
    [] call.k = "history" ->
         IF call.by = "boot" THEN HistoryAnswered(p, call, f.res) ELSE SyncHistory(p, call, f.res)
    [] call.k = "since"   -> SyncReplayed([p EXCEPT !.s = DeliverOpenRequests(@, f.res)], call, f.res.events)
    [] call.k = "create"  -> CreateAnswered(p, call, f.res)
    [] call.k = "submit"  -> [p EXCEPT !.s = Rewound(@, call)]
    [] call.k = "undo"    -> [p EXCEPT !.s = Undone(@, call)]
    [] call.k = "respond" -> [p EXCEPT !.s = Responded(@, call, f.res)]
    [] OTHER              -> p

Failed(p, call) ==
  CASE call.k = "resume"  -> IF call.by = "boot" THEN ResumeFailed(p, call) ELSE SyncFailed(p, call)
    [] call.k = "history" -> IF call.by = "boot" THEN HistoryFailed(p, call) ELSE SyncFailed(p, call)
    [] call.k = "since"   -> SyncReplayed(p, call, <<>>)
    [] call.k = "create"  -> Booted(p, call.m)
    [] call.k = "submit"  -> [p EXCEPT !.s = SubmitFailed(@, call)]
    [] call.k = "undo"    -> [p EXCEPT !.s = UndoFailed(@)]
    [] call.k = "respond" -> [p EXCEPT !.s = RespondFailed(@, call)]
    [] OTHER              -> p

\* The next frame.  Events are for the chat screen, requests and their
\* withdrawal for the app around it; nobody waits for an answer any more if
\* its time was up.
Received(p, f) ==
  CASE f.t = "answer" ->
         LET known == [p EXCEPT !.s.asked = @ \ {f.call}]
         IN  IF f.call \notin p.s.asked THEN p
             ELSE IF f.ok THEN Answered(known, f) ELSE Failed(known, f.call)
    [] f.t = "ask"    -> [p EXCEPT !.s = ApplyServerRequest(@, f.h, f.p)]
    [] f.t = "cancel" -> [p EXCEPT !.s = CancelServerRequest(@, f.h, f.p)]
    [] OTHER          -> IF p.screen.shown THEN [p EXCEPT !.s = ApplyEvent(@, f)] ELSE p

Receive ==
  /\ wire # <<>>
  /\ wire' = Tail(wire)
  /\ Is(Received(Phone, Head(wire)))
  /\ UNCHANGED <<gw, typed, left>>

Orphan(call) == [k |-> "orphan", of |-> call]
Felt(calls) == {call \in calls : call.k \in {"submit", "respond", "undo"}}

\* A call's time is up.  The gateway may get to it all the same.
TimeOut ==
  /\ Spend("timeout")
  /\ \E call \in s.asked \cap inbox :
       LET p == Failed([Phone EXCEPT !.s.asked = @ \ {call}], call)
       IN  /\ s' = p.s /\ screen' = p.screen
           /\ \E late \in SUBSET Felt({call}) :
                inbox' = (inbox \ {call}) \cup (p.s.asked \ s.asked) \cup {Orphan(c) : c \in late}
  /\ UNCHANGED <<wire, gw, typed>>

\* The socket goes.  Of what was sent some has arrived.
Drop ==
  /\ s.up /\ Spend("drop")
  /\ s' = [s EXCEPT !.up = FALSE, !.held = {}]
  /\ screen' = [screen EXCEPT !.watching = FALSE]
  /\ \E arrived \in SUBSET Felt(inbox) :
       inbox' = {call \in inbox : call.k = "orphan"} \cup {Orphan(call) : call \in arrived}
  /\ wire' = <<>>
  /\ gw' = [c \in Conv |-> [gw[c] EXCEPT !.on = FALSE]]
  /\ UNCHANGED typed

\* Every call fails before anything else happens here.
Failing == ~s.up /\ s.asked # {}

\* Those that open a conversation fail last.
CallFails ==
  /\ Failing
  /\ LET opens == {call \in s.asked : call.k \in {"resume", "history", "create"}}
     IN  \E call \in s.asked :
           /\ call \in opens => s.asked \subseteq opens
           /\ LET p == Failed([Phone EXCEPT !.s.asked = @ \ {call}], call)
              IN  s' = p.s /\ screen' = p.screen
  /\ UNCHANGED <<inbox, wire, gw, typed, left>>

Reopen ==
  /\ ~s.up
  /\ Is(Effects([Phone EXCEPT !.s.up = TRUE]))
  /\ UNCHANGED <<wire, gw, typed, left>>

\* The REST reads of a boot are over, whatever became of the socket.
BootTrailed ==
  /\ \E b \in screen.trailing : Is(Trailed(Phone, b))
  /\ UNCHANGED <<wire, gw, typed, left>>

-----------------------------------------------------------------------------
(* The user *)

\* A tap on a conversation, wherever it is
Open(c) ==
  /\ gw[c].born /\ Spend("open")
  /\ IF screen.shown
     THEN screen.intent # c /\ Is(BootEffect([Phone EXCEPT !.screen.intent = c]))
     ELSE Is(Effects([Phone EXCEPT !.screen.intent = c, !.screen.shown = TRUE, !.screen.visit = @ + 1]))
  /\ UNCHANGED <<wire, gw, typed>>

\* The chat tab
Return ==
  /\ ~screen.shown
  /\ Is(Effects([Phone EXCEPT !.screen.shown = TRUE, !.screen.visit = @ + 1]))
  /\ UNCHANGED <<wire, gw, typed, left>>

Leave ==
  /\ screen.shown /\ Spend("leave")
  /\ screen' = [screen EXCEPT !.shown = FALSE, !.intent = None, !.watching = FALSE]
  /\ UNCHANGED <<s, inbox, wire, gw, typed>>

\* The button in the header
NewChat ==
  /\ screen.shown /\ Spend("new")
  /\ Is(StartNew(Phone, screen.visit))
  /\ UNCHANGED <<wire, gw, typed>>

\* A new message: the composer takes none it can neither send nor queue.
Type(p) ==
  /\ screen.shown /\ s.h # None /\ typed[p] = None /\ (s.up \/ s.running) /\ Spend("type")
  /\ typed' = [typed EXCEPT ![p] = s.here]
  /\ Is([Phone EXCEPT !.s = SubmitPrompt(@, p, FALSE)])
  /\ UNCHANGED <<wire, gw>>

\* A message that was held is sent by hand, or one that failed again.
SendAgain ==
  /\ screen.shown /\ ~s.running
  /\ \/ s.queued # None /\ Is([Phone EXCEPT !.s = SendNow(@)])
     \/ \E i \in DOMAIN s.rows : s.rows[i][1] = "failed" /\ Is([Phone EXCEPT !.s = ResendFailed(@, i)])
  /\ UNCHANGED <<wire, gw, typed, left>>

TurnsIn(hist) == Cardinality({i \in DOMAIN hist : hist[i][1] = "said"})

\* What was said and answered, in its order
Exchanged(row) == row[1] \in {"said", "reply"}
Exchange(rows) ==
  SelectSeq([i \in DOMAIN rows |-> IF rows[i][1] \in UserKinds THEN <<"said", rows[i][2]>> ELSE rows[i]],
            Exchanged)

\* The turns to undo are counted on the screen, and cut from what is there.
Counted == IF Exchange(s.rows) = Exchange(gw[s.here].hist) THEN s ELSE Cross(s, "rewind")

\* retryLast(), offered under the last reply, and editTurn()
Again ==
  /\ screen.shown /\ s.h # None /\ ~s.running /\ ~s.rewinding /\ Spend("rewind")
  /\ \E i \in DOMAIN s.rows :
       /\ s.rows[i][1] \in UserKinds
       /\ \/ /\ \A j \in (i + 1)..Len(s.rows) : s.rows[j][1] \notin UserKinds
             /\ \E j \in (i + 1)..Len(s.rows) : s.rows[j][1] = "reply"
             /\ Is([Phone EXCEPT !.s = Rewind(Counted, i, s.rows[i][2])])
             /\ UNCHANGED typed
          \/ \E p \in Prompt :
               /\ typed[p] = None
               /\ typed' = [typed EXCEPT ![p] = s.here]
               /\ Is([Phone EXCEPT !.s = Rewind(Counted, i, p)])
  /\ UNCHANGED <<wire, gw>>

\* The stop button
Interrupt ==
  /\ screen.shown /\ s.h # None /\ s.running /\ s.up /\ Spend("stop")
  /\ Is([Phone EXCEPT !.s = Call(@, [k |-> "stop", h |-> s.h])])
  /\ UNCHANGED <<wire, gw, typed>>

\* An answer to what blocks the turn, from the sheet over whatever screen
Approve ==
  /\ s.h # None /\ s.sheet # None
  /\ Is([Phone EXCEPT !.s = Respond(@)])
  /\ UNCHANGED <<wire, gw, typed, left>>

\* Slash commands and side questions leave rows only this phone has.
AddNotice ==
  /\ screen.shown /\ s.h # None /\ Spend("note")
  /\ s' = [s EXCEPT !.rows = Append(@, <<"note", None>>)]
  /\ UNCHANGED <<screen, inbox, wire, gw, typed>>

-----------------------------------------------------------------------------
(* The gateway *)

Handle(c) == <<c, gw[c].run>>
Live(h) == gw[h[1]].up /\ h = Handle(h[1])

\* To the socket that resumed the conversation, and to nobody if it is gone.
Told(g, frames) == IF g.on THEN wire \o frames ELSE wire

Event(c, t, p, stopped) == [t |-> t, h |-> Handle(c), p |-> p, stopped |-> stopped]

RowsOf(turn) ==
  <<<<"said", turn.p>>>> \o (IF turn.worked THEN <<<<"tool", turn.p>>>> ELSE <<>>) \o <<<<"reply", turn.p>>>>

Begin(c, p) ==
  [gw[c] EXCEPT !.turn = [p |-> p, worked |-> FALSE, ask |-> "no"], !.ring = <<>>]
End(c) ==
  [gw[c] EXCEPT !.turn = None, !.hist = @ \o RowsOf(gw[c].turn)]

Work(c) ==
  /\ gw[c].turn # None /\ ~gw[c].turn.worked /\ gw[c].turn.ask # "open" /\ Spend("work")
  /\ LET f == Event(c, "work", gw[c].turn.p, FALSE)
     IN  /\ gw' = [gw EXCEPT ![c].turn.worked = TRUE, ![c].ring = Append(@, f)]
         /\ wire' = Told(gw[c], <<f>>)
  /\ UNCHANGED <<s, screen, inbox, typed>>

\* The turn is parked on an approval.
AskUser(c) ==
  /\ gw[c].turn # None /\ gw[c].turn.ask = "no" /\ Spend("ask")
  /\ gw' = [gw EXCEPT ![c].turn.ask = "open"]
  /\ wire' = Told(gw[c], <<Event(c, "ask", gw[c].turn.p, FALSE)>>)
  /\ UNCHANGED <<s, screen, inbox, typed>>

\* It was answered elsewhere, or waited for long enough.
Withdraw(c) ==
  /\ gw[c].turn # None /\ gw[c].turn.ask = "open"
  /\ gw' = [gw EXCEPT ![c].turn.ask = "over"]
  /\ wire' = Told(gw[c], <<Event(c, "cancel", gw[c].turn.p, FALSE)>>)
  /\ UNCHANGED <<s, screen, inbox, typed, left>>

Finish(c, stopped) ==
  LET f == Event(c, "complete", gw[c].turn.p, stopped)
  IN  gw' = [gw EXCEPT ![c] = [End(c) EXCEPT !.ring = Append(@, f)]]

Reply(c) ==
  /\ gw[c].turn # None /\ gw[c].turn.ask # "open"
  /\ Finish(c, FALSE)
  /\ wire' = Told(gw[c], <<Event(c, "complete", gw[c].turn.p, FALSE)>>)
  /\ UNCHANGED <<s, screen, inbox, typed, left>>

\* Nobody came back: the turn is interrupted and the runtime given up.
Reap(c) ==
  /\ gw[c].up /\ ~gw[c].on /\ Spend("reap")
  /\ gw' = [gw EXCEPT ![c] = [(IF gw[c].turn = None THEN gw[c] ELSE End(c)) EXCEPT !.up = FALSE, !.ring = <<>>]]
  /\ UNCHANGED <<s, screen, inbox, wire, typed>>

\* The call is handled and, if somebody waits for it, answered.
Serve(call, ok, res, frames) ==
  /\ inbox' = inbox \ {call}
  /\ wire' = LET answer == [t |-> "answer", call |-> call, ok |-> ok, res |-> res]
             IN  (IF call.k = "orphan" THEN wire ELSE Append(wire, answer)) \o frames

Of(call) == IF call.k = "orphan" THEN call.of ELSE call

Submitted(call) ==
  LET c == Of(call).h[1]
      starts == Live(Of(call).h) /\ gw[c].turn = None
      p == Of(call).p
  IN  /\ Of(call).k = "submit"
      /\ gw' = IF starts THEN [gw EXCEPT ![c] = Begin(c, p)] ELSE gw
      /\ Serve(call, starts, None, IF starts /\ gw[c].on THEN <<Event(c, "start", p, FALSE)>> ELSE <<>>)

Parked(g) == IF g.turn # None /\ g.turn.ask = "open" THEN g.turn.p ELSE None

\* A runtime is rebuilt if there is none; the events are this socket's from now on.
Resumed(call) ==
  LET c == call.c
      g == IF gw[c].up THEN gw[c] ELSE [gw[c] EXCEPT !.up = TRUE, !.run = @ + 1]
  IN  /\ call.k = "resume"
      /\ gw' = [gw EXCEPT ![c] = [g EXCEPT !.on = TRUE]]
      /\ Serve(call, TRUE, [h |-> <<c, g.run>>, p |-> IF g.turn = None THEN None ELSE g.turn.p,
                            ask |-> Parked(g)], <<>>)

Created(call) ==
  /\ call.k = "create"
  /\ \/ Serve(call, FALSE, None, <<>>) /\ (\A c \in Conv : gw[c].born) /\ UNCHANGED gw
     \/ \E c \in Conv :
       /\ ~gw[c].born
       /\ gw' = [gw EXCEPT ![c].born = TRUE, ![c].up = TRUE, ![c].run = 1, ![c].on = TRUE]
       /\ Serve(call, TRUE, <<c, 1>>, <<>>)

Read(call) ==
  LET g == gw[call.h[1]] IN
  /\ call.k \in {"history", "since"}
  /\ Serve(call, Live(call.h),
           IF call.k = "history" THEN g.hist
           ELSE [h |-> call.h, events |-> g.ring, ask |-> Parked(g)], <<>>)
  /\ UNCHANGED gw

Unparked(call) ==
  LET h == Of(call).h
      open == Live(h) /\ gw[h[1]].turn # None /\ gw[h[1]].turn.p = Of(call).sheet.p /\ gw[h[1]].turn.ask = "open"
  IN  /\ Of(call).k \in {"respond", "response"}
      /\ gw' = IF open THEN [gw EXCEPT ![h[1]].turn.ask = "over"] ELSE gw
      /\ IF Of(call).k = "response" THEN inbox' = inbox \ {call} /\ UNCHANGED wire
         ELSE Serve(call, TRUE, ~open, <<>>)

\* The rows before the last turns.
Without(hist, turns) ==
  {kept \in {SubSeq(hist, 1, n) : n \in 0..Len(hist)} :
     /\ TurnsIn(kept) = TurnsIn(hist) - turns
     /\ kept # hist => hist[Len(kept) + 1][1] = "said"}

Unwound(call) ==
  LET h == Of(call).h
      fits == Live(h) /\ gw[h[1]].turn = None /\ TurnsIn(gw[h[1]].hist) >= Of(call).turns
  IN  /\ Of(call).k = "undo"
      /\ \/ fits /\ \E kept \in Without(gw[h[1]].hist, Of(call).turns) : gw' = [gw EXCEPT ![h[1]].hist = kept]
         \/ ~fits /\ UNCHANGED gw
      /\ Serve(call, fits, None, <<>>)

Stopped(call) ==
  LET c == call.h[1]
      running == Live(call.h) /\ gw[c].turn # None
  IN  /\ call.k = "stop"
      /\ IF running THEN Finish(c, TRUE) ELSE UNCHANGED gw
      /\ Serve(call, running, None,
               IF running /\ gw[c].on THEN <<Event(c, "complete", gw[c].turn.p, TRUE)>> ELSE <<>>)

ServeCall ==
  /\ Len(wire) < MaxWire
  /\ \E call \in inbox : \/ Submitted(call) \/ Resumed(call) \/ Created(call) \/ Read(call)
                         \/ Unparked(call) \/ Unwound(call) \/ Stopped(call)
  /\ UNCHANGED <<s, screen, typed, left>>

Turns == Len(wire) < MaxWire /\ \E c \in Conv : Work(c) \/ AskUser(c) \/ Withdraw(c) \/ Reply(c) \/ Reap(c)

-----------------------------------------------------------------------------
Init ==
  /\ s = Loaded
  /\ \E c \in Stored \cup {None} :
       screen = [shown |-> TRUE, visit |-> 1, booting |-> {}, trailing |-> {}, watching |-> FALSE, intent |-> c]
  /\ inbox = {} /\ wire = <<>>
  /\ gw = [c \in Conv |-> [born |-> c \in Stored, up |-> FALSE, run |-> 0, on |-> FALSE,
                           turn |-> None, hist |-> <<>>, ring |-> <<>>]]
  /\ typed = [p \in Prompt |-> None]
  /\ left \in Budgets

User == \/ \E c \in Conv : Open(c)
        \/ Return \/ Leave \/ NewChat \/ (\E p \in Prompt : Type(p)) \/ SendAgain \/ Again
        \/ Interrupt \/ Approve \/ AddNotice

Next == \/ ~Failing /\ (User \/ Receive \/ BootTrailed \/ TimeOut \/ Drop \/ Reopen \/ ServeCall \/ Turns)
        \/ CallFails

Spec == Init /\ [][Next]_vars

-----------------------------------------------------------------------------
(* What is true.  The races the code leaves open, each recorded in          *)
(* s.crossed by the step that loses it:                                    *)
(*   boots    a conversation opened while an earlier visit still opens one *)
(*   back     nobody reattached: the screen came back by a link to what    *)
(*            the store holds, or the socket while a boot still trailed      *)
(*   bare     opened, but its history could not be read                    *)
(*   over     the history came in over what had been typed meanwhile       *)
(*   submit   a prompt failed, which says nothing of the turn on screen    *)
(*   rewind   turns undone under a transcript that was not the gateway's   *)
(*   sheet    an answer failed when its turn was no longer on screen, or   *)
(*            while another answer was under way                           *)
(*   stale    a reattach found a sheet whose request was over              *)
(*   rebuilt  a reattach to a runtime rebuilt from disk                    *)
(*   longer   a reattach found less history than there was on screen       *)
(*   outrun   the turn ended, or began, while a reattach read the history  *)
(*   ended    it ended, or was undone, and the events that follow are a    *)
(*            turn that is over                                            *)
(*   shut     a replay's window closed by the visit before                 *)
(*   revived  a replay of a turn that had ended meanwhile                  *)

Spared(races) == s.crossed \cap races = {}

\* The screen never shows, holds or asks about what belongs to another
\* conversation: not the rows of its turns, not a message queued in it, not an
\* approval.  One socket carries every conversation, and answers, events and
\* requests arrive when the phone may have moved on (applyEvent's filter by
\* handle, applyServerRequest's, and reset() at every switch).
NothingForeign ==
  /\ Spared({"boots", "rewind"}) =>
       /\ \A i \in DOMAIN s.rows : s.rows[i][2] # None => typed[s.rows[i][2]] = s.here
       /\ s.queued # None => typed[s.queued] = s.here
  /\ Spared({"boots", "rewind", "sheet"}) /\ s.sheet # None => typed[s.sheet.p] = s.here

\* A prompt is run in the conversation it was typed in, whatever was opened
\* between the typing and the sending: queued behind a turn, sent again after
\* a failure, or replayed by a rewind.
PromptsGoHome ==
  Spared({"boots", "rewind"}) =>
    \A c \in Conv : /\ \A i \in DOMAIN gw[c].hist : typed[gw[c].hist[i][2]] = c
                    /\ gw[c].turn # None => typed[gw[c].turn.p] = c

\* The phone has been told everything, and waits for nothing.
Quiet == /\ s.up /\ screen.shown /\ s.h # None /\ s.asked = {} /\ screen.booting = {} /\ screen.trailing = {}
         /\ inbox = {} /\ wire = <<>>

\* Once things are quiet, the stop button is there exactly when a turn runs,
\* and the composer sends exactly when none does: after any drop, reap, visit
\* or switch, in whatever order submit, resume, history and events came.
RunningIsTrue ==
  Quiet /\ Spared({"boots", "back", "submit", "outrun", "revived"}) =>
    (s.running <=> gw[s.here].turn # None)

\* Once things are quiet, a turn that waits for an approval has its sheet up,
\* however the phone came by it (a request, the answer of a resume, the open
\* requests that came with it, a failed answer put back), and a conversation
\* without a turn has none.
SheetIsTrue ==
  Quiet =>
    LET turn == gw[s.here].turn
    IN  /\ turn # None /\ turn.ask = "open" /\ Spared({"boots", "back", "sheet"}) =>
             s.sheet # None /\ s.sheet.p = turn.p
        /\ turn = None /\ Spared({"boots", "back", "sheet", "stale", "submit", "revived"}) => s.sheet = None

Shown == \A i \in DOMAIN gw[s.here].hist :
           gw[s.here].hist[i][1] = "reply" => Contains(s.rows, gw[s.here].hist[i])

\* Once things are quiet, no reply of the conversation is missing from the
\* screen, although those that came while the socket was down, the screen
\* away or another conversation open were never delivered (applyResync).
TranscriptIsWhole ==
  Quiet /\ Spared({"boots", "back", "rewind", "bare", "over", "longer", "rebuilt"}) => Shown

\* What history, live events and the replay of the gateway's ring bring is put
\* together without showing a turn's reply more often than the turn was run
\* (beginReplayWindow and applyReplay's floor).
RepliesOnce ==
  Spared({"boots", "rewind", "ended", "shut"}) /\ (\A call \in s.asked : call.k # "undo") =>
    \A p \in Prompt :
      LET shown == {i \in DOMAIN s.rows : s.rows[i] = <<"reply", p>>}
          ran == {i \in DOMAIN gw[s.here].hist : gw[s.here].hist[i] = <<"reply", p>>}
      IN  Cardinality(shown) > 1 => Cardinality(shown) <= Cardinality(ran)

=============================================================================
