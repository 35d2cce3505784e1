----------------------------- MODULE KanbanSweep -----------------------------
(***************************************************************************)
(* The kanban sweep of the proxy, server/src/push/kanban.ts: every board   *)
(* is read, each card is compared with the watermark its last sight left   *)
(* in the feed, and a transition worth a person's attention is announced.  *)
(* Boards are read one by one and may fail one by one; a pass that cannot  *)
(* list them reads whichever board the server points at, under a watermark *)
(* prefix of its own.                                                      *)
(*                                                                         *)
(* The cards of one board answer are handled between two awaits: nothing   *)
(* but a kill comes between them (Yielded), and a card that moves          *)
(* meanwhile moves before the answer is read or after they are done.       *)
(***************************************************************************)
EXTENDS FeedStore

CONSTANTS
  Boards,
  Current,      \* the null slug: the board the server points at
  Cards,
  BoardOf,      \* the board each card is on
  Statuses,
  Reported,     \* the statuses worth interrupting someone for
  MaxRepeats,   \* bound on block_recurrences
  MaxMoves,     \* bound on what happens to one card
  MaxFallbacks, \* bound on failed lists of boards
  MaxRestarts   \* bound on kills and orderly stops

CardState == [status : Statuses, repeats : 0..MaxRepeats]

ASSUME KanbanAssumption ==
  /\ BoardOf \in [Cards -> Boards]
  /\ Current \notin Boards
  /\ {"blocked", "triage"} \subseteq Reported /\ Reported \subseteq Statuses
  /\ Keys = (Boards \cup {Current}) \X Cards
  /\ Values = CardState
  /\ {MaxRepeats, MaxMoves, MaxFallbacks, MaxRestarts} \subseteq Nat

VARIABLES
  \* the gateway
  card,      \* the state of each card, NoMark when there is no such card
  current,   \* the board the server points at
  \* the proxy
  feed,
  sweep,     \* the interval is installed
  timer,     \* the settle timer is armed
  dirty,
  pass,      \* the locals of reconcileKanban()
  stopping,  \* SIGTERM was handled and the process has not exited yet
  \* what happened
  moves,     \* how often each card was created, moved or removed
  told,      \* how often the state each move led to was announced
  fallbacks, restarts

gateway == <<card, current, moves>>
scheduler == <<sweep, timer, dirty>>
ghosts == <<told, fallbacks>>
process == <<stopping, restarts>>
vars == <<gateway, feed, scheduler, pass, ghosts, process>>

Idle == [at |-> "idle", todo |-> {}, slug |-> Current, cards |-> {}, swept |-> {}, seen |-> {}]

Init ==
  /\ card \in [Cards -> [status : Statuses, repeats : {0}] \cup {NoMark}]
  /\ current \in Boards
  /\ moves = [c \in Cards |-> 0]
  /\ feed = Loaded(EmptyFile)
  /\ sweep = FALSE /\ timer = FALSE /\ dirty = FALSE
  /\ pass = Idle
  /\ stopping = FALSE
  /\ told = [c \in Cards |-> [m \in 0..MaxMoves |-> 0]]
  /\ fallbacks = 0 /\ restarts = 0

Running == pass.at # "idle"

Yielded == pass.at # "cards"

-----------------------------------------------------------------------------
(* The boards. *)

CardBecomes(c, state) ==
  /\ Yielded
  /\ moves[c] < MaxMoves
  /\ moves' = [moves EXCEPT ![c] = @ + 1]
  /\ card' = [card EXCEPT ![c] = state]
  /\ UNCHANGED <<current, feed, scheduler, pass, told, fallbacks, process>>

\* An id is not used twice, so only a card that never was is created.
CardCreated(c) ==
  /\ card[c] = NoMark /\ moves[c] = 0
  /\ \E status \in Statuses \ {"blocked"} : CardBecomes(c, [status |-> status, repeats |-> 0])

\* Blocking for the same reason again counts a recurrence.
CardMoves(c) ==
  /\ card[c] # NoMark
  /\ \E state \in CardState \ {card[c]} :
       /\ \/ state.repeats = card[c].repeats
          \/ state.repeats = card[c].repeats + 1 /\ state.status \in {"blocked", "triage"}
       /\ CardBecomes(c, state)

CardRemoved(c) ==
  /\ card[c] # NoMark
  /\ CardBecomes(c, NoMark)

\* Any client can move the server's pointer.
BoardSwitched ==
  /\ Yielded
  /\ current' \in Boards \ {current}
  /\ UNCHANGED <<card, moves, feed, scheduler, pass, ghosts, process>>

-----------------------------------------------------------------------------
(* Asking for a pass. *)

\* scheduleKanbanSweep.
Schedule ==
  /\ dirty' = (dirty \/ Running)
  /\ timer' = (timer \/ ~Running)

StartKanbanSweep ==
  /\ Yielded /\ ~sweep /\ ~stopping
  /\ sweep' = TRUE
  /\ Schedule
  /\ UNCHANGED <<gateway, feed, pass, ghosts, process>>

IntervalElapses ==
  /\ Yielded /\ sweep
  /\ Schedule
  /\ UNCHANGED <<gateway, feed, sweep, pass, ghosts, process>>

TimerFires ==
  /\ timer /\ ~Running
  /\ timer' = FALSE
  /\ pass' = [Idle EXCEPT !.at = "boards"]
  /\ UNCHANGED <<gateway, feed, sweep, dirty, ghosts, process>>

-----------------------------------------------------------------------------
(* One card. *)

\* Mutated: the counter is a detail of the state.
DiffersInStatus(previous, state) == previous = NoMark \/ previous.status # state.status

\* Against the watermark: not what was there at the last sight.
Differs(previous, state) == previous # state

\* describe(): a card is news in a reported status, but in triage only when it
\* was rerouted there from blocked.
News(previous, state) ==
  /\ state.status \in Reported
  /\ state.status = "triage" => previous.status = "blocked"

\* A card seen for the first time is adopted as it is.
Announced(previous, state) ==
  previous # NoMark /\ Differs(previous, state) /\ News(previous, state)

NewRow == [run |-> NoRun, topic |-> NoTopic, at |-> 0]

\* Mutated: the watermark of a transition worth a row is left for the next pass.
HandleUnmarked(f, key, state) ==
  IF Announced(f.mem.watermarks[key], state)
  THEN AppendEntry(f, NewRow, TRUE)
  ELSE SetWatermark(f, key, state, TRUE)

\* One card of an answer: the watermark first, then the row.
Handle(f, key, state) ==
  LET previous == f.mem.watermarks[key]
      marked == SetWatermark(f, key, state, TRUE)
  IN  IF ~Differs(previous, state) THEN f
      ELSE IF Announced(previous, state) THEN AppendEntry(marked, NewRow, TRUE)
      ELSE marked

-----------------------------------------------------------------------------
(* The pass. *)

\* The finally block.
Leave ==
  /\ pass' = Idle
  /\ dirty' = FALSE
  /\ timer' = (timer \/ dirty)

\* boardSlugs(): the boards that are not archived, or the server's current one
\* when they cannot be listed.
BoardsAnswer(ok) ==
  /\ pass.at = "boards"
  /\ ok \/ fallbacks < MaxFallbacks
  /\ LET slugs == IF ok THEN Boards ELSE {Current}
     IN  \E slug \in slugs :
           pass' = [pass EXCEPT !.at = "board", !.slug = slug, !.todo = slugs \ {slug}]
  /\ fallbacks' = IF ok THEN fallbacks ELSE fallbacks + 1
  /\ UNCHANGED <<gateway, feed, scheduler, told, process>>

\* The cards on the board that is asked for.
Listed(slug) ==
  {c \in Cards : card[c] # NoMark /\ BoardOf[c] = (IF slug = Current THEN current ELSE slug)}

\* Only the boards this pass has read are pruned.
Prune(f, swept, seen) == PruneWatermarks(f, swept \X Cards, seen, TRUE)

\* The next board is asked for, or the pass ends.
Continue ==
  \/ \E slug \in pass.todo :
       /\ pass' = [pass EXCEPT !.at = "board", !.slug = slug, !.todo = @ \ {slug}]
       /\ UNCHANGED <<feed, timer, dirty>>
  \/ /\ pass.todo = {}
     /\ feed' = Prune(feed, pass.swept, pass.seen)
     /\ Leave

BoardArrives ==
  /\ pass.at = "board"
  /\ LET cards == Listed(pass.slug)
     IN  pass' = [pass EXCEPT !.at = "cards", !.cards = cards, !.swept = @ \cup {pass.slug},
                              !.seen = @ \cup ({pass.slug} \X cards)]
  /\ UNCHANGED <<gateway, feed, scheduler, ghosts, process>>

\* The next card of the answer.
TakeCard(c) ==
  /\ pass.at = "cards" /\ c \in pass.cards
  /\ LET key == <<pass.slug, c>>
     IN  /\ feed' = Handle(feed, key, card[c])
         /\ told' = IF Announced(feed.mem.watermarks[key], card[c])
                    THEN [told EXCEPT ![c][moves[c]] = @ + 1] ELSE told
  /\ pass' = [pass EXCEPT !.cards = @ \ {c}]
  /\ UNCHANGED <<gateway, scheduler, fallbacks, process>>

BoardDone ==
  /\ pass.at = "cards" /\ pass.cards = {}
  /\ Continue
  /\ UNCHANGED <<gateway, sweep, ghosts, process>>

\* A time-out, a 401 or any other refusal: this board is left alone.
BoardFails ==
  /\ pass.at = "board"
  /\ Continue
  /\ UNCHANGED <<gateway, sweep, ghosts, process>>

-----------------------------------------------------------------------------
(* Timers and the process. *)

CooldownFires ==
  /\ Yielded /\ feed.cooldown
  /\ feed' = CooldownEnds(feed, TRUE)
  /\ UNCHANGED <<gateway, scheduler, pass, ghosts, process>>

\* The SIGTERM handler: stopKanbanSweep, then flushFeed.  A pass under way goes
\* on until the process exits.
Shutdown ==
  /\ Yielded /\ ~stopping /\ restarts < MaxRestarts
  /\ stopping' = TRUE
  /\ sweep' = FALSE /\ timer' = FALSE
  /\ feed' = Flush(feed, TRUE)
  /\ UNCHANGED <<gateway, dirty, pass, ghosts, restarts>>

\* The process exits, at its own wish or not, and is started again.
Restart ==
  /\ \/ stopping /\ Yielded
     \/ restarts < MaxRestarts
  /\ feed' = Loaded(feed.disk)
  /\ sweep' = FALSE /\ timer' = FALSE /\ dirty' = FALSE
  /\ pass' = Idle
  /\ stopping' = FALSE
  /\ restarts' = restarts + 1
  /\ UNCHANGED <<gateway, ghosts>>

PassStep ==
  \/ \E ok \in BOOLEAN : BoardsAnswer(ok)
  \/ BoardArrives \/ BoardFails
  \/ \E c \in Cards : TakeCard(c)
  \/ BoardDone

Next ==
  \/ \E c \in Cards : CardCreated(c) \/ CardMoves(c) \/ CardRemoved(c)
  \/ BoardSwitched
  \/ StartKanbanSweep \/ IntervalElapses \/ TimerFires
  \/ PassStep
  \/ CooldownFires
  \/ Shutdown \/ Restart

Spec == Init /\ [][Next]_vars

\* The proxy is started, its timers fire, every read is answered or timed out,
\* and no board fails for ever.
FairSpec ==
  /\ Spec
  /\ WF_vars(StartKanbanSweep) /\ WF_vars(IntervalElapses) /\ WF_vars(TimerFires)
  /\ WF_vars(PassStep)
  /\ WF_vars(stopping /\ Restart)
  /\ SF_vars(BoardsAnswer(TRUE))
  /\ \A b \in Boards : SF_vars(pass.slug = b /\ BoardArrives)

-----------------------------------------------------------------------------

TypeOK ==
  /\ card \in [Cards -> CardState \cup {NoMark}]
  /\ current \in Boards
  /\ moves \in [Cards -> 0..MaxMoves]
  /\ feed \in FeedType
  /\ sweep \in BOOLEAN /\ timer \in BOOLEAN /\ dirty \in BOOLEAN
  /\ pass \in [at : {"idle", "boards", "board", "cards"},
               todo : SUBSET Boards,
               slug : Boards \cup {Current},
               cards : SUBSET Cards,
               swept : SUBSET (Boards \cup {Current}),
               seen : SUBSET Keys]
  /\ stopping \in BOOLEAN
  /\ told \in [Cards -> [0..MaxMoves -> Nat]]
  /\ fallbacks \in 0..MaxFallbacks /\ restarts \in 0..MaxRestarts

\* "Does not repeat while the card sits there": what a card did is announced
\* once per life of the process that was cut short, and once in all otherwise,
\* whichever boards fail to answer in between.
AnnouncedOnce == \A c \in Cards, m \in 0..MaxMoves : told[c][m] <= 1 + restarts

\* The same where the code keeps it: the boards could always be listed.
AnnouncedOnceIfListed == fallbacks = 0 => AnnouncedOnce

\* "A pass that missed an hour catches up rather than losing it": a card known in
\* another state that blocks and stays blocked is announced, however often it
\* was blocked before, unless the process is cut short first (which may take it
\* back to an older watermark, and that may be the very state the card is in).
BlockIsTold ==
  \A c \in Cards :
    LET blocked == card[c] # NoMark /\ card[c].status = "blocked"
    IN  (blocked /\ feed.mem.watermarks[<<BoardOf[c], c>>] \notin {NoMark, card[c]})
          ~> (told[c][moves[c]] > 0 \/ ~blocked \/ stopping \/ restarts > 0)

=============================================================================
