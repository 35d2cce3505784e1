----------------------------- MODULE KanbanProofs -----------------------------
(***************************************************************************)
(* What holds of the kanban sweep for every set of boards and cards:       *)
(*   - what a card did is announced once per life of the process, as long  *)
(*     as the boards could be listed: the mark of a card that was          *)
(*     announced as it is says so (Marked), and the prune forgets no mark  *)
(*     of a card that exists (Forgettable), because whoever is not among   *)
(*     the cards of a board that was read was not there, and a card is     *)
(*     created only under an id that has no mark yet (Unborn);             *)
(*   - the pass keeps the contract of Coalescing.                          *)
(***************************************************************************)
EXTENDS KanbanSweep, TLAPS

\* The store keeps its shape, and the file has the old marks or those of memory.
Follows(f, g) ==
  /\ g \in FeedType
  /\ g.disk.watermarks \in {f.disk.watermarks, g.mem.watermarks}

-----------------------------------------------------------------------------
(* The operations of the store the pass uses. *)

LEMMA WritingFollows ==
  ASSUME NEW f, f \in FeedType
  PROVE  /\ Follows(f, Persist(f, TRUE)) /\ Persist(f, TRUE).mem = f.mem
         /\ Follows(f, CooldownEnds(f, TRUE)) /\ CooldownEnds(f, TRUE).mem = f.mem
         /\ Flush(f, TRUE) = CooldownEnds(f, TRUE)
<1>1. Follows(f, Persist(f, TRUE)) /\ Persist(f, TRUE).mem = f.mem
  BY DEF Persist, WriteNow, FeedType, Follows
<1>2. Follows(f, CooldownEnds(f, TRUE)) /\ CooldownEnds(f, TRUE).mem = f.mem
  BY DEF CooldownEnds, WriteNow, FeedType, Follows
<1>3. QED
  BY <1>1, <1>2 DEF Flush, CooldownEnds

\* Replacing what memory holds, and persisting it.
LEMMA ReplacingFollows ==
  ASSUME NEW f, f \in FeedType, NEW mem \in FileShape
  PROVE  /\ Follows(f, Persist([f EXCEPT !.mem = mem], TRUE))
         /\ Persist([f EXCEPT !.mem = mem], TRUE).mem = mem
<1> DEFINE g == [f EXCEPT !.mem = mem]
<1>1. g \in FeedType /\ g.mem = mem /\ g.disk = f.disk
  BY DEF FeedType
<1>2. Follows(f, Persist(g, TRUE)) /\ Persist(g, TRUE).mem = mem
  <2> HIDE DEF g
  <2>1. QED
    BY <1>1, WritingFollows DEF Follows
<1>3. QED
  BY <1>2

LEMMA SettingFollows ==
  ASSUME NEW f, f \in FeedType, NEW key \in Keys, NEW value \in Values
  PROVE  /\ Follows(f, SetWatermark(f, key, value, TRUE))
         /\ SetWatermark(f, key, value, TRUE).mem.watermarks
              = [f.mem.watermarks EXCEPT ![key] = value]
<1> DEFINE marks == [f.mem.watermarks EXCEPT ![key] = value]
           mem == [f.mem EXCEPT !.watermarks = marks]
<1>1. f.mem \in FileShape /\ f.mem.watermarks \in [Keys -> Values \cup {NoMark}]
  BY DEF FeedType, FileShape
<1>2. CASE f.mem.watermarks[key] = value
  <2>1. marks = f.mem.watermarks
    BY <1>1, <1>2
  <2>2. QED
    BY <1>2, <2>1 DEF SetWatermark, Follows
<1>3. CASE f.mem.watermarks[key] # value
  <2>1. marks \in [Keys -> Values \cup {NoMark}]
    BY <1>1
  <2>2. mem \in FileShape /\ mem.watermarks = marks
    <3> HIDE DEF marks
    <3>1. QED
      BY <1>1, <2>1 DEF FileShape
  <2>3. SetWatermark(f, key, value, TRUE) = Persist([f EXCEPT !.mem = mem], TRUE)
    BY <1>3 DEF SetWatermark, FeedType
  <2>4. /\ Follows(f, SetWatermark(f, key, value, TRUE))
        /\ SetWatermark(f, key, value, TRUE).mem = mem
    <3> HIDE DEF mem
    <3>1. /\ Follows(f, Persist([f EXCEPT !.mem = mem], TRUE))
          /\ Persist([f EXCEPT !.mem = mem], TRUE).mem = mem
      BY <2>2, ReplacingFollows
    <3>2. QED
      BY <2>3, <3>1
  <2>5. QED
    BY <2>2, <2>4
<1>4. QED
  BY <1>2, <1>3

LEMMA NewestIsASequence ==
  ASSUME NEW S, NEW q \in Seq(S), NEW n \in Nat
  PROVE  Newest(q, n) \in Seq(S)
<1>1. CASE Len(q) > n
  <2>1. Len(q) \in Nat /\ Len(q) - n + 1 \in 1..Len(q) + 1
    BY <1>1
  <2>2. QED
    BY <2>1, <1>1 DEF Newest
<1>2. CASE ~(Len(q) > n)
  BY <1>2 DEF Newest
<1>3. QED
  BY <1>1, <1>2

\* A row about a card touches no mark.
LEMMA RowFollows ==
  ASSUME NEW f, f \in FeedType
  PROVE  /\ Follows(f, AppendEntry(f, NewRow, TRUE))
         /\ AppendEntry(f, NewRow, TRUE).mem.watermarks = f.mem.watermarks
<1> DEFINE rows == Newest(Append(f.mem.entries, NewRow), MaxEntries)
           mem == [f.mem EXCEPT !.entries = rows]
<1>1. f.mem \in FileShape /\ f.mem.entries \in Seq(Row) /\ NewRow \in Row /\ MaxEntries \in Nat
  BY FeedAssumption DEF FeedType, FileShape, Row, NewRow
<1>2. rows \in Seq(Row)
  <2>1. Append(f.mem.entries, NewRow) \in Seq(Row)
    BY <1>1
  <2>2. QED
    BY <2>1, <1>1, NewestIsASequence
<1>3. mem \in FileShape /\ mem.watermarks = f.mem.watermarks
  <2> HIDE DEF rows
  <2>1. QED
    BY <1>1, <1>2 DEF FileShape
<1>4. AppendEntry(f, NewRow, TRUE) = Persist([f EXCEPT !.mem = mem], TRUE)
  <2>1. NewRow.run = NoRun
    BY DEF NewRow
  <2>2. QED
    BY <2>1 DEF AppendEntry, FeedType
<1> HIDE DEF mem
<1>5. QED
  BY <1>3, <1>4, ReplacingFollows

\* Whatever a card did, it is marked with the state it was seen in.
LEMMA HandleMarks ==
  ASSUME NEW f, f \in FeedType, NEW key \in Keys, NEW state \in Values
  PROVE  /\ Follows(f, Handle(f, key, state))
         /\ Handle(f, key, state).mem.watermarks = [f.mem.watermarks EXCEPT ![key] = state]
<1> DEFINE marked == SetWatermark(f, key, state, TRUE)
           previous == f.mem.watermarks[key]
<1>1. f.mem.watermarks \in [Keys -> Values \cup {NoMark}]
  BY DEF FeedType, FileShape
<1>2. /\ Follows(f, marked)
      /\ marked.mem.watermarks = [f.mem.watermarks EXCEPT ![key] = state]
  BY SettingFollows
<1>3. CASE ~Differs(previous, state)
  <2>1. Handle(f, key, state) = f
    BY <1>3 DEF Handle
  <2>2. [f.mem.watermarks EXCEPT ![key] = state] = f.mem.watermarks
    BY <1>1, <1>3 DEF Differs
  <2>3. QED
    BY <2>1, <2>2 DEF Follows
<1>4. CASE Differs(previous, state) /\ Announced(previous, state)
  <2>1. Handle(f, key, state) = AppendEntry(marked, NewRow, TRUE)
    BY <1>4 DEF Handle
  <2> HIDE DEF marked
  <2>2. QED
    BY <1>2, <2>1, RowFollows DEF Follows
<1>5. CASE Differs(previous, state) /\ ~Announced(previous, state)
  <2>1. Handle(f, key, state) = marked
    BY <1>5 DEF Handle
  <2>2. QED
    BY <1>2, <2>1
<1>6. QED
  BY <1>3, <1>4, <1>5

\* The prune forgets only what is under a prefix it was given and is not kept.
LEMMA PruneForgets ==
  ASSUME NEW f, f \in FeedType, NEW swept, NEW seen
  PROVE  LET g == Prune(f, swept, seen)
         IN  /\ Follows(f, g)
             /\ \A key \in Keys :
                  \/ g.mem.watermarks[key] = f.mem.watermarks[key]
                  \/ key \in (swept \X Cards) \ seen /\ g.mem.watermarks[key] = NoMark
<1> DEFINE gone == {key \in (swept \X Cards) \ seen : f.mem.watermarks[key] # NoMark}
           kept == [key \in Keys |-> IF key \in gone THEN NoMark ELSE f.mem.watermarks[key]]
           mem == [f.mem EXCEPT !.watermarks = kept]
<1>1. f.mem \in FileShape /\ f.mem.watermarks \in [Keys -> Values \cup {NoMark}]
  BY DEF FeedType, FileShape
<1>2. CASE gone = {}
  <2>1. Prune(f, swept, seen) = f
    BY <1>2 DEF Prune, PruneWatermarks
  <2>2. QED
    BY <2>1 DEF Follows
<1>3. CASE gone # {}
  <2>1. kept \in [Keys -> Values \cup {NoMark}]
    BY <1>1
  <2>2. mem \in FileShape /\ mem.watermarks = kept
    <3> HIDE DEF kept
    <3>1. QED
      BY <1>1, <2>1 DEF FileShape
  <2>3. Prune(f, swept, seen) = Persist([f EXCEPT !.mem = mem], TRUE)
    BY <1>3 DEF Prune, PruneWatermarks, FeedType
  <2>4. \A key \in Keys :
          \/ kept[key] = f.mem.watermarks[key]
          \/ key \in (swept \X Cards) \ seen /\ kept[key] = NoMark
    OBVIOUS
  <2>5. Follows(f, Prune(f, swept, seen)) /\ Prune(f, swept, seen).mem = mem
    <3> HIDE DEF mem
    <3>1. /\ Follows(f, Persist([f EXCEPT !.mem = mem], TRUE))
          /\ Persist([f EXCEPT !.mem = mem], TRUE).mem = mem
      BY <2>2, ReplacingFollows
    <3>2. QED
      BY <2>3, <3>1
  <2> HIDE DEF kept
  <2>6. QED
    BY <2>2, <2>4, <2>5
<1>4. QED
  BY <1>2, <1>3

-----------------------------------------------------------------------------
(* The inductive invariant. *)

\* Where a card is marked when the boards can be listed.
OwnKey(c) == <<BoardOf[c], c>>

Mark(c) == feed.mem.watermarks[OwnKey(c)]

\* An id that was not used yet has no mark, under any prefix.
Unborn ==
  \A c \in Cards, slug \in Boards \cup {Current} :
    moves[c] = 0 /\ card[c] = NoMark
      => /\ feed.mem.watermarks[<<slug, c>>] = NoMark
         /\ feed.disk.watermarks[<<slug, c>>] = NoMark

\* The cards of an answer are still what they were, and will not be pruned.
Reading ==
  pass.at = "cards" =>
    /\ {pass.slug} \X pass.cards \subseteq pass.seen
    /\ \A c \in pass.cards : card[c] # NoMark /\ (pass.slug # Current => BoardOf[c] = pass.slug)

Future == \A c \in Cards, m \in 0..MaxMoves : m > moves[c] => told[c][m] = 0

OneKey == pass.at \in {"board", "cards"} => pass.slug # Current

\* A card the pass will prune the mark of has none, or is gone.
Forgettable ==
  \A c \in Cards : BoardOf[c] \in pass.swept /\ OwnKey(c) \notin pass.seen /\ card[c] # NoMark
    => Mark(c) = NoMark

\* What was announced in this life of the process is what the mark says.
Marked ==
  \A c \in Cards : told[c][moves[c]] > restarts => card[c] # NoMark /\ Mark(c) = card[c]

KanbanInv ==
  /\ TypeOK
  /\ stopping => restarts < MaxRestarts
  /\ Unborn /\ Reading /\ Future
  /\ fallbacks = 0 => OneKey /\ Forgettable /\ AnnouncedOnce /\ Marked

LEMMA Bounds ==
  /\ MaxMoves \in Nat /\ MaxFallbacks \in Nat /\ MaxRestarts \in Nat
  /\ NoMark \notin CardState /\ BoardOf \in [Cards -> Boards] /\ Current \notin Boards
  /\ Values = CardState /\ Keys = (Boards \cup {Current}) \X Cards
<1>1. MaxMoves \in Nat /\ MaxFallbacks \in Nat /\ MaxRestarts \in Nat
  BY KanbanAssumption
<1>2. QED
  BY <1>1, KanbanAssumption, FeedAssumption

LEMMA Keyed ==
  ASSUME NEW c \in Cards
  PROVE  OwnKey(c) \in Keys /\ BoardOf[c] \in Boards
  BY Bounds DEF OwnKey

LEMMA InitKanbanInv == Init => KanbanInv
<1> SUFFICES ASSUME Init PROVE KanbanInv
  OBVIOUS
<1>1. /\ feed.mem = EmptyFile /\ feed.disk = EmptyFile
      /\ \A key \in Keys : EmptyFile.watermarks[key] = NoMark
  BY DEF Init, Loaded, EmptyFile
<1>2. feed \in FeedType
  <2>1. EmptyFile \in FileShape
    BY DEF EmptyFile, FileShape
  <2>2. QED
    BY <2>1 DEF Init, Loaded, FeedType, Unbuilt, Index
<1>3. TypeOK
  <2>1. [status : Statuses, repeats : {0}] \subseteq CardState
    BY KanbanAssumption DEF CardState
  <2>2. card \in [Cards -> CardState \cup {NoMark}]
    <3> DEFINE fresh == [status : Statuses, repeats : {0}]
    <3>1. card \in [Cards -> fresh \cup {NoMark}] /\ fresh \subseteq CardState
      BY <2>1 DEF Init
    <3> HIDE DEF fresh
    <3>2. QED
      BY <3>1
  <2>3. /\ moves \in [Cards -> 0..MaxMoves] /\ told \in [Cards -> [0..MaxMoves -> Nat]]
        /\ fallbacks \in 0..MaxFallbacks /\ restarts \in 0..MaxRestarts
    BY Bounds DEF Init
  <2>4. pass \in [at : {"idle", "boards", "board", "cards"}, todo : SUBSET Boards,
                  slug : Boards \cup {Current}, cards : SUBSET Cards,
                  swept : SUBSET (Boards \cup {Current}), seen : SUBSET Keys]
    BY DEF Init, Idle
  <2>5. QED
    BY <1>2, <2>2, <2>3, <2>4 DEF Init, TypeOK
<1>4. Unborn
  BY <1>1, Bounds DEF Unborn
<1>5. pass.at = "idle" /\ pass.swept = {}
  BY DEF Init, Idle
<1>6. \A c \in Cards, m \in 0..MaxMoves : told[c][m] = 0
  BY DEF Init
<1>7. moves \in [Cards -> 0..MaxMoves]
  BY <1>3 DEF TypeOK
<1>8. restarts = 0 /\ stopping = FALSE
  BY DEF Init
<1>9. Reading /\ Future /\ OneKey /\ Forgettable /\ AnnouncedOnce /\ Marked
  BY <1>5, <1>6, <1>7, <1>8 DEF Reading, Future, OneKey, Forgettable, AnnouncedOnce, Marked
<1>10. QED
  BY <1>3, <1>4, <1>8, <1>9 DEF KanbanInv

-----------------------------------------------------------------------------
(* Steps that leave the pass and the marks in memory alone. *)

LEMMA StandingStill ==
  ASSUME KanbanInv, current' \in Boards,
         sweep' \in BOOLEAN, timer' \in BOOLEAN, dirty' \in BOOLEAN, stopping' \in BOOLEAN,
         stopping' => restarts < MaxRestarts,
         Follows(feed, feed'), feed'.mem.watermarks = feed.mem.watermarks,
         card' = card, moves' = moves, pass' = pass, told' = told,
         fallbacks' = fallbacks, restarts' = restarts
  PROVE  KanbanInv'
<1>1. TypeOK'
  BY DEF KanbanInv, TypeOK, Follows
<1>2. Unborn'
  BY DEF KanbanInv, Unborn, Follows
<1>3. Reading' /\ Future'
  BY DEF KanbanInv, Reading, Future
<1>4. fallbacks = 0 => OneKey' /\ Forgettable' /\ AnnouncedOnce' /\ Marked'
  BY DEF KanbanInv, OneKey, Forgettable, AnnouncedOnce, Marked, Mark, OwnKey
<1>5. QED
  BY <1>1, <1>2, <1>3, <1>4 DEF KanbanInv

LEMMA FeedSame ==
  ASSUME TypeOK, feed' = feed
  PROVE  Follows(feed, feed')
  BY DEF TypeOK, Follows

LEMMA QuietKeeps ==
  ASSUME KanbanInv, BoardSwitched \/ StartKanbanSweep \/ IntervalElapses \/ UNCHANGED vars
  PROVE  KanbanInv'
<1>1. TypeOK /\ (stopping => restarts < MaxRestarts)
  BY DEF KanbanInv
<1>2. Follows(feed, feed') /\ feed' = feed
  BY <1>1, FeedSame DEF BoardSwitched, StartKanbanSweep, IntervalElapses, vars
<1>3. /\ current' \in Boards
      /\ sweep' \in BOOLEAN /\ timer' \in BOOLEAN /\ dirty' \in BOOLEAN
  BY <1>1 DEF BoardSwitched, StartKanbanSweep, IntervalElapses, vars, scheduler, gateway,
              Schedule, TypeOK, Running
<1>4. /\ card' = card /\ moves' = moves /\ pass' = pass /\ told' = told
      /\ fallbacks' = fallbacks /\ restarts' = restarts /\ stopping' = stopping
  BY DEF BoardSwitched, StartKanbanSweep, IntervalElapses, vars, gateway, ghosts, process
<1>5. stopping' \in BOOLEAN /\ (stopping' => restarts < MaxRestarts)
  BY <1>1, <1>4 DEF TypeOK
<1>6. QED
  BY <1>2, <1>3, <1>4, <1>5, StandingStill

LEMMA WritesKeep == ASSUME KanbanInv, CooldownFires \/ Shutdown PROVE KanbanInv'
<1>1. TypeOK /\ (stopping => restarts < MaxRestarts)
  BY DEF KanbanInv
<1>2. Follows(feed, feed') /\ feed'.mem = feed.mem
  <2>1. feed \in FeedType
    BY <1>1 DEF TypeOK
  <2>2. feed' = CooldownEnds(feed, TRUE)
    BY <2>1, WritingFollows DEF CooldownFires, Shutdown
  <2>3. QED
    BY <2>1, <2>2, WritingFollows
<1>3. /\ card' = card /\ moves' = moves /\ current' = current /\ pass' = pass /\ told' = told
      /\ fallbacks' = fallbacks /\ restarts' = restarts
  BY DEF CooldownFires, Shutdown, gateway, ghosts, process
<1>4. /\ sweep' \in BOOLEAN /\ timer' \in BOOLEAN /\ dirty' \in BOOLEAN /\ stopping' \in BOOLEAN
      /\ stopping' => restarts < MaxRestarts
  <2>1. CASE CooldownFires
    BY <1>1, <2>1 DEF CooldownFires, scheduler, process, TypeOK
  <2>2. CASE Shutdown
    BY <1>1, <2>2 DEF Shutdown, TypeOK
  <2>3. QED
    BY <2>1, <2>2
<1>5. QED
  BY <1>1, <1>2, <1>3, <1>4, StandingStill DEF TypeOK

-----------------------------------------------------------------------------
(* A card. *)

LEMMA CardKeeps ==
  ASSUME KanbanInv, NEW c \in Cards, NEW state \in CardState \cup {NoMark},
         CardBecomes(c, state), card[c] = NoMark => moves[c] = 0
  PROVE  KanbanInv'
<1>1. /\ TypeOK /\ Unborn /\ Reading /\ Future
      /\ fallbacks = 0 => OneKey /\ Forgettable /\ AnnouncedOnce /\ Marked
  BY DEF KanbanInv
<1>2. /\ moves' = [moves EXCEPT ![c] = @ + 1] /\ card' = [card EXCEPT ![c] = state]
      /\ moves[c] < MaxMoves /\ pass.at # "cards"
      /\ current' = current /\ feed' = feed /\ pass' = pass /\ told' = told
      /\ fallbacks' = fallbacks /\ restarts' = restarts /\ stopping' = stopping
      /\ sweep' = sweep /\ timer' = timer /\ dirty' = dirty
  BY DEF CardBecomes, Yielded, scheduler, process
<1>3. /\ moves \in [Cards -> 0..MaxMoves] /\ card \in [Cards -> CardState \cup {NoMark}]
      /\ told \in [Cards -> [0..MaxMoves -> Nat]] /\ restarts \in Nat /\ MaxMoves \in Nat
  BY <1>1, Bounds DEF TypeOK
<1>4. moves[c] + 1 \in 0..MaxMoves /\ moves[c] + 1 > moves[c] /\ moves[c] + 1 # 0
  BY <1>2, <1>3
<1>5. \A d \in Cards : d # c => moves'[d] = moves[d] /\ card'[d] = card[d]
  BY <1>2, <1>3
<1>6. moves'[c] = moves[c] + 1
  BY <1>2, <1>3
<1>7. TypeOK'
  <2>1. moves' \in [Cards -> 0..MaxMoves]
    BY <1>2, <1>3, <1>4
  <2>2. card' \in [Cards -> CardState \cup {NoMark}]
    BY <1>2, <1>3
  <2>3. QED
    BY <1>1, <1>2, <2>1, <2>2 DEF TypeOK
<1>8. Unborn'
  BY <1>1, <1>2, <1>4, <1>5, <1>6 DEF Unborn
<1>9. Reading'
  BY <1>2 DEF Reading
<1>10. Future'
  <2> SUFFICES ASSUME NEW d \in Cards, NEW m \in 0..MaxMoves, m > moves'[d]
               PROVE  told[d][m] = 0
    BY <1>2 DEF Future
  <2>1. m > moves[d]
    <3>1. CASE d = c
      BY <1>3, <1>6, <3>1
    <3>2. CASE d # c
      BY <1>5, <3>2
    <3>3. QED
      BY <3>1, <3>2
  <2>2. QED
    BY <2>1, <1>1 DEF Future
<1>11. ASSUME fallbacks = 0 PROVE OneKey' /\ Forgettable' /\ AnnouncedOnce' /\ Marked'
  <2>1. OneKey /\ Forgettable /\ AnnouncedOnce /\ Marked
    BY <1>1, <1>11
  <2>2. OneKey' /\ AnnouncedOnce'
    BY <1>2, <2>1 DEF OneKey, AnnouncedOnce
  <2>3. Forgettable'
    <3> SUFFICES ASSUME NEW d \in Cards, BoardOf[d] \in pass.swept,
                        OwnKey(d) \notin pass.seen, card'[d] # NoMark
                 PROVE  Mark(d) = NoMark
      BY <1>2 DEF Forgettable, Mark, OwnKey
    <3>1. CASE card[d] # NoMark
      BY <2>1, <3>1 DEF Forgettable
    <3>2. CASE card[d] = NoMark
      <4>1. moves[d] = 0
        BY <1>5, <3>2
      <4>2. QED
        BY <1>1, <3>2, <4>1, Keyed DEF Unborn, Mark, OwnKey
    <3>3. QED
      BY <3>1, <3>2
  <2>4. Marked'
    <3> SUFFICES ASSUME NEW d \in Cards, told[d][moves'[d]] > restarts
                 PROVE  card'[d] # NoMark /\ Mark(d) = card'[d]
      BY <1>2 DEF Marked, Mark, OwnKey
    <3>1. d # c
      <4>1. told[c][moves[c] + 1] = 0
        BY <1>1, <1>4 DEF Future
      <4>2. QED
        BY <1>3, <1>6, <4>1
    <3>2. QED
      BY <1>5, <2>1, <3>1 DEF Marked
  <2>5. QED
    BY <2>2, <2>3, <2>4
<1>12. QED
  BY <1>1, <1>2, <1>7, <1>8, <1>9, <1>10, <1>11 DEF KanbanInv

LEMMA CardsKeep ==
  ASSUME KanbanInv, NEW c \in Cards, CardCreated(c) \/ CardMoves(c) \/ CardRemoved(c)
  PROVE  KanbanInv'
<1>1. TypeOK
  BY DEF KanbanInv
<1>2. CASE CardCreated(c)
  <2>1. PICK status \in Statuses : CardBecomes(c, [status |-> status, repeats |-> 0])
    BY <1>2 DEF CardCreated
  <2>2. [status |-> status, repeats |-> 0] \in CardState
    BY KanbanAssumption DEF CardState
  <2>3. QED
    BY <1>2, <2>1, <2>2, CardKeeps DEF CardCreated
<1>3. CASE CardMoves(c)
  BY <1>3, CardKeeps DEF CardMoves
<1>4. CASE CardRemoved(c)
  BY <1>4, CardKeeps DEF CardRemoved
<1>5. QED
  BY <1>2, <1>3, <1>4

-----------------------------------------------------------------------------
(* The pass. *)

\* A pass that begins, or asks for a board.
LEMMA PassKeeps ==
  ASSUME KanbanInv, TypeOK', pass'.at # "cards",
         pass'.swept \subseteq pass.swept, pass.seen \subseteq pass'.seen \/ pass'.swept = {},
         fallbacks' = 0 => fallbacks = 0 /\ OneKey',
         card' = card, moves' = moves, feed' = feed, told' = told,
         restarts' = restarts, stopping' = stopping
  PROVE  KanbanInv'
<1>1. /\ Unborn /\ Reading /\ Future /\ (stopping => restarts < MaxRestarts)
      /\ fallbacks = 0 => OneKey /\ Forgettable /\ AnnouncedOnce /\ Marked
  BY DEF KanbanInv
<1>2. Unborn' /\ Reading' /\ Future' /\ (stopping' => restarts' < MaxRestarts)
  BY <1>1 DEF Unborn, Reading, Future
<1>3. fallbacks' = 0 => Forgettable' /\ AnnouncedOnce' /\ Marked'
  BY <1>1 DEF Forgettable, AnnouncedOnce, Marked, Mark, OwnKey
<1>4. QED
  BY <1>2, <1>3 DEF KanbanInv

LEMMA TimerFiresKeeps == ASSUME KanbanInv, TimerFires PROVE KanbanInv'
<1>1. pass' = [Idle EXCEPT !.at = "boards"]
  BY DEF TimerFires
<1>2. /\ pass'.at = "boards" /\ pass'.swept = {} /\ pass'.todo = {} /\ pass'.seen = {}
      /\ pass'.cards = {} /\ pass'.slug = Current
      /\ pass' = [at |-> "boards", todo |-> {}, slug |-> Current, cards |-> {},
                  swept |-> {}, seen |-> {}]
  BY <1>1 DEF Idle
<1>3. TypeOK'
  BY <1>2 DEF KanbanInv, TypeOK, TimerFires, gateway, ghosts, process
<1>4. QED
  BY <1>2, <1>3, PassKeeps
     DEF TimerFires, OneKey, gateway, ghosts, process

LEMMA BoardsAnswerKeeps ==
  ASSUME KanbanInv, NEW ok \in BOOLEAN, BoardsAnswer(ok)
  PROVE  KanbanInv'
<1>1. TypeOK
  BY DEF KanbanInv
<1> DEFINE slugs == IF ok THEN Boards ELSE {Current}
<1>2. PICK slug \in slugs :
        pass' = [pass EXCEPT !.at = "board", !.slug = slug, !.todo = slugs \ {slug}]
  BY DEF BoardsAnswer
<1>3. /\ slugs \ {slug} \subseteq Boards /\ slug \in Boards \cup {Current}
      /\ ok => slug # Current
  BY Bounds
<1>4. /\ fallbacks' = (IF ok THEN fallbacks ELSE fallbacks + 1)
      /\ ok \/ fallbacks < MaxFallbacks
      /\ fallbacks \in Nat /\ fallbacks <= MaxFallbacks
  BY <1>1, Bounds DEF BoardsAnswer, TypeOK
<1>5. fallbacks' \in 0..MaxFallbacks /\ (fallbacks' = 0 => ok /\ fallbacks = 0)
  BY <1>4, Bounds
<1> HIDE DEF slugs
<1>6. /\ pass'.at = "board" /\ pass'.slug = slug /\ pass'.todo = slugs \ {slug}
      /\ pass'.cards = pass.cards /\ pass'.swept = pass.swept /\ pass'.seen = pass.seen
  BY <1>1, <1>2 DEF TypeOK
<1>7. TypeOK'
  <2>1. pass' \in [at : {"idle", "boards", "board", "cards"}, todo : SUBSET Boards,
                   slug : Boards \cup {Current}, cards : SUBSET Cards,
                   swept : SUBSET (Boards \cup {Current}), seen : SUBSET Keys]
    BY <1>1, <1>2, <1>3 DEF TypeOK
  <2>2. QED
    BY <1>1, <1>5, <2>1 DEF TypeOK, BoardsAnswer, gateway, scheduler, process
<1>8. QED
  BY <1>3, <1>5, <1>6, <1>7, PassKeeps
     DEF BoardsAnswer, OneKey, gateway, scheduler, process

\* Whoever is on no list of a board that was read was not on it.
LEMMA BoardArrivesKeeps == ASSUME KanbanInv, BoardArrives PROVE KanbanInv'
<1>1. /\ TypeOK /\ Unborn /\ Future /\ (stopping => restarts < MaxRestarts)
      /\ fallbacks = 0 => OneKey /\ Forgettable /\ AnnouncedOnce /\ Marked
  BY DEF KanbanInv
<1> DEFINE cards == Listed(pass.slug)
<1>2. pass' = [pass EXCEPT !.at = "cards", !.cards = cards, !.swept = @ \cup {pass.slug},
                           !.seen = @ \cup ({pass.slug} \X cards)]
  BY DEF BoardArrives
<1>3. /\ cards \subseteq Cards
      /\ \A c \in cards : card[c] # NoMark /\ (pass.slug # Current => BoardOf[c] = pass.slug)
      /\ \A c \in Cards : card[c] # NoMark /\ pass.slug # Current /\ BoardOf[c] = pass.slug
                            => c \in cards
  BY DEF Listed
<1> HIDE DEF cards
<1>4. /\ pass'.at = "cards" /\ pass'.cards = cards /\ pass'.slug = pass.slug
      /\ pass'.swept = pass.swept \cup {pass.slug}
      /\ pass'.seen = pass.seen \cup ({pass.slug} \X cards)
      /\ pass'.todo = pass.todo
  BY <1>1, <1>2 DEF TypeOK
<1>5. /\ card' = card /\ current' = current /\ moves' = moves /\ feed' = feed
      /\ told' = told /\ fallbacks' = fallbacks
      /\ restarts' = restarts /\ stopping' = stopping
      /\ sweep' = sweep /\ timer' = timer /\ dirty' = dirty
  BY DEF BoardArrives, gateway, scheduler, ghosts, process
<1>6. TypeOK'
  <2>1. pass.slug \in Boards \cup {Current}
    BY <1>1 DEF TypeOK
  <2>2. {pass.slug} \X cards \subseteq Keys
    BY <1>3, <2>1, Bounds
  <2>3. pass' \in [at : {"idle", "boards", "board", "cards"}, todo : SUBSET Boards,
                   slug : Boards \cup {Current}, cards : SUBSET Cards,
                   swept : SUBSET (Boards \cup {Current}), seen : SUBSET Keys]
    BY <1>1, <1>2, <1>3, <2>1, <2>2 DEF TypeOK
  <2>4. QED
    BY <1>1, <1>5, <2>3 DEF TypeOK
<1>7. Unborn' /\ Reading' /\ Future'
  BY <1>1, <1>3, <1>4, <1>5 DEF Unborn, Reading, Future
<1>8. ASSUME fallbacks = 0 PROVE OneKey' /\ Forgettable' /\ AnnouncedOnce' /\ Marked'
  <2>1. OneKey /\ Forgettable /\ AnnouncedOnce /\ Marked
    BY <1>1, <1>8
  <2>2. pass.slug # Current
    BY <2>1 DEF OneKey, BoardArrives
  <2>3. Forgettable'
    <3> SUFFICES ASSUME NEW c \in Cards, BoardOf[c] \in pass'.swept,
                        OwnKey(c) \notin pass'.seen, card[c] # NoMark
                 PROVE  Mark(c) = NoMark
      BY <1>5 DEF Forgettable, Mark, OwnKey
    <3>1. OwnKey(c) \notin pass.seen
      BY <1>4
    <3>2. CASE BoardOf[c] \in pass.swept
      BY <2>1, <3>1, <3>2 DEF Forgettable
    <3>3. CASE BoardOf[c] = pass.slug
      BY <1>3, <1>4, <2>2, <3>3 DEF OwnKey
    <3>4. QED
      BY <1>4, <3>2, <3>3
  <2>4. QED
    BY <1>4, <1>5, <2>1, <2>2, <2>3 DEF OneKey, AnnouncedOnce, Marked, Mark, OwnKey
<1>9. QED
  BY <1>1, <1>5, <1>6, <1>7, <1>8 DEF KanbanInv

LEMMA TakeCardKeeps == ASSUME KanbanInv, NEW c \in Cards, TakeCard(c) PROVE KanbanInv'
<1>1. /\ TypeOK /\ Unborn /\ Reading /\ Future /\ (stopping => restarts < MaxRestarts)
      /\ fallbacks = 0 => OneKey /\ Forgettable /\ AnnouncedOnce /\ Marked
  BY DEF KanbanInv
<1> DEFINE key == <<pass.slug, c>>
           news == Announced(feed.mem.watermarks[key], card[c])
<1>2. /\ pass.at = "cards" /\ c \in pass.cards
      /\ feed' = Handle(feed, key, card[c])
      /\ told' = IF news THEN [told EXCEPT ![c][moves[c]] = @ + 1] ELSE told
      /\ pass' = [pass EXCEPT !.cards = @ \ {c}]
      /\ card' = card /\ current' = current /\ moves' = moves /\ fallbacks' = fallbacks
      /\ restarts' = restarts /\ stopping' = stopping
      /\ sweep' = sweep /\ timer' = timer /\ dirty' = dirty
  BY DEF TakeCard, gateway, scheduler, process
<1>3. /\ moves \in [Cards -> 0..MaxMoves] /\ card \in [Cards -> CardState \cup {NoMark}]
      /\ told \in [Cards -> [0..MaxMoves -> Nat]] /\ restarts \in Nat /\ feed \in FeedType
      /\ feed.mem.watermarks \in [Keys -> Values \cup {NoMark}]
      /\ pass.slug \in Boards \cup {Current}
  BY <1>1, Bounds DEF TypeOK, FeedType, FileShape
<1>4. /\ card[c] # NoMark /\ card[c] \in Values /\ key \in Keys /\ key \in pass.seen
      /\ pass.slug # Current => key = OwnKey(c)
  BY <1>1, <1>2, <1>3, Bounds DEF Reading, OwnKey
<1>5. /\ Follows(feed, feed')
      /\ feed'.mem.watermarks = [feed.mem.watermarks EXCEPT ![key] = card[c]]
  <2> DEFINE state == card[c]
  <2>1. key \in Keys /\ state \in Values /\ feed \in FeedType /\ feed' = Handle(feed, key, state)
    BY <1>2, <1>3, <1>4
  <2> HIDE DEF key, state
  <2>2. /\ Follows(feed, feed')
        /\ feed'.mem.watermarks = [feed.mem.watermarks EXCEPT ![key] = state]
    BY <2>1, HandleMarks
  <2>3. QED
    BY <2>2 DEF state
<1>6. /\ feed'.mem.watermarks[key] = card[c]
      /\ \A k \in Keys : k # key => feed'.mem.watermarks[k] = feed.mem.watermarks[k]
  BY <1>3, <1>4, <1>5
<1>7. /\ told' \in [Cards -> [0..MaxMoves -> Nat]]
      /\ \A d \in Cards, m \in 0..MaxMoves :
           told'[d][m] = IF news /\ d = c /\ m = moves[c] THEN told[d][m] + 1 ELSE told[d][m]
  <2> DEFINE n == moves[c]
  <2>1. n \in 0..MaxMoves /\ c \in Cards
    BY <1>3
  <2> HIDE DEF n, news
  <2>2. CASE news
    <3>1. told' = [told EXCEPT ![c][n] = @ + 1]
      BY <1>2, <2>2 DEF n
    <3>2. told' \in [Cards -> [0..MaxMoves -> Nat]]
      <4> DEFINE counts == [told[c] EXCEPT ![n] = @ + 1]
      <4>1. told[c] \in [0..MaxMoves -> Nat] /\ told[c][n] + 1 \in Nat
        <5>1. told[c] \in [0..MaxMoves -> Nat]
          BY <1>3, <2>1
        <5>2. told[c][n] \in Nat
          BY <5>1, <2>1
        <5>3. QED
          BY <5>1, <5>2
      <4>2. counts \in [0..MaxMoves -> Nat]
        BY <4>1
      <4>3. told' = [told EXCEPT ![c] = counts]
        BY <3>1
      <4> HIDE DEF counts
      <4>4. QED
        BY <1>3, <4>2, <4>3
    <3>3. \A d \in Cards, m \in 0..MaxMoves :
            told'[d][m] = IF d = c /\ m = n THEN told[d][m] + 1 ELSE told[d][m]
      BY <1>3, <2>1, <3>1
    <3>4. QED
      BY <2>2, <3>2, <3>3 DEF n
  <2>3. CASE ~news
    BY <1>2, <1>3, <2>3
  <2>4. QED
    BY <2>2, <2>3
<1> HIDE DEF key, news
<1>8. /\ pass'.at = pass.at /\ pass'.slug = pass.slug /\ pass'.cards = pass.cards \ {c}
      /\ pass'.seen = pass.seen /\ pass'.swept = pass.swept
  BY <1>1, <1>2 DEF TypeOK
<1>9. TypeOK'
  <2>1. pass' \in [at : {"idle", "boards", "board", "cards"}, todo : SUBSET Boards,
                   slug : Boards \cup {Current}, cards : SUBSET Cards,
                   swept : SUBSET (Boards \cup {Current}), seen : SUBSET Keys]
    BY <1>1, <1>2 DEF TypeOK
  <2>2. QED
    BY <1>1, <1>2, <1>5, <1>7, <2>1 DEF TypeOK, Follows
<1>10. Unborn'
  <2> SUFFICES ASSUME NEW d \in Cards, NEW slug \in Boards \cup {Current},
                      moves[d] = 0, card[d] = NoMark
               PROVE  /\ feed'.mem.watermarks[<<slug, d>>] = NoMark
                      /\ feed'.disk.watermarks[<<slug, d>>] = NoMark
    BY <1>2 DEF Unborn
  <2>1. <<slug, d>> \in Keys /\ <<slug, d>> # key
    BY <1>4, Bounds DEF key
  <2>2. feed'.mem.watermarks[<<slug, d>>] = NoMark
    BY <1>1, <1>6, <2>1 DEF Unborn
  <2>3. QED
    BY <1>1, <1>5, <2>2 DEF Unborn, Follows
<1>11. Reading'
  BY <1>1, <1>2, <1>8 DEF Reading
<1>12. Future'
  BY <1>1, <1>2, <1>3, <1>7 DEF Future
<1>13. ASSUME fallbacks = 0 PROVE OneKey' /\ Forgettable' /\ AnnouncedOnce' /\ Marked'
  <2>1. OneKey /\ Forgettable /\ AnnouncedOnce /\ Marked
    BY <1>1, <1>13
  <2>2. pass.slug # Current /\ key = OwnKey(c)
    BY <1>2, <1>4, <2>1 DEF OneKey
  <2>3. \A d \in Cards : d # c => Mark(d)' = Mark(d)
    <3> SUFFICES ASSUME NEW d \in Cards, d # c PROVE Mark(d)' = Mark(d)
      OBVIOUS
    <3>1. OwnKey(d) \in Keys /\ OwnKey(d) # key
      BY <2>2, Keyed DEF OwnKey
    <3>2. QED
      BY <1>6, <3>1 DEF Mark, OwnKey
  <2>4. Mark(c)' = card[c] /\ Mark(c) = feed.mem.watermarks[key]
    BY <1>6, <2>2 DEF Mark, OwnKey
  <2>5. OneKey'
    BY <1>8, <2>1 DEF OneKey
  <2>6. Forgettable'
    BY <1>2, <1>4, <1>8, <2>1, <2>2, <2>3 DEF Forgettable, OwnKey, Mark
  <2>7. news => told[c][moves[c]] <= restarts
    <3>1. news => Mark(c) # card[c]
      BY <2>4 DEF news, Announced, Differs
    <3>2. told[c][moves[c]] \in Nat
      BY <1>3
    <3>3. QED
      BY <1>3, <2>1, <3>1, <3>2 DEF Marked
  <2>8. AnnouncedOnce'
    <3> SUFFICES ASSUME NEW d \in Cards, NEW m \in 0..MaxMoves
                 PROVE  told'[d][m] <= 1 + restarts
      BY <1>2 DEF AnnouncedOnce
    <3>1. told[d][m] <= 1 + restarts /\ told[d][m] \in Nat
      BY <1>3, <2>1 DEF AnnouncedOnce
    <3>2. QED
      BY <1>3, <1>7, <2>7, <3>1
  <2>9. Marked'
    <3> SUFFICES ASSUME NEW d \in Cards, told'[d][moves[d]] > restarts
                 PROVE  card[d] # NoMark /\ Mark(d)' = card[d]
      BY <1>2 DEF Marked
    <3>1. CASE d = c
      BY <1>4, <2>4, <3>1
    <3>2. CASE d # c
      <4>1. told'[d][moves[d]] = told[d][moves[d]]
        BY <1>3, <1>7, <3>2
      <4>2. QED
        BY <2>1, <2>3, <3>2, <4>1 DEF Marked
    <3>3. QED
      BY <3>1, <3>2
  <2>10. QED
    BY <2>5, <2>6, <2>8, <2>9
<1>14. QED
  BY <1>1, <1>2, <1>9, <1>10, <1>11, <1>12, <1>13 DEF KanbanInv

\* The prune forgets no mark of a card that exists.
LEMMA ContinueKeeps ==
  ASSUME KanbanInv, pass.at \in {"board", "cards"}, Continue,
         card' = card, current' = current, moves' = moves, sweep' = sweep, told' = told,
         fallbacks' = fallbacks, restarts' = restarts, stopping' = stopping
  PROVE  KanbanInv'
<1>1. /\ TypeOK /\ Unborn /\ Future /\ (stopping => restarts < MaxRestarts)
      /\ fallbacks = 0 => OneKey /\ Forgettable /\ AnnouncedOnce /\ Marked
  BY DEF KanbanInv
<1>2. ASSUME NEW slug \in pass.todo,
             pass' = [pass EXCEPT !.at = "board", !.slug = slug, !.todo = @ \ {slug}],
             UNCHANGED <<feed, timer, dirty>>
      PROVE  KanbanInv'
  <2>1. slug \in Boards /\ slug # Current
    BY <1>1, Bounds DEF TypeOK
  <2>2. /\ pass'.at = "board" /\ pass'.slug = slug
        /\ pass'.seen = pass.seen /\ pass'.swept = pass.swept
    BY <1>1, <1>2 DEF TypeOK
  <2>3. TypeOK'
    <3>1. pass' \in [at : {"idle", "boards", "board", "cards"}, todo : SUBSET Boards,
                     slug : Boards \cup {Current}, cards : SUBSET Cards,
                     swept : SUBSET (Boards \cup {Current}), seen : SUBSET Keys]
      BY <1>1, <1>2, <2>1 DEF TypeOK
    <3>2. QED
      BY <1>1, <1>2, <3>1 DEF TypeOK
  <2>4. QED
    BY <1>2, <2>1, <2>2, <2>3, PassKeeps DEF OneKey
<1>3. ASSUME feed' = Prune(feed, pass.swept, pass.seen), Leave PROVE KanbanInv'
  <2>1. /\ pass' = Idle /\ pass'.at = "idle" /\ pass'.swept = {}
        /\ pass' \in [at : {"idle", "boards", "board", "cards"}, todo : SUBSET Boards,
                      slug : Boards \cup {Current}, cards : SUBSET Cards,
                      swept : SUBSET (Boards \cup {Current}), seen : SUBSET Keys]
    BY <1>3 DEF Leave, Idle
  <2>2. feed \in FeedType
    BY <1>1 DEF TypeOK
  <2>3. /\ Follows(feed, feed')
        /\ \A key \in Keys :
             \/ feed'.mem.watermarks[key] = feed.mem.watermarks[key]
             \/ /\ key \in (pass.swept \X Cards) \ pass.seen
                /\ feed'.mem.watermarks[key] = NoMark
    BY <1>3, <2>2, PruneForgets
  <2>4. TypeOK'
    BY <1>1, <1>3, <2>1, <2>3 DEF TypeOK, Follows, Leave
  <2>5. Unborn'
    <3> SUFFICES ASSUME NEW d \in Cards, NEW slug \in Boards \cup {Current},
                        moves[d] = 0, card[d] = NoMark
                 PROVE  /\ feed'.mem.watermarks[<<slug, d>>] = NoMark
                        /\ feed'.disk.watermarks[<<slug, d>>] = NoMark
      BY DEF Unborn
    <3>1. <<slug, d>> \in Keys
      BY Bounds
    <3>2. feed'.mem.watermarks[<<slug, d>>] = NoMark
      BY <1>1, <2>3, <3>1 DEF Unborn
    <3>3. QED
      BY <1>1, <2>3, <3>2 DEF Unborn, Follows
  <2>6. Reading' /\ Future'
    BY <1>1, <2>1 DEF Reading, Future
  <2>7. ASSUME fallbacks = 0 PROVE OneKey' /\ Forgettable' /\ AnnouncedOnce' /\ Marked'
    <3>1. OneKey /\ Forgettable /\ AnnouncedOnce /\ Marked
      BY <1>1, <2>7
    <3>2. OneKey' /\ Forgettable' /\ AnnouncedOnce'
      BY <2>1, <3>1 DEF OneKey, Forgettable, AnnouncedOnce
    <3>3. Marked'
      <4> SUFFICES ASSUME NEW c \in Cards, told[c][moves[c]] > restarts
                   PROVE  card[c] # NoMark /\ Mark(c)' = card[c]
        BY DEF Marked
      <4>1. card[c] # NoMark /\ Mark(c) = card[c]
        BY <3>1 DEF Marked
      <4>2. ~(OwnKey(c) \in (pass.swept \X Cards) \ pass.seen)
        BY <3>1, <4>1 DEF Forgettable, OwnKey
      <4>3. Mark(c)' = Mark(c)
        BY <2>3, <4>2, Keyed DEF Mark, OwnKey
      <4>4. QED
        BY <4>1, <4>3
    <3>4. QED
      BY <3>2, <3>3
  <2>8. QED
    BY <1>1, <2>4, <2>5, <2>6, <2>7 DEF KanbanInv
<1>4. QED
  BY <1>2, <1>3 DEF Continue

LEMMA BoardEndsKeeps == ASSUME KanbanInv, BoardDone \/ BoardFails PROVE KanbanInv'
<1>1. /\ pass.at \in {"board", "cards"} /\ Continue
      /\ card' = card /\ current' = current /\ moves' = moves /\ sweep' = sweep
      /\ told' = told /\ fallbacks' = fallbacks /\ restarts' = restarts
      /\ stopping' = stopping
  BY DEF BoardDone, BoardFails, gateway, ghosts, process
<1>2. QED
  BY <1>1, ContinueKeeps

\* A restart goes back to the marks of the file, and starts a life of its own.
LEMMA RestartKeeps == ASSUME KanbanInv, Restart PROVE KanbanInv'
<1>1. /\ TypeOK /\ Unborn /\ Future /\ (stopping => restarts < MaxRestarts)
      /\ fallbacks = 0 => AnnouncedOnce
  BY DEF KanbanInv
<1>2. /\ feed' = Loaded(feed.disk) /\ pass' = Idle /\ stopping' = FALSE
      /\ restarts' = restarts + 1 /\ restarts < MaxRestarts
      /\ card' = card /\ current' = current /\ moves' = moves
      /\ told' = told /\ fallbacks' = fallbacks
      /\ sweep' = FALSE /\ timer' = FALSE /\ dirty' = FALSE
  BY <1>1 DEF Restart, gateway, ghosts
<1>3. feed'.mem = feed.disk /\ feed'.disk = feed.disk
  BY <1>2 DEF Loaded
<1>4. /\ restarts \in Nat /\ restarts + 1 \in 0..MaxRestarts
      /\ moves \in [Cards -> 0..MaxMoves] /\ told \in [Cards -> [0..MaxMoves -> Nat]]
  BY <1>1, <1>2, Bounds DEF TypeOK
<1>5. pass'.at = "idle" /\ pass'.swept = {}
  BY <1>2 DEF Idle
<1>6. TypeOK'
  <2>1. feed' \in FeedType
    BY <1>1, <1>2 DEF TypeOK, Loaded, FeedType, Unbuilt, Index
  <2>2. pass' \in [at : {"idle", "boards", "board", "cards"}, todo : SUBSET Boards,
                   slug : Boards \cup {Current}, cards : SUBSET Cards,
                   swept : SUBSET (Boards \cup {Current}), seen : SUBSET Keys]
    BY <1>2 DEF Idle
  <2>3. QED
    BY <1>1, <1>2, <1>4, <2>1, <2>2 DEF TypeOK
<1>7. Unborn' /\ Future' /\ Reading'
  BY <1>1, <1>2, <1>3, <1>5 DEF Unborn, Future, Reading
<1>8. ASSUME fallbacks = 0 PROVE OneKey' /\ Forgettable' /\ AnnouncedOnce' /\ Marked'
  <2>1. \A c \in Cards, m \in 0..MaxMoves : told[c][m] <= 1 + restarts /\ told[c][m] \in Nat
    BY <1>1, <1>4, <1>8 DEF AnnouncedOnce
  <2>2. AnnouncedOnce'
    BY <1>2, <1>4, <2>1 DEF AnnouncedOnce
  <2>3. Marked'
    <3> SUFFICES ASSUME NEW c \in Cards PROVE ~(told[c][moves[c]] > restarts + 1)
      BY <1>2 DEF Marked
    <3>1. moves[c] \in 0..MaxMoves
      BY <1>4
    <3>2. QED
      BY <1>4, <2>1, <3>1
  <2>4. QED
    BY <1>5, <2>2, <2>3 DEF OneKey, Forgettable
<1>9. QED
  BY <1>2, <1>6, <1>7, <1>8 DEF KanbanInv

LEMMA NextKanbanInv == KanbanInv /\ [Next]_vars => KanbanInv'
<1> SUFFICES ASSUME KanbanInv, [Next]_vars PROVE KanbanInv'
  OBVIOUS
<1>1. CASE \E c \in Cards : CardCreated(c) \/ CardMoves(c) \/ CardRemoved(c)
  BY <1>1, CardsKeep
<1>2. CASE BoardSwitched \/ StartKanbanSweep \/ IntervalElapses \/ UNCHANGED vars
  BY <1>2, QuietKeeps
<1>3. CASE TimerFires
  BY <1>3, TimerFiresKeeps
<1>4. CASE \E ok \in BOOLEAN : BoardsAnswer(ok)
  BY <1>4, BoardsAnswerKeeps
<1>5. CASE BoardArrives
  BY <1>5, BoardArrivesKeeps
<1>6. CASE \E c \in Cards : TakeCard(c)
  BY <1>6, TakeCardKeeps
<1>7. CASE BoardDone \/ BoardFails
  BY <1>7, BoardEndsKeeps
<1>8. CASE CooldownFires \/ Shutdown
  BY <1>8, WritesKeep
<1>9. CASE Restart
  BY <1>9, RestartKeeps
<1>10. QED
  BY <1>1, <1>2, <1>3, <1>4, <1>5, <1>6, <1>7, <1>8, <1>9 DEF Next, PassStep

\* The invariant of the sweep (reconcileKanban and what it keeps in the feed).
THEOREM KanbanInvariant == Spec => []KanbanInv
<1>1. QED
  BY InitKanbanInv, NextKanbanInv, PTL DEF Spec

\* Every variable of the sweep keeps its type (kanban.ts and the feed it writes).
THEOREM KanbanTypeCorrect == Spec => []TypeOK
<1>1. KanbanInv => TypeOK
  BY DEF KanbanInv
<1>2. QED
  BY <1>1, KanbanInvariant, PTL

\* What a card did is announced once per life of the process, as long as the
\* boards could be listed (the watermark set before the row, and the prune scoped
\* to the boards that were read).
THEOREM AnnouncedAtMostOnceIfListed == Spec => []AnnouncedOnceIfListed
<1>1. KanbanInv => AnnouncedOnceIfListed
  BY DEF KanbanInv, AnnouncedOnceIfListed
<1>2. QED
  BY <1>1, KanbanInvariant, PTL

-----------------------------------------------------------------------------
(* What the pass promises whoever asks for one. *)

Contract == INSTANCE Coalescing WITH on <- sweep, owed <- timer \/ dirty, busy <- Running

\* Only a pass leaves the dirty flag up.
DirtyInPass == (dirty => Running) /\ "at" \in DOMAIN pass

\* What the contract sees of each step, which is also why dirty is only up in a pass.
Serves ==
  /\ DirtyInPass'
  /\ Contract!Next \/ UNCHANGED Contract!vars

LEMMA Unseen ==
  ASSUME DirtyInPass, sweep' = sweep, timer' = timer, dirty' = dirty,
         Running' <=> Running, "at" \in DOMAIN pass'
  PROVE  Serves
  BY DEF Serves, DirtyInPass, Contract!vars

LEMMA NextServes == DirtyInPass /\ [Next]_vars => Serves
<1> SUFFICES ASSUME DirtyInPass, [Next]_vars PROVE Serves
  OBVIOUS
<1>1. ASSUME pass' = pass, sweep' = sweep, timer' = timer, dirty' = dirty PROVE Serves
  BY <1>1, Unseen DEF Running, DirtyInPass
<1>2. CASE \E c \in Cards : CardCreated(c) \/ CardMoves(c) \/ CardRemoved(c)
  BY <1>1, <1>2 DEF CardCreated, CardMoves, CardRemoved, CardBecomes, scheduler
<1>3. CASE BoardSwitched \/ CooldownFires \/ UNCHANGED vars
  BY <1>1, <1>3 DEF BoardSwitched, CooldownFires, scheduler, vars
<1>4. CASE StartKanbanSweep
  BY <1>4 DEF StartKanbanSweep, Schedule, Serves, DirtyInPass, Running,
              Contract!Next, Contract!Start
<1>5. CASE IntervalElapses
  BY <1>5 DEF IntervalElapses, Schedule, Serves, DirtyInPass, Running,
              Contract!Next, Contract!Ask
<1>6. CASE TimerFires
  <2>1. pass'.at = "boards" /\ "at" \in DOMAIN pass'
    BY <1>6 DEF TimerFires, Idle
  <2>2. QED
    BY <1>6, <2>1 DEF TimerFires, Serves, DirtyInPass, Running, Contract!Next, Contract!Begin
<1>7. ASSUME sweep' = sweep, timer' = timer, dirty' = dirty, Running,
             DOMAIN pass' = DOMAIN pass, pass'.at # "idle"
      PROVE  Serves
  BY <1>7, Unseen DEF Running, DirtyInPass
<1>8. ASSUME NEW ok \in BOOLEAN, BoardsAnswer(ok) PROVE Serves
  <2>1. DOMAIN pass' = DOMAIN pass /\ pass'.at = "board"
    BY <1>8 DEF BoardsAnswer, DirtyInPass
  <2>2. QED
    BY <1>7, <1>8, <2>1 DEF BoardsAnswer, Running, scheduler
<1>9. CASE BoardArrives
  <2>1. DOMAIN pass' = DOMAIN pass /\ pass'.at = "cards"
    BY <1>9 DEF BoardArrives, DirtyInPass
  <2>2. QED
    BY <1>7, <1>9, <2>1 DEF BoardArrives, Running, scheduler
<1>10. ASSUME NEW c \in Cards, TakeCard(c) PROVE Serves
  <2>1. DOMAIN pass' = DOMAIN pass /\ pass'.at = "cards"
    BY <1>10 DEF TakeCard, DirtyInPass
  <2>2. QED
    BY <1>7, <1>10, <2>1 DEF TakeCard, Running, scheduler
<1>11. CASE BoardDone \/ BoardFails
  <2>1. Continue /\ Running /\ sweep' = sweep
    BY <1>11 DEF BoardDone, BoardFails, Running
  <2>2. ASSUME NEW slug \in pass.todo,
               pass' = [pass EXCEPT !.at = "board", !.slug = slug, !.todo = @ \ {slug}],
               UNCHANGED <<feed, timer, dirty>>
        PROVE  Serves
    <3>1. DOMAIN pass' = DOMAIN pass /\ pass'.at = "board"
      BY <2>2 DEF DirtyInPass
    <3>2. QED
      BY <1>7, <2>1, <2>2, <3>1
  <2>3. ASSUME Leave PROVE Serves
    <3>1. pass'.at = "idle" /\ "at" \in DOMAIN pass'
      BY <2>3 DEF Leave, Idle
    <3>2. QED
      BY <2>1, <2>3, <3>1
         DEF Leave, Serves, DirtyInPass, Running, Contract!Next, Contract!End
  <2>4. QED
    BY <2>1, <2>2, <2>3 DEF Continue
<1>12. CASE Shutdown
  BY <1>12 DEF Shutdown, Serves, DirtyInPass, Running, Contract!Next, Contract!Stop
<1>13. CASE Restart
  <2>1. pass'.at = "idle" /\ "at" \in DOMAIN pass'
    BY <1>13 DEF Restart, Idle
  <2>2. QED
    BY <1>13, <2>1 DEF Restart, Serves, DirtyInPass, Running, Contract!Next, Contract!Stop
<1>14. QED
  BY <1>2, <1>3, <1>4, <1>5, <1>6, <1>8, <1>9, <1>10, <1>11, <1>12, <1>13
     DEF Next, PassStep

\* The kanban sweep keeps the contract of Coalescing, whichever boards fail to
\* answer: no interval that elapsed is forgotten but at a stop, and passes do not
\* overlap (scheduleKanbanSweep and the running and dirty flags).
THEOREM KanbanCoalesces == Spec => Contract!Spec
<1>1. Init => Contract!Init /\ DirtyInPass
  BY DEF Init, Idle, Running, DirtyInPass, Contract!Init
<1>2. DirtyInPass /\ [Next]_vars => DirtyInPass' /\ [Contract!Next]_(Contract!vars)
  BY NextServes DEF Serves
<1>3. QED
  BY <1>1, <1>2, PTL DEF Spec, Contract!Spec

=============================================================================
