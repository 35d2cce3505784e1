---------------------------- MODULE ScreenProofs ----------------------------
(***************************************************************************)
(* What holds of two parts of the phone's screens: of the Kanban board,    *)
(* for every set of boards and cards, any number of events, of boards      *)
(* picked and of requests that fail, and any number of attempts of the     *)
(* stream; of the overlays and the browser's history, for any number of    *)
(* overlays, back presses, navigations and late pops.                      *)
(***************************************************************************)
EXTENDS KanbanBoard, OverlayHistory, FiniteSetTheorems, SequenceTheorems, TLAPS

Switched == "switched" \in odd
Failed == "failed" \in odd
Moved == "pointer" \in odd
Overlapped == "overlap" \in odd

-----------------------------------------------------------------------------
(* A card that left. *)

\* A board has only cards that are at home there, and none that was deleted.
AtHome == \A b \in Boards : \A c \in hermes[b].cards : Home[c] = b
DeletedIsGone ==
  \A c \in Cards : deletion[c].at \in {"done", "ok"} \cup Settling
    => \A b \in Boards : c \notin hermes[b].cards

\* A page that was fetched is one the server had.
Fetched == \A k \in Keys : fetch[k].at = "answered" => fetch[k].page.id # -1

\* A deletion under way has a board, and this visit's has hidden its card on the
\* board it shows.
Keyed ==
  \A c \in Cards : /\ deletion[c].at # "none" => deletion[c].key \in Keys
                   /\ deletion[c].at = "sent" => deletion[c].to \in Keys
Hides ==
  \A c \in Cards : deletion[c].mine /\ deletion[c].at \in Open \cup Settling => c \in hidden
OnItsBoard ==
  ~Switched => \A c \in Cards : deletion[c].mine /\ deletion[c].at \in Open
    => deletion[c].key = sel /\ cache[sel] # NotLoaded

\* What a deletion waits for, or has waited for, lacks its card.
RefetchedWithout ==
  ~Switched /\ ~Failed /\ ~Overlapped =>
    \A c \in Cards : deletion[c].mine =>
      /\ deletion[c].at \in Settling \cup {"ok"} => c \notin fetch[deletion[c].key].page.cards
      /\ deletion[c].at = "ok" => c \notin cache[deletion[c].key].cards

GoneInv ==
  /\ TypeOK /\ AtHome /\ DeletedIsGone /\ Fetched
  /\ Keyed /\ Hides /\ OnItsBoard /\ RefetchedWithout

-----------------------------------------------------------------------------
(* What was meant. *)

\* Only a deletion that was taken back at once is taken back.
BackIsNone == \A c \in Cards : deletion[c].back => deletion[c].at = "none"

StillThere ==
  ~Failed => \A c \in Cards : deletion[c].at \in {"none", "waiting", "sent", "declined", "refused"}
    => c \in hermes[Home[c]].cards

\* Each page is one of its board.
PagesAtHome ==
  ~Moved => \A k \in Keys : \A c \in cache[k].cards \cup fetch[k].page.cards : Home[c] = BoardOf(k)

Aimed ==
  ~Switched /\ ~Failed /\ ~Moved => \A c \in Cards :
    /\ \A k \in Keys :
         (deletion[c].at = "waiting" /\ deletion[c].key = k) \/ (deletion[c].at = "sent" /\ deletion[c].to = k)
           => BoardOf(k) = Home[c]
    /\ deletion[c].at \notin {"declined", "refused"}

MeantInv == BackIsNone /\ StillThere /\ PagesAtHome /\ Aimed

-----------------------------------------------------------------------------
(* What a quiet stream means. *)

\* A key names one board throughout.
Steady(k) == k = Follow => ~Moved
Latest(k) == hermes[BoardOf(k)].id

\* Pages only get newer.
Ages ==
  \A k \in Keys : Steady(k) =>
    /\ cache[k].id <= Latest(k)
    /\ fetch[k].at = "answered" => cache[k].id <= fetch[k].page.id /\ fetch[k].page.id <= Latest(k)

\* An unloaded query has no page at all.
LoadedOrNot ==
  \A k \in Keys : /\ cache[k].id = -1 => cache[k] = NotLoaded
                  /\ fetch[k].at # "answered" => fetch[k].page = NotLoaded

\* A stream belongs to a screen, and asks for what follows its cursor.
Streaming ==
  sel # Nowhere /\ Steady(sel) =>
    /\ cursor <= Latest(sel)
    /\ stream.at = "open" => stream.of = BoardOf(sel) /\ stream.since <= Latest(sel)
    /\ stream.at = "connecting" => stream.since <= Latest(sel)
    /\ IF stream.frame = 0 THEN stream.since = 0 \/ stream.since <= cursor
       ELSE stream.at = "open" /\ stream.frame = stream.since

\* What the cursor has passed is on the board, or on its way there.
Covered ==
  sel # Nowhere /\ Steady(sel) /\ "joined" \notin odd =>
    \/ coalesce
    \/ fetch[sel].at = "asked"
    \/ fetch[sel].at = "answered" /\ cursor <= fetch[sel].page.id
    \/ fetch[sel].at = "idle" /\ (sel \in failed \/ (cursor <= cache[sel].id /\ cache[sel].id # -1))

QuietInv == Ages /\ LoadedOrNot /\ Streaming /\ Covered

-----------------------------------------------------------------------------
(* Types. *)

LEMMA Constants ==
  /\ NotLoaded \in Page /\ Idle \in Fetch /\ Asked \in Fetch
  /\ NoDeletion \in Deletion /\ NoStream \in Stream
  /\ Follow \in Keys /\ Nowhere \notin Keys
BY BoardAssumption DEF Page, Fetch, Deletion, Stream, Stages, Keys, NotLoaded, Idle, Asked, NoDeletion, NoStream

LEMMA OneField ==
  /\ \A d \in Deletion, x \in Stages : [d EXCEPT !.at = x] \in Deletion
  /\ \A d \in Deletion, x \in Keys \cup {Nowhere} : [d EXCEPT !.key = x] \in Deletion
  /\ \A d \in Deletion, x \in Keys \cup {Nowhere} : [d EXCEPT !.to = x] \in Deletion
  /\ \A d \in Deletion, x \in BOOLEAN : [d EXCEPT !.mine = x] \in Deletion
  /\ \A d \in Deletion, x \in BOOLEAN : [d EXCEPT !.last = x] \in Deletion
  /\ \A d \in Deletion, x \in BOOLEAN : [d EXCEPT !.back = x] \in Deletion
BY DEF Deletion

LEMMA OneStreamField ==
  /\ \A s \in Stream, x \in {"none", "connecting", "open", "retry", "quit"} : [s EXCEPT !.at = x] \in Stream
  /\ \A s \in Stream, x \in 0..MaxAttempts : [s EXCEPT !.attempts = x] \in Stream
  /\ \A s \in Stream, x \in Boards \cup {Nowhere} : [s EXCEPT !.of = x] \in Stream
  /\ \A s \in Stream, x \in Nat : [s EXCEPT !.since = x] \in Stream
  /\ \A s \in Stream, x \in Nat : [s EXCEPT !.frame = x] \in Stream
BY DEF Stream

\* Every board a key may name exists.
LEMMA BoardOfType ==
  ASSUME TypeOK, NEW k \in Keys
  PROVE  BoardOf(k) \in Boards
BY BoardAssumption DEF TypeOK, Keys, BoardOf

LEMMA EndedType ==
  ASSUME TypeOK, NEW c \in Cards, NEW how \in Stages
  PROVE  Ended(c, how) \in Deletion
<1>1. deletion[c] \in Deletion
  BY DEF TypeOK
<1>2. [deletion[c] EXCEPT !.at = how] \in Deletion
  BY <1>1, OneField
<1>3. [[deletion[c] EXCEPT !.at = how] EXCEPT !.to = Nowhere] \in Deletion
  BY <1>2, OneField
<1>4. [[[deletion[c] EXCEPT !.at = how] EXCEPT !.to = Nowhere] EXCEPT !.last = FALSE] \in Deletion
  BY <1>3, OneField
<1>5. QED
  BY <1>4 DEF Ended

LEMMA SettledType ==
  ASSUME TypeOK, NEW dels \in [Cards -> Deletion], NEW cs
  PROVE  Settled(dels, cs) \in [Cards -> Deletion]
<1>1. "ok" \in Stages
  BY DEF Stages
<1>2. QED
  BY <1>1, EndedType DEF Settled

LEMMA ChainedType ==
  ASSUME TypeOK, NEW k
  PROVE  Chained(k) \in [Cards -> Deletion]
<1> SUFFICES ASSUME NEW c \in Cards
             PROVE  Chained(k)[c] \in Deletion
  BY DEF Chained
<1>1. deletion[c] \in Deletion /\ Ended(c, "ok") \in Deletion
  BY EndedType DEF TypeOK, Stages
<1>2. [deletion[c] EXCEPT !.at = "carried"] \in Deletion
  BY <1>1, OneField DEF Stages
<1>3. QED
  BY <1>1, <1>2 DEF Chained

LEMMA SentType ==
  ASSUME TypeOK, NEW cs \in SUBSET Cards, NEW newest
  PROVE  Sent(cs, newest) \in [Cards -> Deletion]
<1> SUFFICES ASSUME NEW d \in Cards
             PROVE  Sent(cs, newest)[d] \in Deletion
  BY DEF Sent
<1>1. deletion[d] \in Deletion
  BY DEF TypeOK
<1>2. [[deletion[d] EXCEPT !.at = "sent"] EXCEPT !.to = deletion[d].key] \in Deletion
  <2>1. [deletion[d] EXCEPT !.at = "sent"] \in Deletion
    BY <1>1, OneField DEF Stages
  <2>2. deletion[d].key \in Keys \cup {Nowhere}
    BY <1>1 DEF Deletion
  <2>3. QED
    BY <2>1, <2>2, OneField
<1>3. [[[deletion[d] EXCEPT !.at = "sent"] EXCEPT !.to = deletion[d].key]
          EXCEPT !.last = (d \in newest)] \in Deletion
  <2>1. (d \in newest) \in BOOLEAN
    OBVIOUS
  <2> HIDE <1>1
  <2>2. QED
    BY <1>2, <2>1, OneField, Zenon
<1>4. [deletion[d] EXCEPT !.last = FALSE] \in Deletion
  BY <1>1, OneField
<1>5. QED
  BY <1>1, <1>3, <1>4 DEF Sent

\* What an invalidation leaves.
LEMMA InvalidateType ==
  ASSUME TypeOK, NEW k \in Keys, Invalidate(k)
  PROVE  /\ fetch' \in [Keys -> Fetch] /\ invalid' \subseteq Keys /\ odd' \subseteq Odd
BY Constants DEF TypeOK, Invalidate, Odd

LEMMA ObserveType ==
  ASSUME TypeOK, NEW k \in Keys, Observe(k)
  PROVE  /\ fetch' \in [Keys -> Fetch]
         /\ cache' \in [Keys -> Page] /\ invalid' \subseteq Keys /\ failed' \subseteq Keys
BY Constants DEF TypeOK, Observe

LEMMA ConnectingType ==
  ASSUME NEW c \in Nat \cup {NoCursor}, NEW n \in 0..MaxAttempts
  PROVE  Connecting(c, n) \in Stream
<1>1. [NoStream EXCEPT !.at = "connecting"] \in Stream
  BY Constants, OneStreamField
<1>2. [[NoStream EXCEPT !.at = "connecting"] EXCEPT !.attempts = n] \in Stream
  BY <1>1, OneStreamField
<1>3. (IF c = NoCursor THEN 0 ELSE c) \in Nat
  OBVIOUS
<1>4. QED
  BY <1>2, <1>3, OneStreamField DEF Connecting

LEMMA OpenStreamType ==
  ASSUME TypeOK, NEW k \in Keys, OpenStream(k)
  PROVE  stream' \in Stream /\ coalesce' \in BOOLEAN /\ cursor' \in Nat \cup {NoCursor}
<1>1. Seed(k) \in Nat \cup {NoCursor}
  BY DEF TypeOK, Seed, Page, NoCursor
<1>2. 0 \in 0..MaxAttempts
  BY BoardAssumption
<1>3. QED
  BY <1>1, <1>2, ConnectingType DEF OpenStream

LEMMA FetchEndsType ==
  ASSUME TypeOK, NEW k \in Keys, FetchEnds(k)
  PROVE  /\ fetch' \in [Keys -> Fetch] /\ hidden' \subseteq Cards
         /\ deletion' \in [Cards -> Deletion]
<1>1. deletion' \in [Cards -> Deletion]
  BY SettledType DEF FetchEnds, TypeOK
<1>2. QED
  BY <1>1, Constants DEF FetchEnds, TypeOK

LEMMA FetchStepType ==
  ASSUME TypeOK, NEW k \in Keys, Read(k) \/ FetchArrives(k) \/ FetchFails(k)
  PROVE  TypeOK'
<1>1. CASE Read(k)
  <2>1. BoardOf(k) \in Boards
    BY BoardOfType
  <2>2. [at |-> "answered", page |-> hermes[BoardOf(k)]] \in Fetch
    <3>1. hermes[BoardOf(k)] \in [id : Nat, cards : SUBSET Cards]
      BY <2>1 DEF TypeOK
    <3>2. QED
      BY <3>1 DEF Fetch, Page
  <2>3. QED
    BY <1>1, <2>2 DEF Read, TypeOK, server, events, seen
<1>2. CASE FetchArrives(k)
  <2>1. fetch[k].page \in Page
    BY DEF TypeOK, Fetch
  <2>2. cursor' \in Nat \cup {NoCursor}
    BY <1>2, <2>1 DEF FetchArrives, Seeded, TypeOK, Page, NoCursor
  <2>3. sel = Nowhere => cursor' = NoCursor
    BY <1>2, Constants DEF FetchArrives, Seeded, TypeOK
  <2>4. QED
    BY <1>2, <2>1, <2>2, <2>3, FetchEndsType DEF FetchArrives, TypeOK, server, seen
<1>3. CASE FetchFails(k)
  <2>1. odd' \subseteq Odd /\ happened' \in 0..MaxHappens /\ failed' \subseteq Keys
    BY <1>3, BoardAssumption DEF FetchFails, TypeOK, Odd
  <2>2. QED
    BY <1>3, <2>1, FetchEndsType DEF FetchFails, TypeOK, server, events
<1>4. QED
  BY <1>1, <1>2, <1>3

LEMMA StreamStepType ==
  ASSUME TypeOK,
         \/ StreamOpens \/ RetryFires \/ PluginSends \/ FrameArrives \/ Flush \/ Poll
         \/ \E refused \in BOOLEAN : StreamDown(refused)
  PROVE  TypeOK'
<1>s. stream \in Stream
  BY DEF TypeOK
<1>1. CASE StreamOpens
  <2>1. BoardOf(sel) \in Boards
    BY <1>1, BoardOfType DEF StreamOpens, TypeOK, NoStream
  <2>2. [stream EXCEPT !.at = "open"] \in Stream
    BY <1>s, OneStreamField
  <2>3. 0 \in 0..MaxAttempts
    BY BoardAssumption
  <2>4. [[stream EXCEPT !.at = "open"] EXCEPT !.attempts = 0] \in Stream
    BY <2>2, <2>3, OneStreamField
  <2>5. stream' \in Stream
    BY <1>1, <2>1, <2>4, OneStreamField DEF StreamOpens
  <2>6. stream'.of = BoardOf(sel) /\ sel # Nowhere
    BY <1>1, <1>s DEF StreamOpens, TypeOK, NoStream, Stream
  <2>7. QED
    BY <1>1, <2>1, <2>5, <2>6, BoardAssumption DEF StreamOpens, TypeOK, server, query, seen
<1>2. CASE RetryFires
  <2>1. stream.attempts \in 0..MaxAttempts
    BY <1>s DEF Stream
  <2>2. stream' \in Stream
    BY <1>2, <2>1, ConnectingType DEF RetryFires, TypeOK
  <2>3. sel # Nowhere /\ stream'.at = "connecting"
    BY <1>2 DEF RetryFires, Connecting, TypeOK, NoStream
  <2>4. QED
    BY <1>2, <2>2, <2>3 DEF RetryFires, TypeOK, server, query, seen
<1>3. CASE PluginSends
  <2>1. stream' \in Stream
    <3>1. stream.of \in Boards \cup {Nowhere}
      BY <1>s DEF Stream
    <3>2. CASE stream.of \in Boards
      <4>1. hermes[stream.of].id \in Nat
        BY <3>2 DEF TypeOK
      <4>2. QED
        <5>1. [stream EXCEPT !.frame = hermes[stream.of].id] \in Stream
          BY <1>s, <4>1, OneStreamField
        <5>2. QED
          BY <1>3, <4>1, <5>1, OneStreamField DEF PluginSends
    <3>3. stream.of \in Boards
      BY <1>3, <1>s DEF PluginSends, TypeOK, Stream
    <3>4. QED
      BY <3>2, <3>3
  <2>2. sel # Nowhere /\ stream'.of = stream.of /\ stream.of # Nowhere
    BY <1>3, <1>s DEF PluginSends, TypeOK, NoStream, Stream
  <2>3. QED
    BY <1>3, <2>1, <2>2 DEF PluginSends, TypeOK, server, query, seen
<1>4. CASE FrameArrives
  <2>1. stream' \in Stream
    BY <1>4, <1>s, OneStreamField DEF FrameArrives
  <2>2. cursor' \in Nat
    BY <1>4, <1>s DEF FrameArrives, Stream
  <2>3. sel # Nowhere /\ stream'.at = stream.at /\ stream'.of = stream.of
    BY <1>4, <1>s DEF FrameArrives, TypeOK, NoStream, Stream
  <2>4. QED
    BY <1>4, <2>1, <2>2, <2>3 DEF FrameArrives, TypeOK, server, query, seen
<1>5. CASE Flush
  <2>1. sel \in Keys
    BY <1>5 DEF Flush, TypeOK
  <2>2. deletion' \in [Cards -> Deletion]
    BY <1>5, ChainedType DEF Flush
  <2>3. QED
    BY <1>5, <2>1, <2>2, InvalidateType DEF Flush, TypeOK, server
<1>6. CASE Poll
  <2>1. fetch' \in [Keys -> Fetch]
    BY <1>6, Constants DEF Poll, TypeOK
  <2>2. QED
    BY <1>6, <2>1 DEF Poll, TypeOK, server, events, seen
<1>7. ASSUME NEW refused \in BOOLEAN, StreamDown(refused) PROVE TypeOK'
  <2>1. stream' \in Stream
    <3>1. [NoStream EXCEPT !.at = "quit"] \in Stream
      BY Constants, OneStreamField
    <3>2. [NoStream EXCEPT !.at = "retry"] \in Stream
      BY Constants, OneStreamField
    <3>3. stream.attempts + 1 < MaxAttempts => stream.attempts + 1 \in 0..MaxAttempts
      BY <1>s, BoardAssumption DEF Stream
    <3>4. CASE refused \/ stream.attempts + 1 >= MaxAttempts
      BY <1>7, <3>1, <3>4 DEF StreamDown
    <3>5. CASE ~refused /\ ~(stream.attempts + 1 >= MaxAttempts)
      <4>1. stream.attempts \in Nat /\ MaxAttempts \in Nat
        BY <1>s, BoardAssumption DEF Stream
      <4>2. stream.attempts + 1 \in 0..MaxAttempts
        BY <3>5, <4>1
      <4>3. QED
        BY <1>7, <3>2, <3>5, <4>2, OneStreamField DEF StreamDown
    <3>6. QED
      BY <3>4, <3>5
  <2>2. sel # Nowhere /\ stream'.at # "open"
    BY <1>7 DEF StreamDown, TypeOK, NoStream
  <2>3. QED
    BY <1>7, <2>1, <2>2 DEF StreamDown, TypeOK, server, query, seen
<1>8. QED
  BY <1>1, <1>2, <1>3, <1>4, <1>5, <1>6, <1>7

LEMMA DeletionStepType ==
  ASSUME TypeOK, Keyed, NEW c \in Cards,
         \/ Delete(c) \/ Undo(c) \/ WindowEnds(c) \/ Serve(c) \/ Deleted(c)
         \/ DeleteRefused(c) \/ DeleteLost(c)
  PROVE  TypeOK'
<1>s. deletion[c] \in Deletion /\ deletion \in [Cards -> Deletion]
  BY DEF TypeOK
<1>1. CASE Delete(c)
  <2>1. sel \in Keys
    BY <1>1 DEF Delete, Shown, TypeOK
  <2>2. [NoDeletion EXCEPT !.at = "waiting"] \in Deletion
    BY Constants, OneField DEF Stages
  <2>3. [[NoDeletion EXCEPT !.at = "waiting"] EXCEPT !.key = sel] \in Deletion
    BY <2>1, <2>2, OneField
  <2>4. [[[NoDeletion EXCEPT !.at = "waiting"] EXCEPT !.key = sel] EXCEPT !.mine = TRUE] \in Deletion
    BY <2>3, OneField
  <2>5. deletion' \in [Cards -> Deletion]
    BY <1>1, <1>s, <2>4 DEF Delete
  <2>6. QED
    BY <1>1, <2>5 DEF Delete, TypeOK, server, query, events, seen
<1>2. CASE Undo(c)
  <2>1. [NoDeletion EXCEPT !.back = TRUE] \in Deletion
    BY Constants, OneField
  <2>2. deletion' \in [Cards -> Deletion]
    BY <1>2, <1>s, <2>1 DEF Undo
  <2>3. QED
    BY <1>2, <2>2 DEF Undo, TypeOK, server, query, events, seen
<1>3. CASE WindowEnds(c)
  BY <1>3, SentType DEF WindowEnds, TypeOK, server, query, events, seen
<1>4. CASE Serve(c)
  <2> DEFINE b == BoardOf(deletion[c].to)
  <2>1. [deletion[c] EXCEPT !.at = IF c \in hermes[b].cards THEN "done" ELSE "declined"] \in Deletion
    BY <1>s, OneField DEF Stages
  <2>2. deletion' \in [Cards -> Deletion]
    BY <1>4, <1>s, <2>1 DEF Serve
  <2>3. hermes' \in [Boards -> [id : Nat, cards : SUBSET Cards]]
    <3> HIDE DEF b
    <3>1. hermes' = [hermes EXCEPT ![b].cards = hermes[b].cards \ {c}]
      BY <1>4 DEF Serve, b
    <3>2. \A r \in [id : Nat, cards : SUBSET Cards], x \in SUBSET Cards :
            [r EXCEPT !.cards = x] \in [id : Nat, cards : SUBSET Cards]
      OBVIOUS
    <3>3. b \in Boards => hermes[b] \in [id : Nat, cards : SUBSET Cards]
      BY DEF TypeOK
    <3>4. b \in Boards => [hermes[b] EXCEPT !.cards = hermes[b].cards \ {c}] \in [id : Nat, cards : SUBSET Cards]
      BY <3>2, <3>3
    <3>5. QED
      BY <3>1, <3>4 DEF TypeOK
  <2>4. QED
    BY <1>4, <2>2, <2>3 DEF Serve, TypeOK, query, events, seen
<1>5. CASE Deleted(c)
  <2>1. [deletion[c] EXCEPT !.at = "settling"] \in Deletion
    BY <1>s, OneField DEF Stages
  <2>2. Ended(c, "ok") \in Deletion /\ Chained(deletion[c].key) \in [Cards -> Deletion]
    BY EndedType, ChainedType DEF Stages
  <2>3. deletion' \in [Cards -> Deletion]
    BY <1>5, <2>1, <2>2 DEF Deleted
  <2>4. deletion[c].key \in Keys
    BY <1>5 DEF Deleted, Keyed
  <2>5. QED
    BY <1>5, <2>3, <2>4, InvalidateType DEF Deleted, TypeOK, server, events
<1>6. CASE DeleteRefused(c)
  <2>1. Ended(c, "refused") \in Deletion
    BY EndedType DEF Stages
  <2>2. deletion' \in [Cards -> Deletion]
    BY <1>6, <1>s, <2>1 DEF DeleteRefused
  <2>3. QED
    BY <1>6, <2>2 DEF DeleteRefused, TypeOK, server, query, events, seen
<1>7. CASE DeleteLost(c)
  <2>1. Ended(c, "refused") \in Deletion
    BY EndedType DEF Stages
  <2>2. deletion' \in [Cards -> Deletion]
    BY <1>7, <1>s, <2>1 DEF DeleteLost
  <2>3. odd' \subseteq Odd /\ happened' \in 0..MaxHappens
    BY <1>7, BoardAssumption DEF DeleteLost, TypeOK, Odd
  <2>4. QED
    BY <1>7, <2>2, <2>3 DEF DeleteLost, TypeOK, server, query, events
<1>8. QED
  BY <1>1, <1>2, <1>3, <1>4, <1>5, <1>6, <1>7

LEMMA OtherStepType ==
  ASSUME TypeOK,
         \/ PageHides \/ Leave \/ Enter \/ PointerMoves
         \/ \E k \in Keys : Pick(k)
         \/ \E b \in Boards : CardsMove(b)
  PROVE  TypeOK'
<1>s. deletion \in [Cards -> Deletion]
  BY DEF TypeOK
<1>1. CASE PageHides
  <2>1. deletion' \in [Cards -> Deletion]
    <3> DEFINE waiting == {c \in Cards : deletion[c].at = "waiting"}
    <3>1. PICK newest \in SUBSET waiting : deletion' = Sent(waiting, newest)
      BY <1>1 DEF PageHides
    <3>2. waiting \in SUBSET Cards
      OBVIOUS
    <3> HIDE DEF waiting
    <3>3. QED
      BY <3>1, <3>2, SentType
  <2>2. QED
    BY <1>1, <2>1 DEF PageHides, TypeOK, server, query, events, seen
<1>2. CASE Leave
  <2>1. \A c \in Cards : [[deletion[c] EXCEPT !.mine = FALSE] EXCEPT !.last = FALSE] \in Deletion
    BY <1>s, OneField
  <2>2. deletion' \in [Cards -> Deletion]
    BY <1>2, <2>1 DEF Leave
  <2>3. QED
    BY <1>2, <2>2, Constants DEF Leave, CloseStream, TypeOK, server, query, seen, NoCursor, NoStream
<1>3. CASE Enter
  <2>1. stream'.at = "connecting"
    BY <1>3 DEF Enter, OpenStream, Connecting, NoStream
  <2>2. QED
    BY <1>3, <2>1, Constants, ObserveType, OpenStreamType DEF Enter, TypeOK, server, seen
<1>4. CASE PointerMoves
  <2>1. pointer' \in Boards /\ odd' \subseteq Odd /\ happened' \in 0..MaxHappens
    BY <1>4, BoardAssumption DEF PointerMoves, TypeOK, Odd
  <2>2. QED
    BY <1>4, <2>1 DEF PointerMoves, TypeOK, query, events
<1>5. ASSUME NEW k \in Keys, Pick(k) PROVE TypeOK'
  <2>1. \A c \in Cards : [deletion[c] EXCEPT !.key = k] \in Deletion
    BY <1>s, OneField
  <2>2. deletion' \in [Cards -> Deletion]
    BY <1>5, <1>s, <2>1 DEF Pick
  <2>3. odd' \subseteq Odd /\ happened' \in 0..MaxHappens
    BY <1>5, BoardAssumption DEF Pick, TypeOK, Odd
  <2>4. stream'.at = "connecting"
    BY <1>5 DEF Pick, OpenStream, Connecting, NoStream
  <2>5. QED
    BY <1>5, <2>2, <2>3, <2>4, Constants, ObserveType, OpenStreamType DEF Pick, TypeOK, server
<1>6. ASSUME NEW b \in Boards, CardsMove(b) PROVE TypeOK'
  <2>1. hermes' \in [Boards -> [id : Nat, cards : SUBSET Cards]]
    BY <1>6 DEF CardsMove, TypeOK
  <2>2. happened' \in 0..MaxHappens
    BY <1>6, BoardAssumption DEF CardsMove, TypeOK
  <2>3. QED
    BY <1>6, <2>1, <2>2 DEF CardsMove, TypeOK, query, events
<1>7. QED
  BY <1>1, <1>2, <1>3, <1>4, <1>5, <1>6

LEMMA InitType == Init => TypeOK
<1> SUFFICES ASSUME Init
             PROVE  TypeOK
  OBVIOUS
<1>1. hermes \in [Boards -> [id : Nat, cards : SUBSET Cards]]
  BY BoardAssumption DEF Init
<1>2. cache \in [Keys -> Page] /\ fetch \in [Keys -> Fetch] /\ deletion \in [Cards -> Deletion]
  BY Constants DEF Init
<1>3. stream \in Stream /\ stream.at # "open"
  BY Constants DEF Init, NoStream
<1>4. happened \in 0..MaxHappens /\ odd \subseteq Odd
  BY BoardAssumption DEF Init
<1>5. QED
  BY <1>1, <1>2, <1>3, <1>4, BoardAssumption DEF Init, TypeOK, NoCursor

LEMMA StepType == TypeOK /\ Keyed /\ [Next]_vars => TypeOK'
<1> SUFFICES ASSUME TypeOK, Keyed, [Next]_vars
             PROVE  TypeOK'
  OBVIOUS
<1>1. CASE UNCHANGED vars
  BY <1>1 DEF TypeOK, vars, server, query, events, seen
<1>2. CASE Next
  BY <1>2, FetchStepType, StreamStepType, DeletionStepType, OtherStepType DEF Next
<1>3. QED
  BY <1>1, <1>2

LEMMA EndedFields ==
  ASSUME TypeOK, NEW c \in Cards, NEW how \in Stages
  PROVE  /\ Ended(c, how).at = how /\ Ended(c, how).key = deletion[c].key
         /\ Ended(c, how).mine = deletion[c].mine /\ Ended(c, how).back = deletion[c].back
BY DEF TypeOK, Ended, Deletion

LEMMA SettledFields ==
  ASSUME TypeOK, NEW dels \in [Cards -> Deletion], NEW cs, NEW c \in Cards
  PROVE  /\ c \notin cs => Settled(dels, cs)[c] = dels[c]
         /\ c \in cs => /\ Settled(dels, cs)[c].at = "ok"
                        /\ Settled(dels, cs)[c].key = deletion[c].key
                        /\ Settled(dels, cs)[c].mine = deletion[c].mine
                        /\ Settled(dels, cs)[c].back = deletion[c].back
<1>1. "ok" \in Stages
  BY DEF Stages
<1>2. QED
  BY <1>1, EndedFields DEF Settled

\* An invalidation lets go of those whose refetch it replaces for the second time, and
\* has those whose refetch it replaces for the first time await the new one.
LEMMA ChainedFields ==
  ASSUME TypeOK, NEW k, NEW c \in Cards
  PROVE  /\ Chained(k)[c].key = deletion[c].key
         /\ Chained(k)[c].mine = deletion[c].mine
         /\ Chained(k)[c].back = deletion[c].back
         /\ c \in Replaced(k) => Chained(k)[c].at = "ok"
         /\ c \in Carried(k) => Chained(k)[c].at = "carried"
         /\ c \notin Replaced(k) \cup Carried(k) => Chained(k)[c] = deletion[c]
<1>1. deletion[c] \in Deletion
  BY DEF TypeOK
<1>2. Ended(c, "ok").at = "ok" /\ Ended(c, "ok").key = deletion[c].key
      /\ Ended(c, "ok").mine = deletion[c].mine /\ Ended(c, "ok").back = deletion[c].back
  BY EndedFields DEF Stages
<1>3. c \in Carried(k) => c \notin Replaced(k)
  BY DEF Carried, Replaced
<1>4. QED
  BY <1>1, <1>2, <1>3 DEF Chained, Deletion

LEMMA SentFields ==
  ASSUME TypeOK, NEW cs \in SUBSET Cards, NEW newest, NEW c \in Cards
  PROVE  /\ Sent(cs, newest)[c].key = deletion[c].key
         /\ Sent(cs, newest)[c].mine = deletion[c].mine
         /\ Sent(cs, newest)[c].back = deletion[c].back
         /\ Sent(cs, newest)[c].at = IF c \in cs THEN "sent" ELSE deletion[c].at
         /\ Sent(cs, newest)[c].to = IF c \in cs THEN deletion[c].key ELSE deletion[c].to
<1>1. deletion[c] \in Deletion
  BY DEF TypeOK
<1>2. QED
  BY <1>1 DEF Sent, Deletion

-----------------------------------------------------------------------------
(* The life of one deletion: what a step may do to it. *)

Goes(c, from, to) ==
  /\ deletion[c].at \in from /\ deletion'[c].at \in to
  /\ deletion'[c].key = deletion[c].key
  /\ deletion'[c].mine = deletion[c].mine
  /\ deletion'[c].back = deletion[c].back

Kept(c) == Goes(c, Stages, {deletion[c].at}) /\ deletion'[c].to = deletion[c].to

Begins(c) ==
  /\ deletion[c].at \in {"none", "refused"} /\ deletion'[c].at = "waiting"
  /\ deletion'[c].key = sel /\ sel \in Keys /\ deletion'[c].mine /\ ~deletion'[c].back
  /\ c \in cache[sel].cards /\ c \in hidden'
  /\ UNCHANGED <<server, query, sel, odd>>

TakenBack(c) ==
  /\ deletion[c].at = "waiting" /\ deletion'[c].at = "none" /\ ~deletion'[c].mine
  /\ UNCHANGED <<server, query, sel, odd>>

IsSent(c) ==
  /\ Goes(c, {"waiting"}, {"sent"}) /\ deletion'[c].to = deletion[c].key
  /\ UNCHANGED <<server, query, sel, odd>>

IsServed(c) ==
  LET b == BoardOf(deletion[c].to)
  IN  /\ Goes(c, {"sent"}, {IF c \in hermes[b].cards THEN "done" ELSE "declined"})
      /\ hermes' = [hermes EXCEPT ![b].cards = @ \ {c}]
      /\ UNCHANGED <<pointer, query, sel, odd>>

IsAccepted(c) ==
  /\ Goes(c, {"done"}, {IF deletion[c].key = sel THEN "settling" ELSE "ok"})
  /\ Invalidate(deletion[c].key)
  /\ UNCHANGED <<server, cache, sel>>

IsCarried(c) ==
  /\ Goes(c, {"settling"}, {"carried"})
  /\ fetch' = [fetch EXCEPT ![deletion[c].key] = Asked]
  /\ UNCHANGED <<server, cache, sel>>

IsSettled(c) ==
  /\ Goes(c, Settling, {"ok"})
  /\ \/ FetchArrives(deletion[c].key)
     \/ "failed" \in odd' \/ "overlap" \in odd'
  /\ UNCHANGED server

IsRefused(c) ==
  /\ \/ Goes(c, {"declined"}, {"refused"})
     \/ Goes(c, {"sent", "done"}, {"refused"}) /\ "failed" \in odd'
  /\ UNCHANGED server

Follows(c) ==
  /\ deletion[c].mine /\ deletion[c].at \in Open /\ "switched" \in odd'
  /\ deletion'[c].at = deletion[c].at /\ deletion'[c].key \in Keys
  /\ deletion'[c].to = deletion[c].to /\ deletion'[c].back = deletion[c].back
  /\ UNCHANGED server

IsLeft(c) ==
  /\ deletion'[c].at = deletion[c].at /\ deletion'[c].key = deletion[c].key
  /\ deletion'[c].to = deletion[c].to /\ deletion'[c].back = deletion[c].back
  /\ ~deletion'[c].mine
  /\ UNCHANGED <<server, query, odd>>

Life(c) ==
  \/ Kept(c) \/ Begins(c) \/ TakenBack(c) \/ IsSent(c) \/ IsServed(c)
  \/ IsAccepted(c) \/ IsCarried(c) \/ IsSettled(c) \/ IsRefused(c) \/ Follows(c) \/ IsLeft(c)

LEMMA SameIsKept ==
  ASSUME TypeOK, NEW c \in Cards, deletion'[c] = deletion[c]
  PROVE  Kept(c)
BY DEF TypeOK, Deletion, Kept, Goes

\* An invalidation settles a card that awaits its key, and says so, or has it await
\* the new refetch; it leaves every other card as it is.
LEMMA LifeOfAnInvalidation ==
  ASSUME TypeOK, NEW k \in Keys, Invalidate(k), UNCHANGED <<server, cache, sel>>,
         NEW c \in Cards, deletion'[c] = Chained(k)[c]
  PROVE  Life(c)
<1>1. CASE c \in Replaced(k)
  <2>1. deletion[c].at \in Settling /\ "overlap" \in odd'
    BY <1>1 DEF Invalidate, Replaced, Awaiting
  <2>2. Goes(c, Settling, {"ok"})
    BY <1>1, <2>1, ChainedFields DEF Goes
  <2>3. QED
    BY <2>1, <2>2 DEF IsSettled, Life
<1>2. CASE c \in Carried(k)
  <2>1. deletion[c].at = "settling" /\ deletion[c].key = k /\ Refetches(k)
    BY <1>2 DEF Carried, Awaiting
  <2>2. Goes(c, {"settling"}, {"carried"})
    BY <1>2, <2>1, ChainedFields DEF Goes
  <2>3. QED
    BY <2>1, <2>2 DEF IsCarried, Invalidate, Life
<1>3. CASE c \notin Replaced(k) \cup Carried(k)
  BY <1>3, ChainedFields, SameIsKept DEF Life
<1>4. QED
  BY <1>1, <1>2, <1>3

LEMMA LifeOfAFetch ==
  ASSUME TypeOK, NEW k \in Keys, FetchArrives(k) \/ FetchFails(k), NEW c \in Cards
  PROVE  Life(c)
<1>1. deletion \in [Cards -> Deletion]
  BY DEF TypeOK
<1>2. deletion' = Settled(deletion, Awaiting(k))
  BY DEF FetchArrives, FetchFails, FetchEnds
<1>3. CASE c \notin Awaiting(k)
  BY <1>1, <1>2, <1>3, SettledFields, SameIsKept DEF Life
<1>4. CASE c \in Awaiting(k)
  <2>1. deletion[c].at \in Settling /\ deletion[c].key = k
    BY <1>4 DEF Awaiting
  <2>2. Goes(c, Settling, {"ok"})
    BY <1>1, <1>2, <1>4, <2>1, SettledFields DEF Goes
  <2>3. FetchArrives(k) \/ "failed" \in odd'
    BY DEF FetchFails
  <2>4. UNCHANGED server
    BY DEF FetchArrives, FetchFails
  <2>5. QED
    BY <2>1, <2>2, <2>3, <2>4 DEF IsSettled, Life
<1>5. QED
  BY <1>3, <1>4

LEMMA LifeOfAFlush ==
  ASSUME TypeOK, Flush, NEW c \in Cards
  PROVE  Life(c)
<1>1. /\ deletion' = Chained(sel) /\ Invalidate(sel) /\ sel \in Keys
      /\ UNCHANGED <<server, cache, sel>>
  BY DEF Flush, TypeOK
<1>2. QED
  BY <1>1, LifeOfAnInvalidation

LEMMA LifeOfAnAcceptedDeletion ==
  ASSUME TypeOK, Keyed, NEW d \in Cards, Deleted(d), NEW c \in Cards
  PROVE  Life(c)
<1> DEFINE k == deletion[d].key
           own == IF k = sel THEN [deletion[d] EXCEPT !.at = "settling"] ELSE Ended(d, "ok")
<1>1. deletion[d] \in Deletion /\ deletion[d].at = "done" /\ k \in Keys
  BY DEF TypeOK, Deleted, Keyed
<1>2. Chained(k) \in [Cards -> Deletion]
  BY ChainedType
<1>3. deletion' = [Chained(k) EXCEPT ![d] = own] /\ Invalidate(k) /\ UNCHANGED <<server, cache, sel>>
  BY DEF Deleted
<1>4. /\ own.at = (IF k = sel THEN "settling" ELSE "ok") /\ own.key = k
      /\ own.mine = deletion[d].mine /\ own.back = deletion[d].back
  BY <1>1, EndedFields DEF Deletion, Stages
<1> HIDE DEF own
<1>5. CASE c = d
  <2>1. deletion'[c] = own
    BY <1>2, <1>3, <1>5
  <2>2. Goes(c, {"done"}, {IF k = sel THEN "settling" ELSE "ok"})
    BY <1>1, <1>4, <1>5, <2>1 DEF Goes
  <2>3. QED
    BY <1>3, <1>5, <2>2 DEF IsAccepted, Life
<1>6. CASE c # d
  <2>1. deletion'[c] = Chained(k)[c]
    BY <1>2, <1>3, <1>6
  <2>2. QED
    BY <1>1, <1>3, <2>1, LifeOfAnInvalidation
<1>7. QED
  BY <1>5, <1>6

LEMMA LifeOfTheOthers ==
  ASSUME TypeOK, NEW d \in Cards, NEW c \in Cards,
         \/ Delete(d) \/ Undo(d) \/ WindowEnds(d) \/ Serve(d) \/ DeleteRefused(d) \/ DeleteLost(d)
  PROVE  Life(c)
<1>1. deletion \in [Cards -> Deletion] /\ deletion[c] \in Deletion
  BY DEF TypeOK
<1>2. CASE WindowEnds(d)
  <2>1. deletion' = Sent({d}, {d}) /\ deletion[d].at = "waiting"
        /\ UNCHANGED <<server, query, sel, odd>>
    BY <1>2 DEF WindowEnds, seen
  <2>2. CASE c = d
    BY <2>1, <2>2, SentFields DEF IsSent, Goes, Life
  <2>3. CASE c # d
    BY <1>1, <2>1, <2>3, SentFields DEF Kept, Goes, Life, Deletion
  <2>4. QED
    BY <2>2, <2>3
<1>3. CASE c # d
  <2>1. CASE ~WindowEnds(d)
    <3>1. deletion'[c] = deletion[c]
      BY <1>1, <1>3, <2>1 DEF Delete, Undo, Serve, DeleteRefused, DeleteLost
    <3>2. QED
      BY <3>1, SameIsKept DEF Life
  <2>2. QED
    BY <1>2, <2>1
<1>4. CASE c = d /\ Delete(d)
  <2>1. deletion'[c] = [NoDeletion EXCEPT !.at = "waiting", !.key = sel, !.mine = TRUE]
    BY <1>1, <1>4 DEF Delete
  <2>2. sel \in Keys /\ c \in cache[sel].cards
    BY <1>4 DEF Delete, Shown, TypeOK
  <2>3. QED
    BY <1>4, <2>1, <2>2 DEF Delete, Begins, Life, NoDeletion, seen
<1>5. CASE c = d /\ Undo(d)
  <2>1. deletion'[c] = [NoDeletion EXCEPT !.back = TRUE]
    BY <1>1, <1>5 DEF Undo
  <2>2. QED
    BY <1>5, <2>1 DEF Undo, TakenBack, Life, NoDeletion, seen
<1>6. CASE c = d /\ Serve(d)
  <2> DEFINE b == BoardOf(deletion[c].to)
             at == IF c \in hermes[b].cards THEN "done" ELSE "declined"
  <2>1. deletion'[c] = [deletion[c] EXCEPT !.at = at]
    BY <1>1, <1>6 DEF Serve
  <2>2. deletion[c].at = "sent" /\ hermes' = [hermes EXCEPT ![b].cards = @ \ {c}]
        /\ UNCHANGED <<pointer, query, sel, odd>>
    BY <1>6 DEF Serve, seen
  <2> HIDE DEF at
  <2>3. Goes(c, {"sent"}, {at})
    BY <1>1, <2>1, <2>2 DEF Goes, Deletion
  <2>4. QED
    BY <2>2, <2>3 DEF at, IsServed, Life
<1>7. CASE c = d /\ (DeleteRefused(d) \/ DeleteLost(d))
  <2>1. deletion'[c] = Ended(c, "refused")
    BY <1>1, <1>7 DEF DeleteRefused, DeleteLost
  <2>2. "refused" \in Stages
    BY DEF Stages
  <2>3. Goes(c, {deletion[c].at}, {"refused"})
    BY <2>1, <2>2, EndedFields DEF Goes
  <2>4. \/ deletion[c].at = "declined"
        \/ deletion[c].at \in {"sent", "done"} /\ "failed" \in odd'
    BY <1>7 DEF DeleteRefused, DeleteLost
  <2>5. UNCHANGED server
    BY <1>7 DEF DeleteRefused, DeleteLost
  <2>6. QED
    BY <2>3, <2>4, <2>5 DEF Goes, IsRefused, Life
<1>8. QED
  BY <1>2, <1>3, <1>4, <1>5, <1>6, <1>7

LEMMA LifeOfAVisit ==
  ASSUME TypeOK, NEW c \in Cards,
         PageHides \/ Leave \/ Enter \/ \E k \in Keys : Pick(k)
  PROVE  Life(c)
<1>1. deletion \in [Cards -> Deletion] /\ deletion[c] \in Deletion
  BY DEF TypeOK
<1>2. CASE PageHides
  <2> DEFINE waiting == {d \in Cards : deletion[d].at = "waiting"}
  <2>1. PICK newest \in SUBSET waiting : deletion' = Sent(waiting, newest)
    BY <1>2 DEF PageHides
  <2>2. UNCHANGED <<server, query, sel, odd>>
    BY <1>2 DEF PageHides, seen
  <2>3. waiting \in SUBSET Cards /\ (c \in waiting <=> deletion[c].at = "waiting")
    OBVIOUS
  <2> HIDE DEF waiting
  <2>4. CASE c \in waiting
    BY <2>1, <2>2, <2>3, <2>4, SentFields DEF IsSent, Goes, Life
  <2>5. CASE c \notin waiting
    BY <1>1, <2>1, <2>3, <2>5, SentFields DEF Kept, Goes, Life, Deletion
  <2>6. QED
    BY <2>4, <2>5
<1>3. CASE Leave
  BY <1>1, <1>3 DEF Leave, IsLeft, Life, Deletion, seen
<1>4. CASE Enter
  <2>1. deletion'[c] = deletion[c]
    BY <1>4 DEF Enter
  <2>2. QED
    BY <2>1, SameIsKept DEF Life
<1>5. ASSUME NEW k \in Keys, Pick(k) PROVE Life(c)
  <2>1. CASE deletion'[c] = deletion[c]
    BY <2>1, SameIsKept DEF Life
  <2>2. CASE deletion'[c] # deletion[c]
    <3>1. /\ deletion'[c] = [deletion[c] EXCEPT !.key = k]
          /\ deletion[c].mine /\ deletion[c].at \in Open
      BY <1>1, <1>5, <2>2 DEF Pick, Open
    <3>2. "switched" \in odd' /\ UNCHANGED server
      BY <1>5, <3>1 DEF Pick
    <3>3. QED
      BY <1>1, <3>1, <3>2 DEF Follows, Life, Deletion
  <2>3. QED
    BY <2>1, <2>2
<1>6. QED
  BY <1>2, <1>3, <1>4, <1>5

LEMMA LifeStep ==
  ASSUME TypeOK, Keyed, [Next]_vars, NEW c \in Cards
  PROVE  Life(c)
<1>1. CASE \/ \E k \in Keys : Read(k)
           \/ Poll \/ StreamOpens \/ (\E refused \in BOOLEAN : StreamDown(refused)) \/ RetryFires
           \/ PluginSends \/ FrameArrives \/ (\E b \in Boards : CardsMove(b)) \/ PointerMoves
           \/ UNCHANGED vars
  <2>1. deletion' = deletion
    BY <1>1 DEF Read, Poll, StreamOpens, StreamDown, RetryFires, PluginSends, FrameArrives,
                CardsMove, PointerMoves, vars
  <2>2. QED
    BY <2>1, SameIsKept DEF Life
<1>2. CASE \E k \in Keys : FetchArrives(k) \/ FetchFails(k)
  BY <1>2, LifeOfAFetch
<1>3. CASE Flush
  BY <1>3, LifeOfAFlush
<1>4. CASE \E d \in Cards : Deleted(d)
  BY <1>4, LifeOfAnAcceptedDeletion
<1>5. CASE \E d \in Cards : \/ Delete(d) \/ Undo(d) \/ WindowEnds(d) \/ Serve(d)
                             \/ DeleteRefused(d) \/ DeleteLost(d)
  BY <1>5, LifeOfTheOthers
<1>6. CASE PageHides \/ Leave \/ Enter \/ \E k \in Keys : Pick(k)
  BY <1>6, LifeOfAVisit
<1>7. QED
  BY <1>1, <1>2, <1>3, <1>4, <1>5, <1>6 DEF Next

-----------------------------------------------------------------------------
(* What a step may do to pages, boards, hidden cards and the screen. *)

LEMMA FlagsStay ==
  ASSUME [Next]_vars
  PROVE  odd \subseteq odd'
BY DEF Next, Read, FetchArrives, FetchFails, Pick, Poll, StreamOpens, StreamDown, RetryFires,
       PluginSends, FrameArrives, Flush, Invalidate, Delete, Undo, WindowEnds, Serve, Deleted,
       DeleteRefused, DeleteLost, PageHides, Leave, Enter, CardsMove, PointerMoves, vars, seen

LEMMA PointerStays ==
  ASSUME [Next]_vars
  PROVE  pointer' = pointer \/ Moved'
BY DEF Next, Read, FetchArrives, FetchFails, Pick, Poll, StreamOpens, StreamDown, RetryFires,
       PluginSends, FrameArrives, Flush, Delete, Undo, WindowEnds, Serve, Deleted,
       DeleteRefused, DeleteLost, PageHides, Leave, Enter, CardsMove, PointerMoves, vars, server, Moved

\* Hermes' cards only go, and only by a deletion that is served.
LEMMA CardsOnlyGo ==
  ASSUME TypeOK, [Next]_vars, NEW b \in Boards
  PROVE  /\ hermes[b].id <= hermes'[b].id
         /\ hermes'[b].cards \subseteq hermes[b].cards
         /\ \A c \in hermes[b].cards \ hermes'[b].cards :
              deletion[c].at = "sent" /\ deletion'[c].at = "done"
<1>1. CASE hermes' = hermes
  BY <1>1 DEF TypeOK
<1>2. ASSUME NEW e \in Boards, CardsMove(e)
      PROVE  hermes[b].id <= hermes'[b].id /\ hermes'[b].cards = hermes[b].cards
  BY <1>2 DEF CardsMove, TypeOK
<1>3. ASSUME NEW d \in Cards, Serve(d)
      PROVE  /\ hermes'[b].id = hermes[b].id
             /\ hermes'[b].cards \subseteq hermes[b].cards
             /\ \A c \in hermes[b].cards \ hermes'[b].cards :
                  deletion[c].at = "sent" /\ deletion'[c].at = "done"
  <2> DEFINE e == BoardOf(deletion[d].to)
  <2>1. hermes' = [hermes EXCEPT ![e].cards = @ \ {d}]
    BY <1>3 DEF Serve
  <2>2. /\ hermes'[b].id = hermes[b].id /\ hermes'[b].cards \subseteq hermes[b].cards
        /\ \A c \in hermes[b].cards \ hermes'[b].cards : c = d /\ b = e
    <3> HIDE DEF e
    <3>1. QED
      BY <2>1 DEF TypeOK
  <2>3. d \in hermes[e].cards => deletion'[d].at = "done"
    <3>1. deletion' = [deletion EXCEPT ![d].at = IF d \in hermes[e].cards THEN "done" ELSE "declined"]
      BY <1>3 DEF Serve
    <3> HIDE DEF e
    <3>2. QED
      BY <3>1 DEF TypeOK, Deletion
  <2>4. deletion[d].at = "sent"
    BY <1>3 DEF Serve
  <2>5. QED
    BY <2>2, <2>3, <2>4
<1>4. hermes[b].id \in Nat
  BY DEF TypeOK
<1>5. QED
  <2>1. hermes' = hermes \/ (\E e \in Boards : CardsMove(e)) \/ (\E d \in Cards : Serve(d))
    BY DEF Next, Read, FetchArrives, FetchFails, Pick, Poll, StreamOpens, StreamDown, RetryFires,
           PluginSends, FrameArrives, Flush, Delete, Undo, WindowEnds, Deleted,
           DeleteRefused, DeleteLost, PageHides, Leave, Enter, PointerMoves, vars, server
  <2>2. QED
    BY <1>1, <1>2, <1>3, <1>4, <2>1

\* A page under way is dropped, kept, or read from the board of its key; a page on
\* screen is kept or replaced by the one that arrived.
Turns(k) ==
  \/ cache'[k] = cache[k] /\ fetch'[k] = fetch[k]
  \/ fetch' = [fetch EXCEPT ![k] = Asked] /\ cache'[k] = cache[k]
  \/ /\ fetch[k] = Asked /\ cache'[k] = cache[k] /\ UNCHANGED <<server, sel, cursor>>
     /\ fetch'[k] = [at |-> "answered", page |-> hermes[BoardOf(k)]]
  \/ FetchArrives(k) /\ fetch'[k] = Idle /\ cache'[k] = fetch[k].page
  \/ FetchFails(k) /\ fetch'[k] = Idle /\ cache'[k] = cache[k]

LEMMA PagesTurn ==
  ASSUME TypeOK, Keyed, [Next]_vars, NEW k \in Keys
  PROVE  Turns(k)
<1>1. fetch \in [Keys -> Fetch] /\ cache \in [Keys -> Page]
  BY DEF TypeOK
<1>2. CASE UNCHANGED <<cache, fetch>>
  BY <1>2 DEF Turns
<1>3. ASSUME NEW j \in Keys, fetch' = [fetch EXCEPT ![j] = Asked], cache' = cache PROVE Turns(k)
  BY <1>1, <1>3 DEF Turns
<1>4. ASSUME NEW j \in Keys, Read(j) PROVE Turns(k)
  <2>1. CASE j = k
    BY <1>1, <1>4, <2>1 DEF Read, Turns, events
  <2>2. CASE j # k
    BY <1>1, <1>4, <2>2 DEF Read, Turns
  <2>3. QED
    BY <2>1, <2>2
<1>5. ASSUME NEW j \in Keys, FetchArrives(j) PROVE Turns(k)
  <2>1. CASE j = k
    BY <1>1, <1>5, <2>1 DEF FetchArrives, FetchEnds, Turns
  <2>2. CASE j # k
    BY <1>1, <1>5, <2>2 DEF FetchArrives, FetchEnds, Turns
  <2>3. QED
    BY <2>1, <2>2
<1>6. ASSUME NEW j \in Keys, FetchFails(j) PROVE Turns(k)
  <2>1. CASE j = k
    BY <1>1, <1>6, <2>1 DEF FetchFails, FetchEnds, Turns
  <2>2. CASE j # k
    BY <1>1, <1>6, <2>2 DEF FetchFails, FetchEnds, Turns
  <2>3. QED
    BY <2>1, <2>2
<1>7. ASSUME NEW j \in Keys, Invalidate(j), cache' = cache PROVE Turns(k)
  BY <1>2, <1>3, <1>7 DEF Invalidate
<1>8. ASSUME NEW j \in Keys, Observe(j) PROVE Turns(k)
  BY <1>2, <1>3, <1>8 DEF Observe
<1>9. CASE Flush
  BY <1>7, <1>9 DEF Flush, TypeOK
<1>10. CASE Poll
  BY <1>3, <1>10 DEF Poll, TypeOK
<1>11. ASSUME NEW d \in Cards, Deleted(d) PROVE Turns(k)
  BY <1>7, <1>11 DEF Deleted, Keyed
<1>12. CASE Enter \/ \E j \in Keys : Pick(j)
  BY <1>8, <1>12, Constants DEF Enter, Pick
<1>13. CASE \/ StreamOpens \/ (\E refused \in BOOLEAN : StreamDown(refused)) \/ RetryFires
            \/ PluginSends \/ FrameArrives \/ (\E b \in Boards : CardsMove(b)) \/ PointerMoves
            \/ PageHides \/ Leave \/ UNCHANGED vars
            \/ \E d \in Cards : \/ Delete(d) \/ Undo(d) \/ WindowEnds(d) \/ Serve(d)
                                \/ DeleteRefused(d) \/ DeleteLost(d)
  BY <1>2, <1>13 DEF StreamOpens, StreamDown, RetryFires, PluginSends, FrameArrives, CardsMove, PointerMoves,
                     PageHides, Leave, Delete, Undo, WindowEnds, Serve, DeleteRefused, DeleteLost, vars, query
<1>14. QED
  BY <1>4, <1>5, <1>6, <1>9, <1>10, <1>11, <1>12, <1>13 DEF Next

\* A card is shown again only when its deletion is over, or its visit.
LEMMA HiddenStays ==
  ASSUME TypeOK, Keyed, [Next]_vars, NEW c \in hidden
  PROVE  c \in hidden' \/ ~deletion'[c].mine \/ deletion'[c].at \in {"none", "ok", "refused"}
<1>1. c \in Cards /\ deletion \in [Cards -> Deletion]
  BY DEF TypeOK
<1>2. ASSUME NEW j \in Keys, FetchArrives(j) \/ FetchFails(j), c \notin hidden' PROVE deletion'[c].at = "ok"
  BY <1>1, <1>2, SettledFields DEF FetchArrives, FetchFails, FetchEnds, Mine
<1>3. ASSUME Flush, c \notin hidden' PROVE deletion'[c].at = "ok"
  BY <1>1, <1>3, ChainedFields DEF Flush, Mine
<1>4. ASSUME NEW d \in Cards, Deleted(d), c \notin hidden' PROVE deletion'[c].at = "ok"
  <2> DEFINE k == deletion[d].key
  <2>1. Chained(k) \in [Cards -> Deletion] /\ Ended(d, "ok").at = "ok"
    BY ChainedType, EndedFields DEF Stages
  <2>2. c \in Replaced(k) \/ (c = d /\ k # sel)
    BY <1>4 DEF Deleted, Mine
  <2>3. d \notin Replaced(k)
    BY <1>4 DEF Deleted, Replaced
  <2>4. CASE c = d /\ k # sel
    BY <1>4, <2>1, <2>4 DEF Deleted
  <2>5. CASE c \in Replaced(k)
    <3>1. deletion'[c] = Chained(k)[c]
      BY <1>1, <1>4, <2>1, <2>3, <2>5 DEF Deleted
    <3>2. QED
      BY <1>1, <2>5, <3>1, ChainedFields
  <2>6. QED
    BY <2>2, <2>4, <2>5
<1>5. ASSUME NEW d \in Cards, Undo(d), c \notin hidden' PROVE ~deletion'[c].mine
  BY <1>1, <1>5 DEF Undo, Mine, NoDeletion
<1>6. ASSUME NEW d \in Cards, DeleteRefused(d) \/ DeleteLost(d), c \notin hidden' PROVE deletion'[c].at = "refused"
  <2>1. c = d
    BY <1>6 DEF DeleteRefused, DeleteLost, Mine
  <2>2. deletion'[c] = Ended(c, "refused")
    BY <1>1, <1>6, <2>1 DEF DeleteRefused, DeleteLost
  <2>3. QED
    BY <1>1, <2>2, EndedFields DEF Stages
<1>7. CASE Leave
  BY <1>1, <1>7 DEF Leave, Deletion
<1>8. CASE \/ StreamOpens \/ (\E refused \in BOOLEAN : StreamDown(refused)) \/ RetryFires \/ Poll
           \/ PluginSends \/ FrameArrives \/ (\E b \in Boards : CardsMove(b)) \/ PointerMoves
           \/ PageHides \/ Enter \/ (\E j \in Keys : Pick(j) \/ Read(j)) \/ UNCHANGED vars
           \/ \E d \in Cards : Delete(d) \/ WindowEnds(d) \/ Serve(d)
  BY <1>8 DEF StreamOpens, StreamDown, RetryFires, Poll, PluginSends, FrameArrives, CardsMove, PointerMoves,
              PageHides, Enter, Pick, Read, Delete, WindowEnds, Serve, vars
<1>9. QED
  BY <1>2, <1>3, <1>4, <1>5, <1>6, <1>7, <1>8 DEF Next

\* The screen keeps its board but for a pick, which says so, and a visit's end.
LEMMA ScreenStays ==
  ASSUME TypeOK, [Next]_vars, NEW c \in Cards, deletion[c].mine, deletion[c].at \in Open
  PROVE  sel' = sel \/ sel = Nowhere \/ Switched' \/ ~deletion'[c].mine
<1>1. ASSUME NEW k \in Keys, Pick(k) PROVE Switched'
  BY <1>1 DEF Pick, Switched
<1>2. CASE Leave
  BY <1>2 DEF Leave, TypeOK, Deletion
<1>3. QED
  BY <1>1, <1>2 DEF Next, Read, FetchArrives, FetchFails, Poll, StreamOpens, StreamDown, RetryFires,
       PluginSends, FrameArrives, Flush, Delete, Undo, WindowEnds, Serve, Deleted,
       DeleteRefused, DeleteLost, PageHides, Enter, CardsMove, PointerMoves, vars

-----------------------------------------------------------------------------
(* A card that left stays away. *)

LEMMA GoneInit == Init => GoneInv
<1> SUFFICES ASSUME Init PROVE GoneInv
  OBVIOUS
<1>1. TypeOK
  BY InitType
<1>2. AtHome /\ Fetched
  BY DEF Init, AtHome, Fetched, Idle
<1>3. \A c \in Cards : deletion[c].at = "none"
  BY DEF Init, NoDeletion
<1>4. DeletedIsGone /\ Keyed /\ Hides /\ OnItsBoard /\ RefetchedWithout
  BY <1>3 DEF DeletedIsGone, Keyed, Hides, OnItsBoard, RefetchedWithout, Open, Settling
<1>5. QED
  BY <1>1, <1>2, <1>4 DEF GoneInv

LEMMA AtHomeStep ==
  ASSUME TypeOK, AtHome, [Next]_vars
  PROVE  AtHome'
BY CardsOnlyGo DEF AtHome

LEMMA DeletedIsGoneStep ==
  ASSUME TypeOK, Keyed, AtHome, DeletedIsGone, [Next]_vars
  PROVE  DeletedIsGone'
<1> SUFFICES ASSUME NEW c \in Cards, deletion'[c].at \in {"done", "ok"} \cup Settling, NEW b \in Boards
             PROVE  c \notin hermes'[b].cards
  BY DEF DeletedIsGone, Settling
<1>1. CASE deletion[c].at \in {"done", "ok"} \cup Settling
  BY <1>1, CardsOnlyGo DEF DeletedIsGone, Settling
<1>2. CASE IsServed(c)
  <2> DEFINE e == BoardOf(deletion[c].to)
  <2>1. hermes' = [hermes EXCEPT ![e].cards = @ \ {c}] /\ c \in hermes[e].cards
    BY <1>2 DEF IsServed, Goes, Settling
  <2>2. c \notin hermes[b].cards \/ b = Home[c]
    BY DEF AtHome
  <2>3. e \in Boards
    BY <1>2, BoardOfType DEF IsServed, Goes, Keyed
  <2>4. e = Home[c]
    BY <2>1, <2>3 DEF AtHome
  <2> HIDE DEF e
  <2>5. hermes'[e].cards = hermes[e].cards \ {c}
    BY <2>1, <2>3 DEF TypeOK
  <2>6. QED
    BY <2>2, <2>4, <2>5, CardsOnlyGo
<1>3. QED
  BY <1>1, <1>2, LifeStep DEF Life, Kept, Goes, Begins, TakenBack, IsSent, IsAccepted, IsCarried,
                              IsSettled, IsRefused, Follows, IsLeft, Settling

LEMMA FetchedStep ==
  ASSUME TypeOK, Keyed, Fetched, [Next]_vars
  PROVE  Fetched'
<1> SUFFICES ASSUME NEW k \in Keys, fetch'[k].at = "answered" PROVE fetch'[k].page.id # -1
  BY DEF Fetched
<1>1. fetch \in [Keys -> Fetch] /\ hermes[BoardOf(k)].id \in Nat
  BY BoardOfType DEF TypeOK
<1>2. Turns(k)
  BY PagesTurn
<1>3. QED
  BY <1>1, <1>2 DEF Turns, Fetched, Idle, Asked

LEMMA KeyedStep ==
  ASSUME TypeOK, Keyed, [Next]_vars
  PROVE  Keyed'
<1> SUFFICES ASSUME NEW c \in Cards
             PROVE  /\ deletion'[c].at # "none" => deletion'[c].key \in Keys
                    /\ deletion'[c].at = "sent" => deletion'[c].to \in Keys
  BY DEF Keyed
<1>1. /\ deletion[c].at # "none" => deletion[c].key \in Keys
      /\ deletion[c].at = "sent" => deletion[c].to \in Keys
  BY DEF Keyed
<1>2. CASE Kept(c) \/ IsLeft(c) \/ Follows(c) \/ Begins(c) \/ TakenBack(c)
  BY <1>1, <1>2 DEF Kept, Goes, IsLeft, Follows, Begins, TakenBack
<1>3. CASE IsSent(c) \/ IsServed(c) \/ IsAccepted(c) \/ IsCarried(c) \/ IsSettled(c) \/ IsRefused(c)
  BY <1>1, <1>3 DEF Goes, IsSent, IsServed, IsAccepted, IsCarried, IsSettled, IsRefused, Settling
<1>4. QED
  BY <1>2, <1>3, LifeStep DEF Life

LEMMA HidesStep ==
  ASSUME TypeOK, Keyed, Hides, [Next]_vars
  PROVE  Hides'
<1> SUFFICES ASSUME NEW c \in Cards, deletion'[c].mine, deletion'[c].at \in Open \cup Settling
             PROVE  c \in hidden'
  BY DEF Hides
<1>1. CASE c \in hidden
  BY <1>1, HiddenStays DEF Open, Settling
<1>2. CASE Begins(c)
  BY <1>2 DEF Begins
<1>3. CASE c \notin hidden /\ ~Begins(c)
  BY <1>3, LifeStep DEF Hides, Life, Kept, Goes, TakenBack, IsSent, IsServed, IsAccepted, IsCarried,
                        IsSettled, IsRefused, Follows, IsLeft, Open, Settling
<1>4. QED
  BY <1>1, <1>2, <1>3

LEMMA OnItsBoardStep ==
  ASSUME TypeOK, Keyed, Fetched, OnItsBoard, [Next]_vars
  PROVE  OnItsBoard'
<1> SUFFICES ASSUME ~Switched', NEW c \in Cards, deletion'[c].mine, deletion'[c].at \in Open
             PROVE  deletion'[c].key = sel' /\ cache'[sel'] # NotLoaded
  BY DEF OnItsBoard
<1>1. ~Switched
  BY FlagsStay DEF Switched
<1>2. CASE Begins(c)
  BY <1>2 DEF Begins, query, NotLoaded
<1>3. CASE ~Begins(c)
  <2>1. deletion[c].mine /\ deletion[c].at \in Open /\ deletion'[c].key = deletion[c].key
    BY <1>3, LifeStep DEF Life, Kept, Goes, TakenBack, IsSent, IsServed, IsAccepted, IsCarried,
                          IsSettled, IsRefused, Follows, IsLeft, Open, Settling, Switched
  <2>2. deletion[c].key = sel /\ cache[sel] # NotLoaded /\ sel \in Keys
    BY <1>1, <2>1 DEF OnItsBoard, Keyed, Open
  <2>3. sel' = sel
    BY <2>1, <2>2, ScreenStays, Constants
  <2>4. cache'[sel] # NotLoaded
    <3>1. PICK k \in Keys : k = sel
      BY <2>2
    <3>2. Turns(k)
      BY PagesTurn
    <3>3. fetch[k].at = "answered" => fetch[k].page.id # -1
      BY DEF Fetched
    <3>4. QED
      BY <2>2, <3>1, <3>2, <3>3 DEF Turns, FetchArrives, NotLoaded
  <2>5. QED
    BY <2>1, <2>2, <2>3, <2>4
<1>4. QED
  BY <1>2, <1>3

LEMMA RefetchedStep ==
  ASSUME GoneInv, [Next]_vars
  PROVE  RefetchedWithout'
<1> USE DEF GoneInv
<1> SUFFICES ASSUME ~Switched', ~Failed', ~Overlapped', NEW c \in Cards, deletion'[c].mine
             PROVE  /\ deletion'[c].at \in Settling \cup {"ok"} => c \notin fetch'[deletion'[c].key].page.cards
                    /\ deletion'[c].at = "ok" => c \notin cache'[deletion'[c].key].cards
  BY DEF RefetchedWithout
<1>0. PICK k \in Keys \cup {Nowhere} : k = deletion[c].key
  BY DEF TypeOK, Deletion
<1>1. ~Switched /\ ~Failed /\ ~Overlapped
  BY FlagsStay DEF Switched, Failed, Overlapped
<1>2. c \notin Idle.page.cards /\ c \notin Asked.page.cards
  BY DEF Idle, Asked, NotLoaded
<1>3. fetch \in [Keys -> Fetch]
  BY DEF TypeOK
<1>4. CASE Kept(c) /\ deletion[c].at \in Settling \cup {"ok"}
  <2>1. /\ k \in Keys /\ deletion[c].mine /\ deletion'[c].key = k
        /\ deletion'[c].at = deletion[c].at
    BY <1>0, <1>4 DEF Keyed, Kept, Goes, Settling
  <2>2. c \notin fetch[k].page.cards /\ (deletion[c].at = "ok" => c \notin cache[k].cards)
    BY <1>0, <1>1, <1>4, <2>1 DEF RefetchedWithout
  <2>3. c \notin hermes[BoardOf(k)].cards
    BY <1>4, <2>1, BoardOfType DEF DeletedIsGone, Settling
  <2>4. Turns(k)
    BY <2>1, PagesTurn
  <2>5. CASE cache'[k] = cache[k] /\ fetch'[k] = fetch[k]
    BY <2>1, <2>2, <2>5
  <2>6. CASE fetch'[k] \in {Asked, Idle} /\ cache'[k] \in {cache[k], fetch[k].page}
    BY <1>2, <2>1, <2>2, <2>6
  <2>7. CASE fetch'[k] = [at |-> "answered", page |-> hermes[BoardOf(k)]] /\ cache'[k] = cache[k]
    BY <2>1, <2>2, <2>3, <2>7
  <2>8. fetch' = [fetch EXCEPT ![k] = Asked] => fetch'[k] = Asked
    BY <1>3, <2>1
  <2>9. QED
    BY <2>4, <2>5, <2>6, <2>7, <2>8 DEF Turns
<1>5. CASE IsAccepted(c)
  <2>1. k = sel /\ ~Joins(sel) /\ sel \in Keys
    BY <1>0, <1>1, <1>5 DEF IsAccepted, Goes, OnItsBoard, Open, Joins, Keyed
  <2>2. fetch'[k] = Asked /\ deletion'[c].at = "settling" /\ deletion'[c].key = k
    BY <1>0, <1>3, <1>5, <2>1 DEF IsAccepted, Goes, Invalidate, Refetches
  <2>3. QED
    BY <1>2, <2>2
<1>6. CASE IsSettled(c)
  <2>1. FetchArrives(k) /\ k \in Keys /\ deletion[c].mine /\ deletion'[c].key = k
    BY <1>0, <1>6 DEF IsSettled, Goes, Keyed, Failed, Overlapped, Settling
  <2>2. c \notin fetch[k].page.cards
    BY <1>0, <1>1, <1>6, <2>1 DEF RefetchedWithout, IsSettled, Goes
  <2>3. fetch'[k] = Idle /\ cache'[k] = fetch[k].page
    BY <1>3, <2>1 DEF FetchArrives, FetchEnds, TypeOK
  <2>4. QED
    BY <1>2, <2>1, <2>2, <2>3
<1>7. CASE IsCarried(c)
  <2>1. k \in Keys /\ deletion'[c].key = k /\ deletion'[c].at = "carried"
    BY <1>0, <1>7 DEF IsCarried, Goes, Keyed
  <2>2. fetch'[k] = Asked
    BY <1>0, <1>3, <1>7, <2>1 DEF IsCarried
  <2>3. QED
    BY <1>2, <2>1, <2>2
<1>8. CASE deletion'[c].at \notin Settling \cup {"ok"}
  BY <1>8
<1>9. QED
  BY <1>4, <1>5, <1>6, <1>7, <1>8, LifeStep DEF Life, Kept, Goes, Begins, TakenBack, IsSent, IsServed,
                                          IsRefused, Follows, IsLeft, Switched, Settling

LEMMA GoneStep == GoneInv /\ [Next]_vars => GoneInv'
BY StepType, AtHomeStep, DeletedIsGoneStep, FetchedStep, KeyedStep, HidesStep, OnItsBoardStep, RefetchedStep
   DEF GoneInv

LEMMA GoneSafe == GoneInv => GoneStaysGone
<1> SUFFICES ASSUME GoneInv, Without({"switched", "failed", "overlap"}), NEW c \in Cards, deletion[c].mine,
                    deletion[c].at \in Open \cup Settling \/ (deletion[c].at = "ok" /\ deletion[c].key = sel)
             PROVE  c \notin Shown
  BY DEF GoneStaysGone
<1>1. ~Switched /\ ~Failed /\ ~Overlapped
  BY DEF Without, Switched, Failed, Overlapped
<1>2. CASE deletion[c].at \in Open \cup Settling
  BY <1>2 DEF GoneInv, Hides, Shown
<1>3. CASE deletion[c].at = "ok" /\ deletion[c].key = sel
  BY <1>1, <1>3 DEF GoneInv, RefetchedWithout, Shown
<1>4. QED
  BY <1>2, <1>3

\* However polls, refetches and answers interleave: a card that was deleted on this
\* screen is not shown again, while it waits, while the request is out, until the
\* refetch its answer asked for has come, and after it.
THEOREM BoardGoneStaysGone == Spec => []GoneStaysGone
<1>1. Init => GoneInv
  BY GoneInit
<1>2. GoneInv /\ [Next]_vars => GoneInv'
  BY GoneStep
<1>3. GoneInv => GoneStaysGone
  BY GoneSafe
<1>4. QED
  BY <1>1, <1>2, <1>3, PTL DEF Spec

-----------------------------------------------------------------------------
(* What is deleted was meant to be. *)

LEMMA MeantInit == Init => MeantInv
<1> SUFFICES ASSUME Init PROVE MeantInv
  OBVIOUS
<1>1. \A c \in Cards : deletion[c] = NoDeletion
  BY DEF Init
<1>2. BackIsNone /\ Aimed
  BY <1>1 DEF BackIsNone, Aimed, NoDeletion
<1>3. StillThere
  BY BoardAssumption DEF Init, StillThere
<1>4. PagesAtHome
  BY DEF Init, PagesAtHome, NotLoaded, Idle
<1>5. QED
  BY <1>2, <1>3, <1>4 DEF MeantInv

LEMMA BackIsNoneStep ==
  ASSUME TypeOK, Keyed, BackIsNone, [Next]_vars
  PROVE  BackIsNone'
<1> SUFFICES ASSUME NEW c \in Cards PROVE deletion'[c].back => deletion'[c].at = "none"
  BY DEF BackIsNone
<1>1. CASE Kept(c) \/ IsLeft(c) \/ Follows(c) \/ Begins(c) \/ TakenBack(c)
  BY <1>1 DEF BackIsNone, Kept, Goes, IsLeft, Follows, Begins, TakenBack
<1>2. CASE IsSent(c) \/ IsServed(c) \/ IsAccepted(c) \/ IsCarried(c) \/ IsSettled(c) \/ IsRefused(c)
  BY <1>2 DEF BackIsNone, Goes, IsSent, IsServed, IsAccepted, IsCarried, IsSettled, IsRefused, Settling
<1>3. QED
  BY <1>1, <1>2, LifeStep DEF Life

LEMMA StillThereStep ==
  ASSUME TypeOK, Keyed, StillThere, [Next]_vars
  PROVE  StillThere'
<1> DEFINE Before == {"none", "waiting", "sent", "declined", "refused"}
<1> SUFFICES ASSUME ~Failed', NEW c \in Cards, deletion'[c].at \in Before
             PROVE  c \in hermes'[Home[c]].cards
  BY DEF StillThere
<1>1. ~Failed /\ Home[c] \in Boards
  BY FlagsStay, BoardAssumption DEF Failed
<1>2. deletion[c].at \in Before
  <2>1. CASE Kept(c) \/ IsLeft(c) \/ Follows(c) \/ Begins(c) \/ TakenBack(c)
    BY <2>1 DEF Kept, Goes, IsLeft, Follows, Begins, TakenBack
  <2>2. CASE IsSent(c) \/ IsServed(c) \/ IsAccepted(c) \/ IsCarried(c) \/ IsSettled(c) \/ IsRefused(c)
    BY <2>2 DEF Goes, IsSent, IsServed, IsAccepted, IsCarried, IsSettled, IsRefused, Failed, Settling
  <2>3. QED
    BY <2>1, <2>2, LifeStep DEF Life
<1>3. c \in hermes[Home[c]].cards
  BY <1>1, <1>2 DEF StillThere
<1>4. QED
  BY <1>1, <1>3, CardsOnlyGo

LEMMA PagesAtHomeStep ==
  ASSUME TypeOK, Keyed, AtHome, PagesAtHome, [Next]_vars
  PROVE  PagesAtHome'
<1> SUFFICES ASSUME ~Moved', NEW k \in Keys, NEW c \in cache'[k].cards \cup fetch'[k].page.cards
             PROVE  Home[c] = BoardOf(k)'
  BY DEF PagesAtHome
<1>1. ~Moved /\ BoardOf(k)' = BoardOf(k) /\ BoardOf(k) \in Boards
  BY FlagsStay, PointerStays, BoardOfType DEF Moved, BoardOf
<1>2. \A d \in cache[k].cards \cup fetch[k].page.cards : Home[d] = BoardOf(k)
  BY <1>1 DEF PagesAtHome
<1>3. \A d \in hermes[BoardOf(k)].cards : Home[d] = BoardOf(k)
  BY <1>1 DEF AtHome
<1>4. fetch \in [Keys -> Fetch] /\ Idle.page.cards = {} /\ Asked.page.cards = {}
  BY DEF TypeOK, Idle, Asked, NotLoaded
<1>5. Turns(k)
  BY PagesTurn
<1>6. QED
  BY <1>1, <1>2, <1>3, <1>4, <1>5 DEF Turns

LEMMA AimedStep ==
  ASSUME TypeOK, Keyed, StillThere, PagesAtHome, Aimed, [Next]_vars
  PROVE  Aimed'
<1> SUFFICES ASSUME ~Switched', ~Failed', ~Moved', NEW c \in Cards
             PROVE  /\ \A k \in Keys :
                          (deletion'[c].at = "waiting" /\ deletion'[c].key = k) \/ (deletion'[c].at = "sent" /\ deletion'[c].to = k)
                            => BoardOf(k)' = Home[c]
                    /\ deletion'[c].at \notin {"declined", "refused"}
  BY DEF Aimed
<1>1. ~Switched /\ ~Failed /\ ~Moved
  BY FlagsStay DEF Switched, Failed, Moved
<1>2. \A k \in Keys : BoardOf(k)' = BoardOf(k)
  BY PointerStays DEF BoardOf
<1>3. /\ \A k \in Keys :
            (deletion[c].at = "waiting" /\ deletion[c].key = k) \/ (deletion[c].at = "sent" /\ deletion[c].to = k)
              => BoardOf(k) = Home[c]
      /\ deletion[c].at \notin {"declined", "refused"}
  BY <1>1 DEF Aimed
<1>4. CASE Kept(c) \/ IsLeft(c) \/ TakenBack(c) \/ IsSent(c)
  <2>1. \/ deletion'[c].at = "none"
        \/ /\ deletion'[c].at = deletion[c].at
           /\ deletion'[c].key = deletion[c].key /\ deletion'[c].to = deletion[c].to
        \/ /\ deletion[c].at = "waiting" /\ deletion'[c].at = "sent"
           /\ deletion'[c].to = deletion[c].key
    BY <1>4 DEF Kept, Goes, IsLeft, TakenBack, IsSent
  <2>2. ASSUME NEW k \in Keys,
               (deletion'[c].at = "waiting" /\ deletion'[c].key = k) \/ (deletion'[c].at = "sent" /\ deletion'[c].to = k)
        PROVE  BoardOf(k)' = Home[c]
    <3>1. \/ deletion[c].at = "waiting" /\ deletion[c].key = k
          \/ deletion[c].at = "sent" /\ deletion[c].to = k
      BY <2>1, <2>2
    <3>2. QED
      BY <1>2, <1>3, <3>1
  <2>3. deletion'[c].at \notin {"declined", "refused"}
    BY <1>3, <2>1
  <2>4. QED
    BY <2>2, <2>3
<1>5. CASE Begins(c)
  <2>1. PICK k \in Keys : k = sel
    BY <1>5 DEF Begins
  <2>2. BoardOf(k) = Home[c]
    BY <1>1, <1>5, <2>1 DEF Begins, PagesAtHome
  <2>3. QED
    BY <1>2, <1>5, <2>1, <2>2 DEF Begins
<1>6. CASE IsServed(c)
  <2>1. PICK k \in Keys : k = deletion[c].to
    BY <1>6 DEF IsServed, Goes, Keyed
  <2>2. BoardOf(k) = Home[c] /\ c \in hermes[Home[c]].cards
    BY <1>1, <1>3, <1>6, <2>1 DEF IsServed, Goes, StillThere
  <2>3. deletion'[c].at = "done"
    BY <1>6, <2>1, <2>2 DEF IsServed, Goes
  <2>4. QED
    BY <2>3
<1>7. CASE IsAccepted(c) \/ IsCarried(c) \/ IsSettled(c)
  BY <1>7 DEF IsAccepted, IsCarried, IsSettled, Goes
<1>8. CASE IsRefused(c) \/ Follows(c)
  BY <1>3, <1>8 DEF IsRefused, Goes, Follows, Failed, Switched
<1>9. QED
  BY <1>4, <1>5, <1>6, <1>7, <1>8, LifeStep DEF Life

LEMMA MeantStep == TypeOK /\ Keyed /\ AtHome /\ MeantInv /\ [Next]_vars => MeantInv'
BY BackIsNoneStep, StillThereStep, PagesAtHomeStep, AimedStep DEF MeantInv

LEMMA MeantSafe == MeantInv => DeletesAreMeant
<1> SUFFICES ASSUME MeantInv PROVE DeletesAreMeant
  OBVIOUS
<1>1. Without({"failed"}) => \A c \in Cards : deletion[c].back => c \in hermes[Home[c]].cards
  BY DEF MeantInv, BackIsNone, StillThere, Without, Failed
<1>2. Without({"switched", "failed", "pointer"}) => \A c \in Cards : deletion[c].at # "refused"
  BY DEF MeantInv, Aimed, Without, Switched, Failed, Moved
<1>3. QED
  BY <1>1, <1>2 DEF DeletesAreMeant

\* What the undo took back is still on its board, and a card that was not taken back
\* leaves the board it was taken off: its request is never refused for having gone
\* to another.
THEOREM BoardDeletesAreMeant == Spec => []DeletesAreMeant
<1>1. Init => GoneInv /\ MeantInv
  BY GoneInit, MeantInit
<1>2. GoneInv /\ MeantInv /\ [Next]_vars => GoneInv' /\ MeantInv'
  BY GoneStep, MeantStep DEF GoneInv
<1>3. MeantInv => DeletesAreMeant
  BY MeantSafe
<1>4. QED
  BY <1>1, <1>2, <1>3, PTL DEF Spec

-----------------------------------------------------------------------------
(* A quiet stream means a fresh board. *)

LEMMA QuietInit == Init => QuietInv
<1> SUFFICES ASSUME Init PROVE QuietInv
  OBVIOUS
<1>1. \A k \in Keys : cache[k] = NotLoaded /\ fetch[k] = Idle
  BY DEF Init
<1>2. \A k \in Keys : Latest(k) \in Nat
  BY InitType, BoardOfType DEF TypeOK, Latest
<1>3. Ages /\ LoadedOrNot
  BY <1>1, <1>2 DEF Ages, LoadedOrNot, NotLoaded, Idle
<1>4. Streaming /\ Covered
  BY DEF Init, Streaming, Covered
<1>5. QED
  BY <1>3, <1>4 DEF QuietInv

\* The board of a steady key stays, and its events only go up.
LEMMA LatestGrows ==
  ASSUME TypeOK, Keyed, [Next]_vars, NEW k \in Keys, Steady(k)'
  PROVE  /\ Steady(k) /\ BoardOf(k)' = BoardOf(k)
         /\ Latest(k) \in Nat /\ Latest(k)' \in Nat /\ Latest(k) <= Latest(k)'
<1>1. Steady(k) /\ BoardOf(k)' = BoardOf(k)
  BY FlagsStay, PointerStays DEF Steady, Moved, BoardOf
<1>2. BoardOf(k) \in Boards
  BY BoardOfType
<1>3. Latest(k) = hermes[BoardOf(k)].id /\ Latest(k)' = hermes'[BoardOf(k)].id
  BY <1>1 DEF Latest
<1>4. hermes[BoardOf(k)].id \in Nat /\ hermes[BoardOf(k)].id <= hermes'[BoardOf(k)].id
  BY <1>2, CardsOnlyGo DEF TypeOK
<1>5. hermes'[BoardOf(k)].id \in Nat
  BY <1>2, StepType DEF TypeOK
<1>6. QED
  BY <1>1, <1>3, <1>4, <1>5

LEMMA AgesStep ==
  ASSUME TypeOK, Keyed, Ages, [Next]_vars
  PROVE  Ages'
<1> SUFFICES ASSUME NEW k \in Keys, Steady(k)'
             PROVE  /\ cache'[k].id <= Latest(k)'
                    /\ fetch'[k].at = "answered" => cache'[k].id <= fetch'[k].page.id /\ fetch'[k].page.id <= Latest(k)'
  BY DEF Ages
<1>1. /\ Steady(k) /\ Latest(k) \in Nat /\ Latest(k)' \in Nat /\ Latest(k) <= Latest(k)'
  BY LatestGrows
<1>2. /\ cache[k].id <= Latest(k)
      /\ fetch[k].at = "answered" => cache[k].id <= fetch[k].page.id /\ fetch[k].page.id <= Latest(k)
  BY <1>1 DEF Ages
<1>3. cache[k].id \in Int /\ fetch[k].page.id \in Int /\ fetch \in [Keys -> Fetch]
  BY DEF TypeOK, Fetch, Page
<1>4. Idle.at # "answered" /\ Asked.at # "answered"
  BY DEF Idle, Asked
<1>5. Turns(k)
  BY PagesTurn
<1>6. CASE cache'[k] = cache[k] /\ (fetch'[k] = fetch[k] \/ fetch'[k] \in {Idle, Asked})
  BY <1>1, <1>2, <1>3, <1>4, <1>6
<1>7. CASE fetch[k].at = "answered" /\ fetch'[k] = Idle /\ cache'[k] = fetch[k].page
  BY <1>1, <1>2, <1>3, <1>4, <1>7
<1>8. CASE cache'[k] = cache[k] /\ fetch'[k] = [at |-> "answered", page |-> hermes[BoardOf(k)]]
  <2>1. fetch'[k].page.id = Latest(k)
    BY <1>8 DEF Latest
  <2>2. QED
    BY <1>1, <1>2, <1>3, <1>8, <2>1
<1>9. fetch' = [fetch EXCEPT ![k] = Asked] => fetch'[k] = Asked
  BY <1>3
<1>10. QED
  BY <1>5, <1>6, <1>7, <1>8, <1>9 DEF Turns, FetchArrives

LEMMA LoadedOrNotStep ==
  ASSUME TypeOK, Keyed, Fetched, LoadedOrNot, [Next]_vars
  PROVE  LoadedOrNot'
<1> SUFFICES ASSUME NEW k \in Keys
             PROVE  /\ cache'[k].id = -1 => cache'[k] = NotLoaded
                    /\ fetch'[k].at # "answered" => fetch'[k].page = NotLoaded
  BY DEF LoadedOrNot
<1>1. /\ cache[k].id = -1 => cache[k] = NotLoaded
      /\ fetch[k].at # "answered" => fetch[k].page = NotLoaded
      /\ fetch[k].at = "answered" => fetch[k].page.id # -1
  BY DEF LoadedOrNot, Fetched
<1>2. fetch \in [Keys -> Fetch] /\ Idle.page = NotLoaded /\ Asked.page = NotLoaded
  BY DEF TypeOK, Idle, Asked
<1>3. Turns(k)
  BY PagesTurn
<1>4. fetch' = [fetch EXCEPT ![k] = Asked] => fetch'[k] = Asked
  BY <1>2
<1>5. QED
  BY <1>1, <1>2, <1>3, <1>4 DEF Turns, FetchArrives

\* A board that comes on screen.
LEMMA StreamingOpens ==
  ASSUME TypeOK, Ages, NEW k \in Keys, OpenStream(k), sel' = k, UNCHANGED server, Steady(k)
  PROVE  Streaming'
<1>1. cursor' = cache[k].id /\ stream' = Connecting(cache[k].id, 0)
  BY DEF OpenStream, Seed
<1>2. Latest(k)' = Latest(k) /\ Latest(k) \in Nat /\ cache[k].id <= Latest(k) /\ cache[k].id \in Nat \cup {-1}
  BY BoardOfType DEF TypeOK, Ages, Page, Latest, BoardOf, server
<1>3. /\ stream'.at = "connecting" /\ stream'.frame = 0
      /\ stream'.since = IF cache[k].id = NoCursor THEN 0 ELSE cache[k].id
  BY <1>1 DEF Connecting, NoStream
<1>4. stream'.since <= Latest(k)' /\ (stream'.since = 0 \/ stream'.since <= cursor')
  BY <1>1, <1>2, <1>3 DEF NoCursor
<1>5. QED
  BY <1>1, <1>2, <1>3, <1>4 DEF Streaming

\* The facts of a steady board, spelled out.
Facts(k) ==
  /\ cursor <= Latest(k)
  /\ stream.at = "open" => stream.of = BoardOf(k) /\ stream.since <= Latest(k)
  /\ stream.at = "connecting" => stream.since <= Latest(k)
  /\ stream.frame = 0 => stream.since = 0 \/ stream.since <= cursor
  /\ stream.frame # 0 => stream.at = "open" /\ stream.frame = stream.since

LEMMA StreamingIsFacts ==
  ASSUME NEW k \in Keys, sel = k, Steady(k)
  PROVE  Streaming <=> Facts(k)
BY Constants DEF Streaming, Facts

LEMMA StreamingStep ==
  ASSUME TypeOK, Keyed, Ages, Streaming, [Next]_vars
  PROVE  Streaming'
<1>1. SUFFICES ASSUME sel' # Nowhere, Steady(sel)' PROVE Streaming'
  BY DEF Streaming
<1>2. PICK k \in Keys : k = sel'
  BY <1>1, StepType DEF TypeOK
<1>3. Steady(k)'
  BY <1>1, <1>2 DEF Steady, Moved
<1>4. /\ Steady(k) /\ BoardOf(k)' = BoardOf(k) /\ BoardOf(k) \in Boards
      /\ Latest(k) \in Nat /\ Latest(k)' \in Nat /\ Latest(k) <= Latest(k)'
  BY <1>3, LatestGrows, BoardOfType
<1>5. /\ stream \in Stream /\ stream.since \in Nat /\ stream.frame \in Nat
      /\ cursor \in Nat \cup {NoCursor}
  BY DEF TypeOK, Stream
<1>6. CASE Enter \/ \E j \in Keys : Pick(j)
  <2>1. OpenStream(k) /\ UNCHANGED server
    BY <1>2, <1>6 DEF Enter, Pick
  <2>2. QED
    BY <1>2, <1>4, <2>1, StreamingOpens
<1>7. ASSUME sel = k PROVE Facts(k)
  BY <1>4, <1>7, StreamingIsFacts
<1>8. ASSUME Facts(k)' PROVE Streaming'
  BY <1>2, <1>3, <1>8, Constants DEF Streaming, Facts, Steady, Moved, Latest, BoardOf
<1>9. CASE sel = k /\ UNCHANGED <<stream, cursor>>
  BY <1>4, <1>5, <1>7, <1>8, <1>9 DEF Facts, NoCursor
<1>10. ASSUME NEW j \in Keys, FetchArrives(j) PROVE Streaming'
  <2>1. sel = k /\ stream' = stream /\ cursor' = Seeded(j, fetch[j].page)
    BY <1>2, <1>10 DEF FetchArrives
  <2>2. CASE cursor' = cursor
    BY <1>9, <2>1, <2>2
  <2>3. CASE j = k /\ cursor = NoCursor /\ cursor' = fetch[k].page.id
    <3>0. fetch[k].page.id \in Int
      BY DEF TypeOK, Fetch, Page
    <3>1. cursor' <= Latest(k)
      <4>1. fetch[k].at = "answered"
        BY <1>10, <2>3 DEF FetchArrives
      <4>2. fetch[k].page.id <= Latest(k)
        BY <1>4, <4>1 DEF Ages
      <4>3. QED
        BY <2>3, <4>2
    <3>2. stream.frame = 0 => stream.since = 0
      BY <1>5, <1>7, <2>1, <2>3 DEF Facts, NoCursor
    <3>3. QED
      BY <1>4, <1>5, <1>7, <1>8, <2>1, <2>3, <3>0, <3>1, <3>2 DEF Facts
  <2>4. QED
    BY <2>1, <2>2, <2>3 DEF Seeded
<1>11. CASE StreamOpens
  <2>1. /\ sel = k /\ stream.at = "connecting" /\ cursor' = cursor
        /\ stream' = [stream EXCEPT !.at = "open", !.attempts = 0, !.of = BoardOf(sel)]
    BY <1>2, <1>11 DEF StreamOpens
  <2>2. /\ stream'.at = "open" /\ stream'.of = BoardOf(k) /\ stream'.since = stream.since
        /\ stream'.frame = stream.frame
    BY <1>5, <2>1 DEF Stream
  <2>3. QED
    BY <1>4, <1>5, <1>7, <1>8, <2>1, <2>2 DEF Facts, NoCursor
<1>12. ASSUME NEW refused, StreamDown(refused) PROVE Streaming'
  <2>1. /\ sel = k /\ cursor' = cursor
        /\ stream'.at \in {"quit", "retry"} /\ stream'.since = 0 /\ stream'.frame = 0
    BY <1>2, <1>12 DEF StreamDown, NoStream
  <2>2. QED
    BY <1>4, <1>5, <1>7, <1>8, <2>1 DEF Facts, NoCursor
<1>13. CASE RetryFires
  <2>1. sel = k /\ cursor' = cursor /\ stream' = Connecting(cursor, stream.attempts)
    BY <1>2, <1>13 DEF RetryFires
  <2>2. /\ stream'.at = "connecting" /\ stream'.frame = 0
        /\ stream'.since = IF cursor = NoCursor THEN 0 ELSE cursor
    BY <2>1 DEF Connecting, NoStream
  <2>3. QED
    BY <1>4, <1>5, <1>7, <1>8, <2>1, <2>2 DEF Facts, NoCursor
<1>14. CASE PluginSends
  <2>1. /\ sel = k /\ cursor' = cursor /\ stream.at = "open" /\ UNCHANGED server
        /\ hermes[stream.of].id > stream.since
        /\ stream' = [stream EXCEPT !.frame = hermes[stream.of].id, !.since = hermes[stream.of].id]
    BY <1>2, <1>14 DEF PluginSends
  <2>2. stream.of = BoardOf(k) /\ hermes[stream.of].id = Latest(k)
    BY <1>7, <2>1 DEF Facts, Latest
  <2>3. /\ stream'.at = "open" /\ stream'.of = BoardOf(k) /\ stream'.since = Latest(k)
        /\ stream'.frame = Latest(k)
    BY <1>5, <2>1, <2>2 DEF Stream
  <2>4. QED
    BY <1>4, <1>5, <1>7, <1>8, <2>1, <2>2, <2>3 DEF Facts, NoCursor
<1>15. CASE FrameArrives
  <2>1. /\ sel = k /\ cursor' = stream.frame /\ stream.frame # 0
        /\ stream' = [stream EXCEPT !.frame = 0]
    BY <1>2, <1>15 DEF FrameArrives
  <2>2. /\ stream'.at = stream.at /\ stream'.of = stream.of /\ stream'.since = stream.since
        /\ stream'.frame = 0
    BY <1>5, <2>1 DEF Stream
  <2>3. QED
    BY <1>4, <1>5, <1>7, <1>8, <2>1, <2>2 DEF Facts
<1>16. CASE Leave
  BY <1>1, <1>16 DEF Leave
<1>17. QED
  <2>1. CASE \/ \E j \in Keys : Read(j) \/ FetchFails(j)
             \/ Poll \/ Flush \/ PageHides \/ PointerMoves
             \/ (\E b \in Boards : CardsMove(b))
             \/ (\E c \in Cards : \/ Delete(c) \/ Undo(c) \/ WindowEnds(c) \/ Serve(c) \/ Deleted(c)
                                 \/ DeleteRefused(c) \/ DeleteLost(c))
             \/ UNCHANGED vars
    <3>1. sel' = sel /\ UNCHANGED <<stream, cursor>>
      BY <2>1 DEF Read, FetchFails, Poll, Flush, PageHides, PointerMoves, CardsMove, Delete, Undo, WindowEnds,
                  Serve, Deleted, DeleteRefused, DeleteLost, vars, events
    <3>2. QED
      BY <1>2, <1>9, <3>1
  <2>2. QED
    BY <1>6, <1>10, <1>11, <1>12, <1>13, <1>14, <1>15, <1>16, <2>1 DEF Next

\* What the cursor of a key's board has passed.
Has(k) ==
  \/ coalesce
  \/ fetch[k].at = "asked"
  \/ fetch[k].at = "answered" /\ cursor <= fetch[k].page.id
  \/ fetch[k].at = "idle" /\ (k \in failed \/ (cursor <= cache[k].id /\ cache[k].id # -1))

\* A board that comes on screen starts with the cursor of its page.
LEMMA CoveredOpens ==
  ASSUME TypeOK, Ages, LoadedOrNot, NEW k \in Keys, OpenStream(k), Observe(k), Steady(k)
  PROVE  Has(k)'
<1>1. cursor' = cache[k].id /\ cache' = cache /\ failed' = failed
  BY DEF OpenStream, Seed, Observe
<1>2. /\ fetch[k].at \in {"idle", "asked", "answered"} /\ fetch \in [Keys -> Fetch]
      /\ cache[k].id \in Int
  BY DEF TypeOK, Fetch, Page
<1>3. /\ fetch[k].at = "answered" => cache[k].id <= fetch[k].page.id
      /\ cache[k].id = -1 => cache[k] = NotLoaded
  BY DEF Ages, LoadedOrNot
<1>4. CASE fetch[k].at = "idle" /\ fetch' = [fetch EXCEPT ![k] = Asked]
  BY <1>2, <1>4 DEF Has, Asked
<1>5. CASE fetch[k].at # "idle" /\ fetch' = fetch
  BY <1>1, <1>2, <1>3, <1>5 DEF Has
<1>6. CASE cache[k] # NotLoaded /\ fetch' = fetch
  BY <1>1, <1>2, <1>3, <1>6 DEF Has
<1>7. QED
  BY <1>4, <1>5, <1>6 DEF Observe

\* An invalidation that does not join a first load leaves nothing uncovered.
LEMMA CoveredInvalidated ==
  ASSUME TypeOK, NEW j \in Keys, Invalidate(j), "joined" \notin odd', NEW k \in Keys, k = sel,
         Has(k) \/ j = k, UNCHANGED <<cache, failed, cursor>>, coalesce' = coalesce \/ j = k
  PROVE  Has(k)'
<1>1. fetch \in [Keys -> Fetch]
  BY DEF TypeOK
<1>2. CASE j = k
  BY <1>1, <1>2 DEF Invalidate, Refetches, Has, Asked
<1>3. CASE j # k
  <2>1. fetch' = fetch
    BY <1>3 DEF Invalidate, Refetches
  <2>2. QED
    BY <1>3, <2>1 DEF Has
<1>4. QED
  BY <1>2, <1>3

LEMMA CoveredStep ==
  ASSUME TypeOK, Keyed, Fetched, QuietInv, [Next]_vars
  PROVE  Covered'
<1> USE DEF QuietInv
<1>1. SUFFICES ASSUME sel' # Nowhere, Steady(sel)', "joined" \notin odd' PROVE Covered'
  BY DEF Covered
<1>2. PICK k \in Keys : k = sel'
  BY <1>1, StepType DEF TypeOK
<1>3. Steady(k) /\ "joined" \notin odd
  <2>1. Steady(k)'
    BY <1>1, <1>2 DEF Steady, Moved
  <2>2. QED
    BY <1>1, <2>1, FlagsStay, LatestGrows
<1>4. SUFFICES Has(k)'
  BY <1>2 DEF Covered, Has
<1>5. ASSUME sel = k PROVE Has(k)
  BY <1>3, <1>5, Constants DEF Covered, Has
<1>6. /\ fetch \in [Keys -> Fetch] /\ cache \in [Keys -> Page]
      /\ cursor \in Nat \cup {NoCursor}
  BY DEF TypeOK
<1>7. CASE Enter \/ \E j \in Keys : Pick(j)
  <2>1. OpenStream(k) /\ Observe(k)
    BY <1>2, <1>7 DEF Enter, Pick
  <2>2. QED
    BY <1>3, <2>1, CoveredOpens
<1>8. CASE sel = k /\ UNCHANGED <<fetch, cache, failed, cursor>> /\ (coalesce' = coalesce \/ coalesce')
  BY <1>5, <1>8 DEF Has
<1>9. ASSUME NEW j \in Keys, Read(j) PROVE Has(k)'
  <2>1. sel = k /\ UNCHANGED <<cache, failed, cursor, coalesce>>
    BY <1>2, <1>9 DEF Read, events
  <2>2. CASE j # k
    BY <1>5, <1>6, <1>9, <2>1, <2>2 DEF Read, Has
  <2>3. CASE j = k
    <3>1. fetch'[k] = [at |-> "answered", page |-> hermes[BoardOf(k)]]
      BY <1>6, <1>9, <2>3 DEF Read
    <3>2. cursor <= hermes[BoardOf(k)].id
      BY <1>3, <2>1, StreamingIsFacts DEF Facts, Latest
    <3>3. QED
      BY <2>1, <3>1, <3>2 DEF Has
  <2>4. QED
    BY <2>2, <2>3
<1>10. ASSUME NEW j \in Keys, FetchArrives(j) PROVE Has(k)'
  <2>1. /\ sel = k /\ coalesce' = coalesce /\ cursor' = Seeded(j, fetch[j].page)
        /\ fetch' = [fetch EXCEPT ![j] = Idle] /\ cache' = [cache EXCEPT ![j] = fetch[j].page]
        /\ failed' = failed \ {j} /\ fetch[j].at = "answered"
    BY <1>2, <1>10 DEF FetchArrives, FetchEnds
  <2>2. CASE j # k
    BY <1>5, <1>6, <2>1, <2>2 DEF Has, Seeded
  <2>3. CASE j = k
    <3>1. fetch'[k].at = "idle" /\ cache'[k] = fetch[k].page /\ fetch[k].page.id # -1
      BY <1>6, <2>1, <2>3 DEF Idle, Fetched
    <3>2. coalesce \/ cursor <= fetch[k].page.id
      BY <1>5, <2>1, <2>3 DEF Has
    <3>3. cursor' = cursor \/ cursor' = fetch[k].page.id
      BY <2>1, <2>3 DEF Seeded
    <3>4. fetch[k].page.id \in Int
      BY <1>6 DEF Fetch, Page
    <3>5. QED
      BY <2>1, <3>1, <3>2, <3>3, <3>4 DEF Has
  <2>4. QED
    BY <2>2, <2>3
<1>11. ASSUME NEW j \in Keys, FetchFails(j) PROVE Has(k)'
  <2>1. /\ sel = k /\ UNCHANGED <<coalesce, cursor, cache>>
        /\ fetch' = [fetch EXCEPT ![j] = Idle] /\ failed' = failed \cup {j}
    BY <1>2, <1>11 DEF FetchFails, FetchEnds, events
  <2>2. QED
    BY <1>5, <1>6, <2>1 DEF Has, Idle
<1>12. CASE Poll
  BY <1>2, <1>6, <1>12 DEF Poll, Has, Asked
<1>13. CASE Flush
  <2>1. sel = k /\ Invalidate(k) /\ UNCHANGED <<cache, failed, cursor>>
    BY <1>2, <1>13 DEF Flush
  <2>2. QED
    BY <1>1, <2>1, CoveredInvalidated
<1>14. ASSUME NEW d \in Cards, Deleted(d) PROVE Has(k)'
  <2>1. PICK j \in Keys : j = deletion[d].key
    BY <1>14 DEF Deleted, Keyed
  <2>2. sel = k /\ Invalidate(j) /\ UNCHANGED <<cache, failed, cursor, coalesce>>
    BY <1>2, <1>14, <2>1 DEF Deleted, events
  <2>3. QED
    BY <1>1, <1>5, <2>2, CoveredInvalidated
<1>15. CASE StreamOpens \/ (\E refused \in BOOLEAN : StreamDown(refused)) \/ RetryFires \/ PluginSends
  BY <1>2, <1>8, <1>15 DEF StreamOpens, StreamDown, RetryFires, PluginSends, query
<1>16. CASE FrameArrives
  BY <1>16 DEF FrameArrives, Has
<1>17. CASE Leave
  BY <1>1, <1>17 DEF Leave
<1>18. CASE \/ PageHides \/ PointerMoves \/ (\E b \in Boards : CardsMove(b)) \/ UNCHANGED vars
            \/ (\E c \in Cards : \/ Delete(c) \/ Undo(c) \/ WindowEnds(c) \/ Serve(c)
                                \/ DeleteRefused(c) \/ DeleteLost(c))
  BY <1>2, <1>8, <1>18 DEF PageHides, PointerMoves, CardsMove, Delete, Undo, WindowEnds, Serve,
                           DeleteRefused, DeleteLost, vars, query, events
<1>19. QED
  BY <1>7, <1>9, <1>10, <1>11, <1>12, <1>13, <1>14, <1>15, <1>16, <1>17, <1>18 DEF Next

LEMMA QuietStep == TypeOK /\ Keyed /\ Fetched /\ QuietInv /\ [Next]_vars => QuietInv'
BY AgesStep, LoadedOrNotStep, StreamingStep, CoveredStep DEF QuietInv

LEMMA QuietSafe == TypeOK /\ QuietInv => QuietMeansFresh
<1> SUFFICES ASSUME TypeOK, QuietInv, Quiet, Without({"joined"}), sel = Follow => Without({"pointer"})
             PROVE  cache[sel].id = hermes[BoardOf(sel)].id
  BY DEF QuietMeansFresh
<1>1. PICK k \in Keys : k = sel
  BY DEF Quiet, TypeOK
<1>2. Steady(k) /\ "joined" \notin odd
  BY <1>1 DEF Without, Steady, Moved
<1>3. Facts(k) /\ cache[k].id <= Latest(k)
  BY <1>1, <1>2, StreamingIsFacts DEF QuietInv, Ages
<1>4. cursor <= cache[k].id /\ cache[k].id # -1
  BY <1>1, <1>2, Constants DEF QuietInv, Covered, Quiet, Idle
<1>5. stream.since = Latest(k) /\ (stream.since = 0 \/ stream.since <= cursor)
  BY <1>1, <1>3 DEF Quiet, Facts, Latest
<1>6. cache[k].id \in Nat \cup {-1} /\ cursor \in Int /\ Latest(k) \in Nat
  BY BoardOfType DEF TypeOK, Page, NoCursor, Latest
<1>7. cache[k].id = Latest(k)
  BY <1>3, <1>4, <1>5, <1>6
<1>8. QED
  BY <1>1, <1>7 DEF Latest

\* However frames, polls, reconnects and boards picked interleave: when the stream is
\* live, has nothing more to say and nothing is under way, the board on screen has
\* every event of the one it shows.
THEOREM BoardQuietMeansFresh == Spec => []QuietMeansFresh
<1>1. Init => GoneInv /\ QuietInv
  BY GoneInit, QuietInit
<1>2. GoneInv /\ QuietInv /\ [Next]_vars => GoneInv' /\ QuietInv'
  BY GoneStep, QuietStep DEF GoneInv
<1>3. GoneInv /\ QuietInv => QuietMeansFresh
  BY QuietSafe DEF GoneInv
<1>4. QED
  BY <1>1, <1>2, <1>3, PTL DEF Spec

-----------------------------------------------------------------------------
(* The overlays: what ties the history, the open overlays and the pops. *)

\* The entries of overlays are above those of pages, the later the higher.
Climbs(q) == \A i, j \in 1..Len(q) : i < j /\ q[i] # NoOverlay => q[i] < q[j]

History == Seq(Nat) \ {<<>>}
Below(q, n) == \A i \in 1..Len(q) : q[i] <= n

ShapeInv ==
  /\ stack \in History /\ Below(stack, overlaySeq)
  /\ overlaySeq \in Nat /\ liveOverlays \subseteq 1..overlaySeq
  /\ unwinding \in BOOLEAN /\ pops \in Nat
  /\ {presses, dismissed, pagesBack} \subseteq Nat

StackInv == Clear({"strand"}) => Climbs(stack) /\ liveOverlays \subseteq ToSet(stack)

\* Whoever leaves an entry behind has an unwind under way.
TidyInv == Clear({"strand", "late"}) => unwinding \/ ~Abandoned(Last(stack), liveOverlays)

\* Of the pops under way all are presses, but one if there is an unwind, which is
\* for an entry that is nobody's; an open overlay has at most one entry above its own.
Balanced == presses = dismissed + pagesBack + pops - (IF unwinding THEN 1 ELSE 0)
Unwinds == unwinding => pops > 0 /\ Abandoned(Last(stack), liveOverlays)
OnTop(q, live) == \A i \in 1..Len(q) : q[i] \in live => i >= Len(q) - 1

PressInv == Clear(Races) => Balanced /\ Unwinds /\ OnTop(stack, liveOverlays)

OverlayInv == ShapeInv /\ StackInv /\ TidyInv /\ PressInv

-----------------------------------------------------------------------------
(* The entries. *)

LEMMA HistoryFacts ==
  ASSUME NEW q \in History
  PROVE  /\ q \in Seq(Nat) /\ Len(q) \in Nat \ {0} /\ Last(q) = q[Len(q)] /\ Last(q) \in Nat
         /\ Last(q) \in ToSet(q)
         /\ \A i \in 1..Len(q) : q[i] \in Nat /\ q[i] \in ToSet(q)
         /\ \A e : e \in ToSet(q) <=> \E i \in 1..Len(q) : q[i] = e
<1>1. q \in Seq(Nat) /\ Len(q) \in Nat \ {0} /\ DOMAIN q = 1..Len(q)
  BY EmptySeq DEF History
<1>2. Len(q) \in 1..Len(q)
  BY <1>1
<1>3. QED
  BY <1>1, <1>2 DEF Last, ToSet

LEMMA AppendHistory ==
  ASSUME NEW q \in History, NEW e \in Nat
  PROVE  /\ Append(q, e) \in History /\ Len(Append(q, e)) = Len(q) + 1
         /\ \A i \in 1..Len(q) : Append(q, e)[i] = q[i]
         /\ Append(q, e)[Len(q) + 1] = e
<1>1. q \in Seq(Nat) /\ Len(q) \in Nat
  BY DEF History
<1>2. /\ Append(q, e) \in Seq(Nat) /\ Len(Append(q, e)) = Len(q) + 1
      /\ \A i \in 1..Len(q) : Append(q, e)[i] = q[i]
      /\ Append(q, e)[Len(q) + 1] = e
  BY <1>1, AppendProperties
<1>3. Append(q, e) # <<>>
  BY <1>1, <1>2, EmptySeq
<1>4. QED
  BY <1>2, <1>3 DEF History

LEMMA ReplaceHistory ==
  ASSUME NEW q \in History, NEW e \in Nat
  PROVE  LET r == ReplaceAt(q, Len(q), e)
         IN  /\ r \in History /\ Len(r) = Len(q)
             /\ \A i \in 1..Len(q) - 1 : r[i] = q[i]
             /\ r[Len(q)] = e
<1> DEFINE r == ReplaceAt(q, Len(q), e)
<1>1. q \in Seq(Nat) /\ Len(q) \in Nat \ {0} /\ DOMAIN q = 1..Len(q)
  BY HistoryFacts
<1>2. r = [q EXCEPT ![Len(q)] = e]
  BY DEF ReplaceAt
<1> HIDE DEF r
<1>3. /\ r \in Seq(Nat) /\ Len(r) = Len(q)
      /\ \A i \in 1..Len(q) : r[i] = IF i = Len(q) THEN e ELSE q[i]
  <2>1. Len(q) \in 1..Len(q)
    BY <1>1
  <2>2. QED
    BY <1>1, <1>2, <2>1, ExceptSeq
<1>4. (\A i \in 1..Len(q) - 1 : r[i] = q[i]) /\ r[Len(q)] = e
  <2> DEFINE m == Len(q)
  <2>1. m \in Nat \ {0} /\ \A i \in 1..m : r[i] = IF i = m THEN e ELSE q[i]
    BY <1>1, <1>3
  <2> HIDE DEF m
  <2>2. (\A i \in 1..m - 1 : r[i] = q[i]) /\ r[m] = e
    BY <2>1
  <2>3. QED
    BY <2>2 DEF m
<1>5. r # <<>>
  BY <1>1, <1>3, EmptySeq
<1>6. QED
  BY <1>3, <1>4, <1>5 DEF History, r

LEMMA FrontHistory ==
  ASSUME NEW q \in History, Len(q) > 1
  PROVE  /\ Front(q) \in History /\ Len(Front(q)) = Len(q) - 1
         /\ \A i \in 1..Len(q) - 1 : Front(q)[i] = q[i]
<1>1. q \in Seq(Nat) /\ Len(q) \in Nat \ {0}
  BY HistoryFacts
<1>2. Front(q) = SubSeq(q, 1, Len(q) - 1)
  BY DEF Front
<1>3. Front(q) \in Seq(Nat) /\ Len(Front(q)) = Len(q) - 1 /\ \A i \in 1..Len(q) - 1 : Front(q)[i] = q[i]
  BY <1>1, <1>2, SubSeqProperties
<1>4. Front(q) # <<>>
  BY <1>1, <1>3, EmptySeq
<1>5. QED
  BY <1>3, <1>4 DEF History

-----------------------------------------------------------------------------
(* What a task does to the entries. *)

\* What is left of a history after a pop.
LEMMA PopKeeps ==
  ASSUME NEW q \in History, Len(q) > 1, NEW n, Below(q, n)
  PROVE  /\ Below(Front(q), n)
         /\ Climbs(q) => Climbs(Front(q))
         /\ \A e \in ToSet(q) : e # Last(q) => e \in ToSet(Front(q))
         /\ Last(Front(q)) = q[Len(q) - 1]
<1>1. /\ Front(q) \in History /\ Len(Front(q)) = Len(q) - 1 /\ Len(q) \in Nat \ {0}
      /\ \A i \in 1..Len(q) - 1 : Front(q)[i] = q[i]
      /\ Last(q) = q[Len(q)] /\ Len(q) - 1 \in 1..Len(q) - 1
  BY FrontHistory, HistoryFacts
<1>2. Below(Front(q), n)
  BY <1>1 DEF Below
<1>3. Climbs(q) => Climbs(Front(q))
  BY <1>1 DEF Climbs
<1>4. ASSUME NEW e \in ToSet(q), e # Last(q) PROVE e \in ToSet(Front(q))
  <2>1. PICK i \in 1..Len(q) : q[i] = e
    BY HistoryFacts
  <2>2. i \in 1..Len(Front(q)) /\ Front(q)[i] = e
    BY <1>1, <1>4, <2>1
  <2>3. QED
    BY <1>1, <2>2, HistoryFacts
<1>5. Last(Front(q)) = q[Len(q) - 1]
  <2>1. Last(Front(q)) = Front(q)[Len(q) - 1]
    BY <1>1, HistoryFacts
  <2>2. QED
    BY <1>1, <2>1
<1>6. QED
  BY <1>2, <1>3, <1>4, <1>5

\* A new overlay's entry is on top, and nobody loses his.
LEMMA ClaimKeeps ==
  ASSUME NEW q \in History, NEW n \in Nat, Below(q, n), NEW live \in SUBSET (1..n)
  PROVE  LET r == Claim(q, live, n + 1)
         IN  /\ r \in History /\ Below(r, n + 1) /\ Last(r) = n + 1
             /\ Climbs(q) => Climbs(r)
             /\ live \subseteq ToSet(q) => live \cup {n + 1} \subseteq ToSet(r)
<1> DEFINE r == Claim(q, live, n + 1)
           m == Len(q)
<1>1. m \in Nat \ {0} /\ (\A i \in 1..m : q[i] \in Nat /\ q[i] <= n) /\ Last(q) = q[m]
  BY HistoryFacts DEF Below
<1>2. CASE Abandoned(Last(q), live)
  <2>1. r \in History /\ Len(r) = m /\ (\A i \in 1..m - 1 : r[i] = q[i]) /\ r[m] = n + 1
    BY <1>2, ReplaceHistory DEF Claim
  <2> HIDE DEF r, m
  <2>2. Below(r, n + 1)
    <3>1. ASSUME NEW i \in 1..Len(r) PROVE r[i] <= n + 1
      <4>1. CASE i = m
        BY <2>1, <4>1
      <4>2. CASE i # m
        <5>1. i \in 1..m - 1 /\ r[i] = q[i] /\ q[i] \in Nat /\ q[i] <= n
          BY <1>1, <2>1, <4>2
        <5>2. QED
          BY <5>1
      <4>3. QED
        BY <4>1, <4>2
    <3>2. QED
      BY <3>1 DEF Below
  <2>3. ASSUME Climbs(q) PROVE Climbs(r)
    <3>1. ASSUME NEW i \in 1..Len(r), NEW j \in 1..Len(r), i < j, r[i] # NoOverlay PROVE r[i] < r[j]
      <4>1. i \in 1..m - 1 /\ i \in 1..m /\ r[i] = q[i] /\ q[i] \in Nat /\ q[i] <= n
        BY <1>1, <2>1, <3>1
      <4>2. CASE j = m
        BY <2>1, <4>1, <4>2
      <4>3. CASE j # m
        <5>1. j \in 1..m - 1 /\ j \in 1..m /\ r[j] = q[j]
          BY <1>1, <2>1, <4>3
        <5>2. QED
          BY <2>3, <3>1, <4>1, <5>1 DEF Climbs, m
      <4>4. QED
        BY <4>2, <4>3
    <3>2. QED
      BY <3>1 DEF Climbs
  <2>4. Last(r) = n + 1 /\ n + 1 \in ToSet(r)
    BY <2>1, HistoryFacts
  <2>5. ASSUME live \subseteq ToSet(q), NEW e \in live PROVE e \in ToSet(r)
    <3>1. PICK i \in 1..m : q[i] = e
      BY <2>5, HistoryFacts DEF m
    <3>2. i # m
      BY <1>1, <1>2, <3>1 DEF Abandoned
    <3>3. i \in 1..Len(r) /\ r[i] = e
      BY <1>1, <2>1, <3>1, <3>2
    <3>4. QED
      BY <2>1, <3>3, HistoryFacts
  <2>6. QED
    BY <2>1, <2>2, <2>3, <2>4, <2>5 DEF r
<1>3. CASE ~Abandoned(Last(q), live)
  <2>1. r \in History /\ Len(r) = m + 1 /\ (\A i \in 1..m : r[i] = q[i]) /\ r[m + 1] = n + 1
    BY <1>3, AppendHistory DEF Claim
  <2> HIDE DEF r, m
  <2>2. Below(r, n + 1)
    <3>1. ASSUME NEW i \in 1..Len(r) PROVE r[i] <= n + 1
      <4>1. CASE i = m + 1
        BY <2>1, <4>1
      <4>2. CASE i # m + 1
        <5>1. i \in 1..m /\ r[i] = q[i] /\ q[i] \in Nat /\ q[i] <= n
          BY <1>1, <2>1, <4>2
        <5>2. QED
          BY <5>1
      <4>3. QED
        BY <4>1, <4>2
    <3>2. QED
      BY <3>1 DEF Below
  <2>3. ASSUME Climbs(q) PROVE Climbs(r)
    <3>1. ASSUME NEW i \in 1..Len(r), NEW j \in 1..Len(r), i < j, r[i] # NoOverlay PROVE r[i] < r[j]
      <4>1. i \in 1..m /\ r[i] = q[i] /\ q[i] \in Nat /\ q[i] <= n
        BY <1>1, <2>1, <3>1
      <4>2. CASE j = m + 1
        BY <2>1, <4>1, <4>2
      <4>3. CASE j # m + 1
        <5>1. j \in 1..m /\ r[j] = q[j]
          BY <1>1, <2>1, <4>3
        <5>2. QED
          BY <2>3, <3>1, <4>1, <5>1 DEF Climbs, m
      <4>4. QED
        BY <4>2, <4>3
    <3>2. QED
      BY <3>1 DEF Climbs
  <2>4. Last(r) = n + 1 /\ n + 1 \in ToSet(r)
    BY <1>1, <2>1, HistoryFacts
  <2>5. ASSUME live \subseteq ToSet(q), NEW e \in live PROVE e \in ToSet(r)
    <3>1. PICK i \in 1..m : q[i] = e
      BY <2>5, HistoryFacts DEF m
    <3>2. i \in 1..Len(r) /\ r[i] = e
      BY <1>1, <2>1, <3>1
    <3>3. QED
      BY <2>1, <3>2, HistoryFacts
  <2>6. QED
    BY <2>1, <2>2, <2>3, <2>4, <2>5 DEF r
<1>4. QED
  BY <1>2, <1>3

\* A page on top has nothing but pages below it.
LEMMA OnlyPages ==
  ASSUME NEW q \in History, Climbs(q)
  PROVE  /\ Last(q) = NoOverlay => \A i \in 1..Len(q) : q[i] = NoOverlay
         /\ Len(q) > 1 /\ q[Len(q) - 1] = NoOverlay => \A i \in 1..Len(q) - 1 : q[i] = NoOverlay
         /\ Len(q) > 1 /\ Last(q) # NoOverlay => q[Len(q) - 1] # Last(q)
<1> DEFINE m == Len(q)
<1>1. /\ m \in Nat \ {0} /\ (\A i \in 1..m : q[i] \in Nat) /\ Last(q) = q[m]
      /\ \A i, j \in 1..m : i < j /\ q[i] # 0 => q[i] < q[j]
  BY HistoryFacts DEF Climbs, NoOverlay
<1> HIDE DEF m
<1>2. ASSUME NEW i \in 1..m, q[m] = 0 PROVE q[i] = 0
  <2>1. i = m \/ (i < m /\ m \in 1..m)
    BY <1>1
  <2>2. QED
    BY <1>1, <1>2, <2>1
<1>3. ASSUME NEW i \in 1..m - 1, q[m - 1] = 0 PROVE q[i] = 0
  <2>1. i \in 1..m /\ m - 1 \in 1..m /\ (i = m - 1 \/ i < m - 1)
    BY <1>1
  <2>2. q[i] \in Nat /\ (i < m - 1 /\ q[i] # 0 => q[i] < q[m - 1])
    BY <1>1, <2>1
  <2>3. QED
    BY <1>3, <2>1, <2>2
<1>4. ASSUME m > 1, q[m] # 0 PROVE q[m - 1] # q[m]
  <2>1. m - 1 \in 1..m /\ m \in 1..m /\ m - 1 < m
    BY <1>1, <1>4
  <2>2. q[m - 1] \in Nat /\ q[m] \in Nat /\ (q[m - 1] # 0 => q[m - 1] < q[m])
    BY <1>1, <2>1
  <2>3. QED
    BY <1>4, <2>2
<1>5. QED
  BY <1>1, <1>2, <1>3, <1>4 DEF m, NoOverlay

LEMMA ClaimOnTop ==
  ASSUME NEW q \in History, NEW n \in Nat, Below(q, n), NEW live \in SUBSET (1..n),
         OnTop(q, live),
         ~Abandoned(Last(q), live) => \A i \in 1..Len(q) : q[i] \in live => i = Len(q)
  PROVE  OnTop(Claim(q, live, n + 1), live \cup {n + 1})
<1> DEFINE r == Claim(q, live, n + 1)
           m == Len(q)
<1>1. m \in Nat \ {0} /\ (\A i \in 1..m : q[i] \in Nat /\ q[i] <= n)
  BY HistoryFacts DEF Below
<1>2. \A i \in 1..m : q[i] \in live \cup {n + 1} => q[i] \in live
  BY <1>1
<1>3. CASE Abandoned(Last(q), live)
  <2>1. Len(r) = m /\ (\A i \in 1..m - 1 : r[i] = q[i])
    BY <1>3, ReplaceHistory DEF Claim
  <2> HIDE DEF r
  <2>2. ASSUME NEW i \in 1..Len(r), r[i] \in live \cup {n + 1} PROVE i >= Len(r) - 1
    <3>1. CASE i = m
      BY <1>1, <2>1, <3>1
    <3>2. CASE i # m
      <4>1. i \in 1..m - 1 /\ i \in 1..m /\ r[i] = q[i]
        BY <1>1, <2>1, <3>2
      <4>2. q[i] \in live
        BY <1>2, <2>2, <4>1
      <4>3. QED
        BY <2>1, <4>1, <4>2 DEF OnTop
    <3>3. QED
      BY <3>1, <3>2
  <2>3. QED
    BY <2>2 DEF OnTop, r
<1>4. CASE ~Abandoned(Last(q), live)
  <2>1. Len(r) = m + 1 /\ (\A i \in 1..m : r[i] = q[i])
    BY <1>4, AppendHistory DEF Claim
  <2> HIDE DEF r
  <2>2. ASSUME NEW i \in 1..Len(r), r[i] \in live \cup {n + 1} PROVE i >= Len(r) - 1
    <3>1. CASE i = m + 1
      BY <1>1, <2>1, <3>1
    <3>2. CASE i # m + 1
      <4>1. i \in 1..m /\ r[i] = q[i]
        BY <1>1, <2>1, <3>2
      <4>2. q[i] \in live
        BY <1>2, <2>2, <4>1
      <4>3. i = m
        BY <1>4, <4>1, <4>2
      <4>4. QED
        BY <1>1, <2>1, <4>3
    <3>3. QED
      BY <3>1, <3>2
  <2>3. QED
    BY <2>2 DEF OnTop, r
<1>5. QED
  BY <1>3, <1>4

-----------------------------------------------------------------------------
(* One commit. *)

LEMMA CommitKeeps ==
  ASSUME ShapeInv, NEW closing, NEW opens \in BOOLEAN, NEW st \in History, Below(st, overlaySeq),
         overlaySeq' = IF opens THEN overlaySeq + 1 ELSE overlaySeq,
         liveOverlays' = IF opens THEN (liveOverlays \ closing) \cup {overlaySeq + 1}
                                  ELSE liveOverlays \ closing,
         stack' = IF opens THEN Claim(st, liveOverlays \ closing, overlaySeq + 1) ELSE st
  PROVE  /\ stack' \in History /\ Below(stack', overlaySeq')
         /\ overlaySeq' \in Nat /\ liveOverlays' \subseteq 1..overlaySeq'
         /\ Climbs(st) /\ liveOverlays \ closing \subseteq ToSet(st)
              => Climbs(stack') /\ liveOverlays' \subseteq ToSet(stack')
         /\ opens => Last(stack') \in liveOverlays'
<1> DEFINE rest == liveOverlays \ closing
           id == overlaySeq + 1
<1>1. rest \in SUBSET (1..overlaySeq) /\ overlaySeq \in Nat /\ rest \cup {id} \subseteq 1..id
  <2>1. overlaySeq \in Nat /\ rest \in SUBSET (1..overlaySeq)
    BY DEF ShapeInv
  <2>2. 1..overlaySeq \subseteq 1..id /\ id \in 1..id
    BY <2>1
  <2> HIDE DEF rest, id
  <2>3. QED
    BY <2>1, <2>2
<1> HIDE DEF rest, id
<1>2. CASE opens
  <2>1. /\ stack' \in History /\ Below(stack', id) /\ Last(stack') = id
        /\ Climbs(st) => Climbs(stack')
        /\ rest \subseteq ToSet(st) => rest \cup {id} \subseteq ToSet(stack')
    BY <1>1, <1>2, ClaimKeeps DEF id, rest
  <2>2. overlaySeq' = id /\ liveOverlays' = rest \cup {id} /\ id \in Nat
    BY <1>1, <1>2 DEF id, rest
  <2>3. QED
    BY <1>1, <1>2, <2>1, <2>2 DEF rest
<1>3. CASE ~opens
  <2>1. overlaySeq' = overlaySeq /\ liveOverlays' = rest /\ stack' = st
    BY <1>3 DEF rest
  <2>2. QED
    BY <1>1, <1>3, <2>1 DEF rest
<1>4. QED
  BY <1>2, <1>3

\* A navigation that strands no entry finds pages only, and leaves them.
LEMMA NavigatedKeeps ==
  ASSUME ShapeInv, NEW nav \in {"stay", "push", "replace"}
  PROVE  /\ Navigated(nav) \in History /\ Below(Navigated(nav), overlaySeq)
         /\ nav = "stay" => Navigated(nav) = stack
         /\ nav # "stay" => Last(Navigated(nav)) = NoOverlay
         /\ \A closing :
              /\ nav # "stay" /\ Climbs(stack) /\ liveOverlays \subseteq ToSet(stack)
              /\ Last(Front(Navigated(nav))) = NoOverlay /\ Last(stack) \notin liveOverlays \ closing
              => /\ \A i \in 1..Len(Navigated(nav)) : Navigated(nav)[i] = NoOverlay
                 /\ liveOverlays \ closing = {}
<1> DEFINE q == stack
           m == Len(stack)
           r == Navigated(nav)
<1>1. /\ q \in History /\ m \in Nat \ {0} /\ (\A i \in 1..m : q[i] \in Nat /\ q[i] <= overlaySeq)
      /\ overlaySeq \in Nat /\ liveOverlays \subseteq 1..overlaySeq /\ NoOverlay \in Nat
      /\ NoOverlay <= overlaySeq /\ NoOverlay \notin liveOverlays /\ Last(q) = q[m]
  BY HistoryFacts DEF ShapeInv, Below, NoOverlay
<1>2. CASE nav = "stay"
  BY <1>1, <1>2 DEF Navigated, Below
<1>3. CASE nav = "push"
  <2>1. r \in History /\ Len(r) = m + 1 /\ (\A i \in 1..m : r[i] = q[i]) /\ r[m + 1] = NoOverlay
    BY <1>1, <1>3, AppendHistory DEF Navigated
  <2> HIDE DEF r, m, q
  <2>2. \A i \in 1..Len(r) : i = m + 1 \/ i \in 1..m
    BY <1>1, <2>1
  <2>3. Below(r, overlaySeq)
    BY <1>1, <2>1, <2>2 DEF Below
  <2>4. Last(r) = NoOverlay
    BY <1>1, <2>1, HistoryFacts
  <2>5. ASSUME Climbs(q), liveOverlays \subseteq ToSet(q), NEW closing, Last(Front(r)) = NoOverlay
        PROVE  (\A i \in 1..Len(r) : r[i] = NoOverlay) /\ liveOverlays \ closing = {}
    <3>1. Last(Front(r)) = r[m] /\ m \in 1..m
      <4>1. Len(r) > 1 /\ Len(r) - 1 = m
        BY <1>1, <2>1
      <4>2. Last(Front(r)) = r[Len(r) - 1]
        BY <2>1, <2>3, <4>1, PopKeeps
      <4>3. QED
        BY <1>1, <4>1, <4>2
    <3>2. Last(q) = NoOverlay
      BY <1>1, <2>1, <2>5, <3>1
    <3>3. \A i \in 1..m : q[i] = NoOverlay
      BY <1>1, <2>5, <3>2, OnlyPages DEF m, q
    <3>4. liveOverlays = {}
      BY <1>1, <2>5, <3>3, HistoryFacts DEF m, q
    <3>5. QED
      BY <2>1, <2>2, <3>3, <3>4
  <2>6. QED
    BY <1>3, <2>1, <2>3, <2>4, <2>5 DEF r, q
<1>4. CASE nav = "replace"
  <2>1. r \in History /\ Len(r) = m /\ (\A i \in 1..m - 1 : r[i] = q[i]) /\ r[m] = NoOverlay
    BY <1>1, <1>4, ReplaceHistory DEF Navigated
  <2> HIDE DEF r, m, q
  <2>2. \A i \in 1..m : i = m \/ (i \in 1..m - 1 /\ m > 1)
    BY <1>1
  <2>3. Below(r, overlaySeq)
    BY <1>1, <2>1, <2>2 DEF Below
  <2>4. Last(r) = NoOverlay
    BY <1>1, <2>1, HistoryFacts
  <2>5. ASSUME Climbs(q), liveOverlays \subseteq ToSet(q), NEW closing, Last(Front(r)) = NoOverlay,
               Last(q) \notin liveOverlays \ closing
        PROVE  (\A i \in 1..Len(r) : r[i] = NoOverlay) /\ liveOverlays \ closing = {}
    <3>1. ASSUME NEW i \in 1..m - 1 PROVE q[i] = NoOverlay
      <4>1. m > 1 /\ m - 1 \in 1..m - 1
        BY <1>1
      <4>2. Last(Front(r)) = r[Len(r) - 1]
        BY <2>1, <2>3, <4>1, PopKeeps
      <4>3. q[m - 1] = NoOverlay
        BY <2>1, <2>5, <4>1, <4>2
      <4>4. QED
        BY <1>1, <2>5, <4>1, <4>3, OnlyPages DEF m, q
    <3>2. ASSUME NEW e \in liveOverlays \ closing PROVE FALSE
      <4>1. PICK i \in 1..m : q[i] = e
        BY <1>1, <2>5, HistoryFacts DEF m, q
      <4>2. QED
        BY <1>1, <2>2, <2>5, <3>1, <4>1
    <3>3. QED
      BY <2>1, <2>2, <3>1, <3>2
  <2>6. QED
    BY <1>4, <2>1, <2>3, <2>4, <2>5 DEF r, q
<1>5. QED
  BY <1>2, <1>3, <1>4

-----------------------------------------------------------------------------
(* The steps. *)

LEMMA OverlayInitOK == OverlayInit => OverlayInv
<1> SUFFICES ASSUME OverlayInit PROVE OverlayInv
  OBVIOUS
<1>1. /\ stack = [i \in 1..(Depth + 1) |-> 0] /\ liveOverlays = {} /\ overlaySeq = 0
      /\ unwinding = FALSE /\ pops = 0 /\ presses = 0 /\ dismissed = 0 /\ pagesBack = 0
  BY DEF OverlayInit, NoOverlay
<1>2. Depth + 1 \in Nat \ {0}
  BY OverlayAssumption
<1> DEFINE d == Depth + 1
<1> HIDE DEF d
<1>3. [i \in 1..d |-> 0] \in Seq(Nat) /\ Len([i \in 1..d |-> 0]) = d
  BY <1>2 DEF d
<1>4. stack \in History /\ Len(stack) = d /\ \A i \in 1..d : stack[i] = 0
  BY <1>1, <1>2, <1>3, EmptySeq DEF History, d
<1>5. Below(stack, 0) /\ Climbs(stack) /\ Last(stack) = 0
  BY <1>2, <1>4, HistoryFacts DEF Below, Climbs, NoOverlay, d
<1>6. ShapeInv /\ StackInv
  <2>1. 0 \in Nat /\ {} \subseteq 1..0 /\ {} \subseteq ToSet(stack) /\ {0, 0, 0} \subseteq Nat
    OBVIOUS
  <2>2. Below(stack, overlaySeq)
    BY <1>1, <1>5
  <2>3. ShapeInv
    BY <1>1, <1>4, <2>1, <2>2 DEF ShapeInv
  <2>4. StackInv
    BY <1>1, <1>5, <2>1 DEF StackInv
  <2>5. QED
    BY <2>3, <2>4
<1>7. TidyInv
  BY <1>5 DEF TidyInv, Abandoned, NoOverlay
<1>8. PressInv
  <2>1. Balanced
    <3>1. ~unwinding /\ 0 = 0 + 0 + 0 - 0
      BY <1>1
    <3>2. QED
      BY <1>1, <3>1 DEF Balanced
  <2>2. Unwinds /\ OnTop(stack, liveOverlays)
    BY <1>1 DEF Unwinds, OnTop
  <2>3. QED
    BY <2>1, <2>2 DEF PressInv
<1>9. QED
  BY <1>6, <1>7, <1>8 DEF OverlayInv

\* The races only gather.
LEMMA ClearBefore ==
  ASSUME NEW w, races \subseteq races', Clear(w)'
  PROVE  Clear(w)
BY DEF Clear

LEMMA ClearOfAll ==
  ASSUME Clear(Races)
  PROVE  Clear({"strand"}) /\ Clear({"strand", "late"})
BY DEF Clear, Races

LEMMA RacesOfATap ==
  ASSUME NEW closing, NEW opens, NEW nav, races' = races \cup RacesOfTap(closing, opens, nav)
  PROVE  /\ races \subseteq races'
         /\ Clear({"strand"})' /\ nav # "stay"
              => /\ Last(Front(Navigated(nav))) = NoOverlay
                 /\ Last(stack) \notin liveOverlays \ closing
         /\ Clear(Races)' =>
              /\ pops > 0 => ~opens /\ nav = "stay"
              /\ opens => ~(Cardinality(liveOverlays \ closing) > 1)
BY DEF RacesOfTap, Clear, Races

LEMMA CountsNothing ==
  ASSUME ShapeInv, UNCHANGED <<presses, dismissed, pagesBack>>
  PROVE  {presses, dismissed, pagesBack}' \subseteq Nat
BY DEF ShapeInv

LEMMA TwoAreTwo ==
  ASSUME NEW n \in Nat, NEW S \in SUBSET (1..n), NEW a \in S, NEW b \in S, a # b
  PROVE  Cardinality(S) > 1
<1>1. IsFiniteSet(S)
  <2>1. IsFiniteSet(1..n)
    BY FS_Interval
  <2>2. QED
    BY <2>1, FS_Subset
<1>2. {a, b} \subseteq S /\ IsFiniteSet({a, b}) /\ Cardinality({a, b}) = 2
  <2>1. IsFiniteSet({a}) /\ Cardinality({a}) = 1
    BY FS_Singleton
  <2>2. IsFiniteSet({a} \cup {b}) /\ Cardinality({a} \cup {b}) = Cardinality({a}) + 1
    BY <2>1, FS_AddElement
  <2>3. {a} \cup {b} = {a, b}
    OBVIOUS
  <2>4. QED
    BY <2>1, <2>2, <2>3
<1>3. Cardinality({a, b}) <= Cardinality(S) /\ Cardinality(S) \in Nat
  BY <1>1, <1>2, FS_Subset, FS_CardinalityType
<1>4. QED
  BY <1>2, <1>3

LEMMA TapKeeps ==
  ASSUME OverlayInv, NEW closing \in SUBSET liveOverlays, NEW opens \in BOOLEAN,
         NEW nav \in {"stay", "push", "replace"}, Tap(closing, opens, nav)
  PROVE  OverlayInv'
<1> DEFINE st == Navigated(nav)
           rest == liveOverlays \ closing
<1>1. /\ Commit(closing, opens, st, unwinding, pops, FALSE)
      /\ races' = races \cup RacesOfTap(closing, opens, nav)
      /\ UNCHANGED <<presses, dismissed, pagesBack>>
  BY DEF Tap
<1>2. /\ ShapeInv /\ StackInv /\ TidyInv /\ PressInv
      /\ unwinding \in BOOLEAN /\ pops \in Nat /\ overlaySeq \in Nat
      /\ liveOverlays \in SUBSET (1..overlaySeq) /\ stack \in History
  BY DEF OverlayInv, ShapeInv
<1>3. /\ st \in History /\ Below(st, overlaySeq)
      /\ nav = "stay" => st = stack
      /\ nav # "stay" => Last(st) = NoOverlay
  BY <1>2, NavigatedKeeps
<1>4. /\ races \subseteq races'
      /\ Clear({"strand"})' /\ nav # "stay" => /\ Last(Front(st)) = NoOverlay /\ Last(stack) \notin rest
      /\ Clear(Races)' => /\ pops > 0 => ~opens /\ nav = "stay"
                          /\ opens => ~(Cardinality(rest) > 1)
  BY <1>1, RacesOfATap
<1>5. /\ Clear({"strand"})' => Climbs(stack) /\ liveOverlays \subseteq ToSet(stack)
      /\ Clear({"strand"})' /\ nav # "stay" => (\A i \in 1..Len(st) : st[i] = NoOverlay) /\ rest = {}
  <2>1. ASSUME Clear({"strand"})' PROVE Climbs(stack) /\ liveOverlays \subseteq ToSet(stack)
    BY <1>2, <1>4, <2>1, ClearBefore DEF StackInv
  <2>2. ASSUME Clear({"strand"})', nav # "stay"
        PROVE  (\A i \in 1..Len(st) : st[i] = NoOverlay) /\ rest = {}
    BY <1>2, <1>4, <2>1, <2>2, NavigatedKeeps
  <2>3. QED
    BY <2>1, <2>2
<1> HIDE DEF st, rest
<1>6. /\ overlaySeq' = IF opens THEN overlaySeq + 1 ELSE overlaySeq
      /\ liveOverlays' = IF opens THEN rest \cup {overlaySeq + 1} ELSE rest
      /\ stack' = IF opens THEN Claim(st, rest, overlaySeq + 1) ELSE st
      /\ closing # {} /\ ~unwinding /\ Abandoned(Last(stack'), liveOverlays')
           => unwinding' /\ pops' = pops + 1
      /\ ~(closing # {} /\ ~unwinding /\ Abandoned(Last(stack'), liveOverlays'))
           => (unwinding' <=> unwinding) /\ pops' = pops
      /\ unwinding' \in BOOLEAN
  <2>1. /\ overlaySeq' = IF opens THEN overlaySeq + 1 ELSE overlaySeq
        /\ liveOverlays' = IF opens THEN rest \cup {overlaySeq + 1} ELSE rest
        /\ stack' = IF opens THEN Claim(st, rest, overlaySeq + 1) ELSE st
    BY <1>1 DEF Commit, rest
  <2>2. IF closing # {} THEN Unwind(stack', liveOverlays', unwinding, pops)
        ELSE unwinding' = unwinding /\ pops' = pops
    BY <1>1 DEF Commit, Unwind
  <2>3. CASE closing # {}
    <3> DEFINE goes == ~unwinding /\ Abandoned(Last(stack'), liveOverlays')
    <3>1. unwinding' = (unwinding \/ goes) /\ pops' = pops + (IF goes THEN 1 ELSE 0) /\ goes \in BOOLEAN
      BY <2>2, <2>3 DEF Unwind
    <3>2. goes <=> closing # {} /\ ~unwinding /\ Abandoned(Last(stack'), liveOverlays')
      BY <2>3
    <3> HIDE DEF goes
    <3>3. (unwinding' <=> unwinding \/ goes) /\ unwinding' \in BOOLEAN
      BY <1>2, <3>1
    <3>4. (goes => pops' = pops + 1) /\ (~goes => pops' = pops)
      BY <1>2, <3>1
    <3>5. QED
      BY <2>1, <3>2, <3>3, <3>4
  <2>4. CASE closing = {}
    BY <1>2, <2>1, <2>2, <2>4
  <2>5. QED
    BY <2>3, <2>4
<1>7. /\ stack' \in History /\ Below(stack', overlaySeq')
      /\ overlaySeq' \in Nat /\ liveOverlays' \subseteq 1..overlaySeq'
      /\ Climbs(st) /\ rest \subseteq ToSet(st) => Climbs(stack') /\ liveOverlays' \subseteq ToSet(stack')
      /\ opens => Last(stack') \in liveOverlays'
  BY <1>2, <1>3, <1>6, CommitKeeps DEF rest
<1>8. ShapeInv'
  <2>1. pops' \in Nat /\ {presses, dismissed, pagesBack}' \subseteq Nat
    BY <1>1, <1>2, <1>6 DEF ShapeInv
  <2>2. QED
    BY <1>6, <1>7, <2>1 DEF ShapeInv
<1>9. StackInv'
  <2>1. ASSUME Clear({"strand"})' PROVE Climbs(st) /\ rest \subseteq ToSet(st)
    <3>1. CASE nav = "stay"
      BY <1>3, <1>5, <2>1, <3>1 DEF rest
    <3>2. CASE nav # "stay"
      BY <1>5, <2>1, <3>2 DEF Climbs
    <3>3. QED
      BY <3>1, <3>2
  <2>2. QED
    BY <1>7, <2>1 DEF StackInv
<1>10. TidyInv'
  <2>1. SUFFICES ASSUME Clear({"strand", "late"})', ~unwinding' PROVE ~Abandoned(Last(stack'), liveOverlays')
    BY DEF TidyInv
  <2>2. CASE closing # {}
    BY <1>2, <1>6, <2>1, <2>2
  <2>3. CASE closing = {} /\ opens
    BY <1>7, <2>3 DEF Abandoned
  <2>4. CASE closing = {} /\ ~opens /\ nav # "stay"
    BY <1>3, <1>6, <2>4 DEF Abandoned
  <2>5. CASE closing = {} /\ ~opens /\ nav = "stay"
    <3>1. ~unwinding /\ Clear({"strand", "late"})
      BY <1>4, <1>6, <2>1, <2>5, ClearBefore
    <3>2. ~Abandoned(Last(stack), liveOverlays)
      BY <1>2, <3>1 DEF TidyInv
    <3>3. QED
      BY <1>3, <1>6, <2>5, <3>2 DEF rest
  <2>6. QED
    BY <2>2, <2>3, <2>4, <2>5
<1>11. PressInv'
  <2>1. SUFFICES ASSUME Clear(Races)'
                 PROVE  Balanced' /\ Unwinds' /\ OnTop(stack', liveOverlays')
    BY DEF PressInv
  <2>2. /\ Balanced /\ Unwinds /\ OnTop(stack, liveOverlays)
        /\ Clear({"strand"})' /\ {presses, dismissed, pagesBack} \subseteq Nat
    BY <1>2, <1>4, <2>1, ClearBefore, ClearOfAll DEF PressInv, ShapeInv, Clear, Races
  <2>3. CASE unwinding
    <3>1. pops > 0 /\ ~opens /\ nav = "stay" /\ stack' = stack /\ liveOverlays' = rest
      BY <1>3, <1>4, <1>6, <2>1, <2>2, <2>3 DEF Unwinds
    <3>2. unwinding' /\ pops' = pops
      <4>1. CASE closing # {}
        BY <1>2, <1>6, <2>3, <4>1
      <4>2. CASE closing = {}
        BY <1>6, <2>3, <4>2
      <4>3. QED
        BY <4>1, <4>2
    <3>3. Abandoned(Last(stack), rest)
      BY <2>2, <2>3 DEF Unwinds, Abandoned, rest
    <3>4. OnTop(stack, rest)
      BY <2>2 DEF OnTop, rest
    <3>5. Balanced'
      BY <1>1, <2>2, <2>3, <3>2 DEF Balanced
    <3>6. QED
      BY <3>1, <3>2, <3>3, <3>4, <3>5 DEF Unwinds
  <2>4. CASE ~unwinding
    <3>1. Balanced' /\ Unwinds'
      <4>1. CASE unwinding'
        <5>1. closing # {} /\ Abandoned(Last(stack'), liveOverlays') /\ pops' = pops + 1
          BY <1>2, <1>6, <2>4, <4>1
        <5>2. QED
          BY <1>1, <1>2, <2>2, <2>4, <4>1, <5>1 DEF Balanced, Unwinds
      <4>2. CASE ~unwinding'
        <5>1. pops' = pops
          BY <1>2, <1>6, <2>4, <4>2
        <5>2. QED
          BY <1>1, <1>2, <2>2, <2>4, <4>2, <5>1 DEF Balanced, Unwinds
      <4>3. QED
        BY <4>1, <4>2
    <3>2. OnTop(st, rest) /\ (opens /\ ~Abandoned(Last(st), rest) => \A i \in 1..Len(st) : st[i] \in rest => i = Len(st))
      <4>1. CASE nav # "stay"
        BY <1>5, <2>2, <4>1 DEF OnTop
      <4>2. CASE nav = "stay"
        <5>1. st = stack /\ OnTop(st, rest)
          BY <1>3, <2>2, <4>2 DEF OnTop, rest
        <5>2. ASSUME opens, ~Abandoned(Last(st), rest), NEW i \in 1..Len(st), st[i] \in rest, i # Len(st)
              PROVE  FALSE
          <6>1. /\ Len(st) \in Nat \ {0} /\ Last(st) = st[Len(st)] /\ st[Len(st)] \in Nat
            BY <1>3, HistoryFacts
          <6>2. rest \in SUBSET (1..overlaySeq) /\ NoOverlay \notin rest
            BY <1>2 DEF rest, NoOverlay
          <6>3. Climbs(st)
            BY <1>5, <2>2, <5>1
          <6>4. st[i] < st[Len(st)] /\ st[i] \in Nat
            <7> DEFINE m == Len(st)
            <7>1. m \in Nat \ {0} /\ i \in 1..m /\ m \in 1..m /\ i < m /\ st[i] # NoOverlay
              BY <5>2, <6>1, <6>2
            <7>2. st[i] < st[m]
              BY <6>3, <7>1 DEF Climbs
            <7>3. st[i] \in Nat
              BY <1>3, <7>1, HistoryFacts
            <7>4. QED
              BY <7>2, <7>3
          <6>5. Last(st) \in rest /\ Last(st) # st[i]
            BY <5>2, <6>1, <6>2, <6>4 DEF Abandoned, NoOverlay
          <6>6. Cardinality(rest) > 1
            BY <1>2, <5>2, <6>2, <6>5, TwoAreTwo
          <6>7. QED
            BY <1>4, <2>1, <5>2, <6>6
        <5>3. QED
          BY <5>1, <5>2
      <4>3. QED
        BY <4>1, <4>2
    <3>3. OnTop(stack', liveOverlays')
      <4>1. CASE opens
        <5>1. rest \in SUBSET (1..overlaySeq)
          BY <1>2 DEF rest
        <5>2. QED
          BY <1>2, <1>3, <1>6, <3>2, <4>1, <5>1, ClaimOnTop
      <4>2. CASE ~opens
        BY <1>6, <3>2, <4>2
      <4>3. QED
        BY <4>1, <4>2
    <3>4. QED
      BY <3>1, <3>3
  <2>5. QED
    BY <1>2, <2>3, <2>4
<1>12. QED
  BY <1>8, <1>9, <1>10, <1>11 DEF OverlayInv

\* The open overlays of which each has but one entry above its own.
LEMMA TopTwo ==
  ASSUME NEW q \in History, Len(q) > 1, NEW live, OnTop(q, live), live \subseteq ToSet(q)
  PROVE  live \subseteq {q[Len(q) - 1], Last(q)}
<1> DEFINE m == Len(q)
<1>1. m \in Nat \ {0} /\ Last(q) = q[m]
  BY HistoryFacts
<1> SUFFICES ASSUME NEW e \in live PROVE e \in {q[m - 1], q[m]}
  BY <1>1
<1>2. PICK i \in 1..m : q[i] = e
  BY HistoryFacts
<1>3. i >= m - 1
  BY <1>2 DEF OnTop
<1> HIDE DEF m
<1>4. i = m \/ i = m - 1
  BY <1>1, <1>2, <1>3
<1>5. QED
  BY <1>2, <1>4

\* An overlay whose entry is the last has no second one.
LEMMA TopOnly ==
  ASSUME NEW q \in History, Climbs(q), NEW live \in SUBSET {Last(q)}, NoOverlay \notin live
  PROVE  /\ \A i \in 1..Len(q) : q[i] \in live => i = Len(q)
         /\ OnTop(q, live)
<1> DEFINE m == Len(q)
<1>1. m \in Nat \ {0} /\ m \in 1..m /\ Last(q) = q[m] /\ (\A i \in 1..m : q[i] \in Nat)
  BY HistoryFacts
<1>2. ASSUME NEW i \in 1..m, q[i] \in live PROVE i = m
  <2>1. q[i] = q[m] /\ q[i] # NoOverlay
    BY <1>1, <1>2
  <2>2. i < m => q[i] < q[m]
    BY <1>1, <2>1 DEF Climbs
  <2> HIDE DEF m
  <2>3. QED
    BY <1>1, <2>1, <2>2
<1>3. \A i \in 1..m : i = m => i >= m - 1
  BY <1>1
<1>4. QED
  BY <1>2, <1>3 DEF OnTop

LEMMA PopArrivesKeeps ==
  ASSUME OverlayInv, NEW asks \in BOOLEAN, PopArrives(asks)
  PROVE  OverlayInv'
<1> DEFINE st == Front(stack)
           t == Last(st)
           closing == liveOverlays \ {t}
           rest == liveOverlays \ closing
<1>1. /\ pops > 0 /\ Len(stack) > 1 /\ (asks => ~unwinding /\ closing # {})
      /\ Commit(closing, asks, st, FALSE, pops - 1, unwinding)
      /\ dismissed' = dismissed + Cardinality(closing)
      /\ pagesBack' = pagesBack + (IF Last(stack) = NoOverlay THEN 1 ELSE 0)
      /\ UNCHANGED <<presses, races>>
  BY DEF PopArrives, LandedElsewhere, Resumes
<1>2. /\ ShapeInv /\ StackInv /\ TidyInv /\ PressInv
      /\ unwinding \in BOOLEAN /\ pops \in Nat /\ pops - 1 \in Nat /\ overlaySeq \in Nat
      /\ liveOverlays \in SUBSET (1..overlaySeq) /\ stack \in History /\ Below(stack, overlaySeq)
      /\ {presses, dismissed, pagesBack} \subseteq Nat
  BY <1>1 DEF OverlayInv, ShapeInv
<1>3. /\ st \in History /\ Below(st, overlaySeq) /\ t = stack[Len(stack) - 1]
      /\ Climbs(stack) => Climbs(st)
      /\ t \in ToSet(st)
  BY <1>1, <1>2, PopKeeps, FrontHistory, HistoryFacts
<1>4. /\ rest = liveOverlays \cap {t} /\ NoOverlay \notin liveOverlays
      /\ rest \in SUBSET (1..overlaySeq) /\ rest \subseteq ToSet(st)
  <2>1. rest = liveOverlays \cap {t} /\ rest \subseteq liveOverlays /\ rest \subseteq {t}
    OBVIOUS
  <2> HIDE DEF rest, closing, t, st
  <2>2. NoOverlay \notin liveOverlays
    BY <1>2 DEF NoOverlay
  <2>3. rest \subseteq 1..overlaySeq /\ rest \subseteq ToSet(st)
    BY <1>2, <1>3, <2>1
  <2>4. QED
    BY <2>1, <2>2, <2>3
<1>5. /\ overlaySeq' = IF asks THEN overlaySeq + 1 ELSE overlaySeq
      /\ liveOverlays' = IF asks THEN rest \cup {overlaySeq + 1} ELSE rest
      /\ stack' = IF asks THEN Claim(st, rest, overlaySeq + 1) ELSE st
  BY <1>1 DEF Commit
<1>6. IF closing # {} \/ unwinding THEN Unwind(stack', liveOverlays', FALSE, pops - 1)
      ELSE unwinding' = FALSE /\ pops' = pops - 1
  BY <1>1 DEF Commit, Unwind
<1> DEFINE goes == (closing # {} \/ unwinding) /\ Abandoned(Last(stack'), liveOverlays')
<1>7. /\ unwinding' \in BOOLEAN /\ (unwinding' <=> goes)
      /\ goes => pops' = pops
      /\ ~goes => pops' = pops - 1
  <2>1. CASE closing # {} \/ unwinding
    <3> DEFINE g == Abandoned(Last(stack'), liveOverlays')
    <3>1. unwinding' = g /\ pops' = (pops - 1) + (IF g THEN 1 ELSE 0) /\ g \in BOOLEAN
      BY <1>6, <2>1 DEF Unwind, Abandoned
    <3>2. goes <=> g
      BY <2>1
    <3> HIDE DEF g, goes
    <3>3. (g => pops' = pops) /\ (~g => pops' = pops - 1)
      BY <1>2, <3>1
    <3>4. QED
      BY <3>1, <3>2, <3>3
  <2>2. CASE ~(closing # {} \/ unwinding)
    BY <1>6, <2>2
  <2>3. QED
    BY <2>1, <2>2
<1> HIDE DEF goes, closing, st, t, rest
<1>8. /\ stack' \in History /\ Below(stack', overlaySeq')
      /\ overlaySeq' \in Nat /\ liveOverlays' \subseteq 1..overlaySeq'
      /\ Climbs(st) /\ rest \subseteq ToSet(st) => Climbs(stack') /\ liveOverlays' \subseteq ToSet(stack')
  BY <1>2, <1>3, <1>5, CommitKeeps DEF rest
<1>9. IsFiniteSet(closing) /\ Cardinality(closing) \in Nat
  <2>1. IsFiniteSet(1..overlaySeq) /\ closing \subseteq 1..overlaySeq
    <3>1. 1 \in Int /\ overlaySeq \in Int
      BY <1>2
    <3>2. IsFiniteSet(1..overlaySeq)
      BY <3>1, FS_Interval
    <3>3. QED
      BY <1>2, <3>2 DEF closing
  <2>2. QED
    BY <2>1, FS_Subset, FS_CardinalityType
<1>10. ShapeInv'
  <2>1. pops' \in Nat
    BY <1>2, <1>7
  <2>2. dismissed' \in Nat /\ pagesBack' \in Nat /\ presses' \in Nat
    BY <1>1, <1>2, <1>9
  <2>3. QED
    BY <1>7, <1>8, <2>1, <2>2 DEF ShapeInv
<1>11. StackInv'
  BY <1>1, <1>2, <1>3, <1>4, <1>8 DEF StackInv, Clear
<1>12. TidyInv'
  <2>1. SUFFICES ASSUME Clear({"strand", "late"}), ~unwinding'
                 PROVE  ~Abandoned(Last(stack'), liveOverlays')
    BY <1>1 DEF TidyInv, Clear
  <2>2. CASE closing # {} \/ unwinding
    BY <1>7, <2>1, <2>2 DEF goes
  <2>3. CASE closing = {} /\ ~unwinding
    <3>1. ~asks /\ stack' = st /\ liveOverlays' = liveOverlays /\ liveOverlays \subseteq {t}
      BY <1>1, <1>5, <2>3 DEF closing, rest
    <3>2. Climbs(stack) /\ ~Abandoned(Last(stack), liveOverlays)
      BY <1>2, <2>1, <2>3 DEF StackInv, TidyInv, Clear
    <3>3. Last(stack) \notin liveOverlays
      BY <1>1, <1>2, <1>3, <1>4, <3>1, <3>2, OnlyPages
    <3>4. Last(stack) = NoOverlay
      BY <3>2, <3>3 DEF Abandoned
    <3>5. t = NoOverlay
      <4>1. Len(stack) - 1 \in 1..Len(stack)
        BY <1>1, <1>2, HistoryFacts
      <4>2. QED
        BY <1>2, <1>3, <3>2, <3>4, <4>1, OnlyPages
    <3>6. QED
      BY <3>1, <3>5 DEF Abandoned, t
  <2>4. QED
    BY <2>2, <2>3
<1>13. PressInv'
  <2>1. SUFFICES ASSUME Clear(Races)
                 PROVE  Balanced' /\ Unwinds' /\ OnTop(stack', liveOverlays')
    BY <1>1 DEF PressInv, Clear
  <2>2. /\ Balanced /\ Unwinds /\ OnTop(stack, liveOverlays)
        /\ Climbs(stack) /\ liveOverlays \subseteq ToSet(stack)
        /\ unwinding \/ ~Abandoned(Last(stack), liveOverlays)
    BY <1>2, <2>1, ClearOfAll DEF PressInv, StackInv, TidyInv
  <2>3. liveOverlays \subseteq {t, Last(stack)}
    BY <1>1, <1>2, <1>3, <2>2, TopTwo
  <2>4. /\ \A i \in 1..Len(st) : st[i] \in rest => i = Len(st)
        /\ OnTop(st, rest)
    BY <1>3, <1>4, <2>2, TopOnly DEF t
  <2>5. OnTop(stack', liveOverlays')
    BY <1>2, <1>3, <1>4, <1>5, <2>4, ClaimOnTop
  <2>6. Unwinds'
    BY <1>1, <1>7 DEF Unwinds, goes
  <2>7. presses' = dismissed' + pagesBack' + pops - 1
    <3>1. CASE unwinding
      <4>1. Last(stack) \notin liveOverlays /\ Last(stack) # NoOverlay
        BY <2>2, <3>1 DEF Unwinds, Abandoned
      <4>2. closing = {} /\ Cardinality(closing) = 0
        BY <2>3, <4>1, FS_EmptySet DEF closing
      <4>3. QED
        BY <1>1, <1>2, <2>2, <3>1, <4>1, <4>2 DEF Balanced
    <3>2. CASE ~unwinding /\ Last(stack) = NoOverlay
      <4>1. liveOverlays = {}
        BY <1>2, <1>4, <2>2, <3>2, OnlyPages, HistoryFacts
      <4>2. Cardinality(closing) = 0
        BY <4>1, FS_EmptySet DEF closing
      <4>3. QED
        BY <1>1, <1>2, <2>2, <3>2, <4>2 DEF Balanced
    <3>3. CASE ~unwinding /\ Last(stack) # NoOverlay
      <4>1. Last(stack) \in liveOverlays /\ t # Last(stack)
        BY <1>1, <1>2, <1>3, <2>2, <3>3, OnlyPages DEF Abandoned
      <4>2. closing = {Last(stack)} /\ Cardinality(closing) = 1
        BY <2>3, <4>1, FS_Singleton DEF closing
      <4>3. QED
        BY <1>1, <1>2, <2>2, <3>3, <4>2 DEF Balanced
    <3>4. QED
      BY <1>2, <3>1, <3>2, <3>3
  <2>8. Balanced'
    <3>1. CASE goes
      BY <1>1, <1>2, <1>7, <1>9, <2>7, <3>1 DEF Balanced
    <3>2. CASE ~goes
      BY <1>1, <1>2, <1>7, <1>9, <2>7, <3>2 DEF Balanced
    <3>3. QED
      BY <3>1, <3>2
  <2>9. QED
    BY <2>5, <2>6, <2>8
<1>14. QED
  BY <1>10, <1>11, <1>12, <1>13 DEF OverlayInv

LEMMA OverlayNextOK == OverlayInv /\ [OverlayNext]_overlayVars => OverlayInv'
<1> SUFFICES ASSUME OverlayInv, [OverlayNext]_overlayVars PROVE OverlayInv'
  OBVIOUS
<1>1. /\ ShapeInv /\ StackInv /\ TidyInv /\ PressInv
      /\ unwinding \in BOOLEAN /\ pops \in Nat /\ {presses, dismissed, pagesBack} \subseteq Nat
  BY DEF OverlayInv, ShapeInv
<1>2. ASSUME NEW closing \in SUBSET liveOverlays, NEW opens \in BOOLEAN,
             NEW nav \in {"stay", "push", "replace"}, Tap(closing, opens, nav)
      PROVE  OverlayInv'
  BY <1>2, TapKeeps
<1>3. ASSUME Back PROVE OverlayInv'
  <2>1. /\ presses' = presses + 1 /\ pops' = pops + 1
        /\ UNCHANGED <<stack, liveOverlays, overlaySeq, unwinding, dismissed, pagesBack, races>>
    BY <1>3 DEF Back
  <2>2. ShapeInv'
    BY <1>1, <2>1 DEF ShapeInv
  <2>3. StackInv' /\ TidyInv'
    BY <1>1, <2>1 DEF StackInv, TidyInv, Clear
  <2>4. Balanced => Balanced'
    BY <1>1, <2>1 DEF Balanced
  <2>5. Unwinds => Unwinds'
    BY <1>1, <2>1 DEF Unwinds
  <2>6. PressInv'
    BY <1>1, <2>1, <2>4, <2>5 DEF PressInv, Clear
  <2>7. QED
    BY <2>2, <2>3, <2>6 DEF OverlayInv
<1>4. ASSUME NEW asks \in BOOLEAN, PopArrives(asks) PROVE OverlayInv'
  BY <1>4, PopArrivesKeeps
<1>5. ASSUME EscapeFires PROVE OverlayInv'
  <2>1. /\ unwinding' = FALSE /\ races' = races \cup {"late"}
        /\ UNCHANGED <<stack, liveOverlays, overlaySeq, pops, presses, dismissed, pagesBack>>
    BY <1>5 DEF EscapeFires
  <2>2. ShapeInv'
    BY <1>1, <2>1 DEF ShapeInv
  <2>3. StackInv'
    BY <1>1, <2>1 DEF StackInv, Clear
  <2>4. TidyInv' /\ PressInv'
    BY <2>1 DEF TidyInv, PressInv, Clear, Races
  <2>5. QED
    BY <2>2, <2>3, <2>4 DEF OverlayInv
<1>6. ASSUME UNCHANGED overlayVars PROVE OverlayInv'
  BY <1>6 DEF overlayVars, OverlayInv, ShapeInv, StackInv, TidyInv, PressInv, Clear, Balanced, Unwinds
<1>7. QED
  BY <1>2, <1>3, <1>4, <1>5, <1>6 DEF OverlayNext

LEMMA OverlayTyped == OverlaySpec => []OverlayInv
<1>1. QED
  BY OverlayInitOK, OverlayNextOK, PTL DEF OverlaySpec

\* What the hook's header promises of its entries: none is missing under an open
\* overlay, they are in the order of opening, and none is left of one that is gone.
THEOREM OverlayEntriesMatch == OverlaySpec => []EntriesMatch
<1>1. OverlayInv => EntriesMatch
  <2> SUFFICES ASSUME OverlayInv, AtRest, Clear({"strand", "late"})
               PROVE  /\ HaveEntries(liveOverlays)
                      /\ ~Abandoned(Last(stack), liveOverlays)
                      /\ liveOverlays = {} => ToSet(stack) = {NoOverlay}
    BY DEF EntriesMatch
  <2>1. /\ stack \in History /\ liveOverlays \subseteq 1..overlaySeq /\ NoOverlay \notin liveOverlays
        /\ Climbs(stack) /\ liveOverlays \subseteq ToSet(stack)
        /\ ~Abandoned(Last(stack), liveOverlays)
    <3>1. Clear({"strand"})
      BY DEF Clear
    <3>2. QED
      BY <3>1 DEF OverlayInv, ShapeInv, StackInv, TidyInv, AtRest, NoOverlay
  <2>2. DOMAIN stack = 1..Len(stack)
    BY <2>1 DEF History
  <2>3. HaveEntries(liveOverlays)
    BY <2>1, <2>2 DEF HaveEntries, Climbs
  <2>4. ASSUME liveOverlays = {} PROVE ToSet(stack) = {NoOverlay}
    <3>1. Last(stack) = NoOverlay
      BY <2>1, <2>4 DEF Abandoned
    <3>2. \A i \in 1..Len(stack) : stack[i] = NoOverlay
      BY <2>1, <3>1, OnlyPages
    <3>3. Last(stack) \in ToSet(stack) /\ \A e \in ToSet(stack) : e = NoOverlay
      BY <2>1, <3>2, HistoryFacts
    <3>4. QED
      BY <3>1, <3>3
  <2>5. QED
    BY <2>1, <2>3, <2>4
<1>2. QED
  BY <1>1, OverlayTyped, PTL

\* A back press closes one overlay or goes back one page, whatever was pressed,
\* opened and closed before it, as long as no two of these race.
THEOREM OverlayEveryPressCounts == OverlaySpec => []EveryPressCounts
<1>1. OverlayInv => EveryPressCounts
  <2> SUFFICES ASSUME OverlayInv, Clear(Races)
               PROVE  /\ dismissed + pagesBack <= presses
                      /\ AtRest => dismissed + pagesBack = presses
    BY DEF EveryPressCounts
  <2>1. /\ Balanced /\ Unwinds /\ unwinding \in BOOLEAN
        /\ pops \in Nat /\ presses \in Nat /\ dismissed \in Nat /\ pagesBack \in Nat
    BY DEF OverlayInv, PressInv, ShapeInv
  <2>2. CASE unwinding
    <3>1. pops > 0 /\ presses = dismissed + pagesBack + pops - 1
      BY <2>1, <2>2 DEF Balanced, Unwinds
    <3>2. QED
      BY <2>1, <2>2, <3>1 DEF AtRest
  <2>3. CASE ~unwinding
    <3>1. presses = dismissed + pagesBack + pops - 0
      BY <2>1, <2>3 DEF Balanced
    <3>2. QED
      BY <2>1, <3>1 DEF AtRest
  <2>4. QED
    BY <2>2, <2>3
<1>2. QED
  BY <1>1, OverlayTyped, PTL

=============================================================================
