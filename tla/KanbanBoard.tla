----------------------------- MODULE KanbanBoard -----------------------------
(***************************************************************************)
(* The Kanban screen of the phone, web/src/screens/KanbanScreen.tsx, over  *)
(* three things that fill it: the cached board query and its poll          *)
(* (api/kanban.ts), the stream of events that asks for a refetch between   *)
(* two polls (lib/useKanbanEvents.ts), and the deletions that wait out     *)
(* their undo window (lib/undo.ts).                                        *)
(*                                                                         *)
(* A board is the number of its last event and the cards on it.  The query *)
(* client's cache, fetches and mutations are external: what it does with   *)
(* an invalidation while a fetch is under way is modelled with them.       *)
(***************************************************************************)
EXTENDS Integers, FiniteSets

CONSTANTS
  Boards, Cards,
  Home,         \* the board a card is on
  Follow,       \* board = null: whichever board the server points at
  Nowhere,      \* no Kanban screen is mounted
  Offered,      \* the boards that are picked by name
  First,        \* the board the server points at to begin with
  MaxAttempts,  \* MAX_ATTEMPTS of the stream
  Begun,        \* the events a board has seen already
  MaxHappens    \* bound on events, boards picked, pointers moved and requests failed

ASSUME BoardAssumption ==
  /\ Home \in [Cards -> Boards]
  /\ Offered \subseteq Boards /\ First \in Boards
  /\ Follow \notin Boards /\ Nowhere \notin Boards \cup {Follow}
  /\ Begun \in [Boards -> Nat]
  /\ MaxAttempts \in Nat \ {0}
  /\ MaxHappens \in Nat

Keys == Offered \cup {Follow}

NoCursor == -1
NotLoaded == [id |-> -1, cards |-> {}]
Idle == [at |-> "idle", page |-> NotLoaded]
Asked == [at |-> "asked", page |-> NotLoaded]
NoStream == [at |-> "none", attempts |-> 0, of |-> Nowhere, since |-> 0, frame |-> 0]
NoDeletion == [at |-> "none", key |-> Nowhere, to |-> Nowhere, mine |-> FALSE, last |-> FALSE,
               back |-> FALSE]

VARIABLES
  hermes, pointer,               \* the boards, and the one the server points at
  cache, invalid, fetch, failed, \* per key: data, isInvalidated, the fetch, its last error
  sel, hidden,                   \* board and pendingDelete of the screen
  deletion,                      \* per card: how far, with which board, of this visit, taken back
  stream, coalesce, cursor,      \* the hook's socket and attempts, timer and cursor
  happened, odd                  \* how much, and what of it spares a property

server == <<hermes, pointer>>
query == <<cache, invalid, fetch, failed>>
events == <<stream, coalesce, cursor>>
seen == <<happened, odd>>
vars == <<server, query, sel, hidden, deletion, events, seen>>

\* "pointer": another client moved the server's pointer; "switched": a board was
\* picked while a deletion was waiting or out; "failed": a request failed;
\* "overlap": a refetch that a deletion awaits was replaced twice; "joined": an
\* invalidation was answered by a first load already under way.
Odd == {"pointer", "switched", "failed", "overlap", "joined"}

BoardOf(k) == IF k = Follow THEN pointer ELSE k

Page == [id : Nat \cup {-1}, cards : SUBSET Cards]
Fetch == [at : {"idle", "asked", "answered"}, page : Page]
Stages == {"none", "waiting", "sent", "done", "declined", "settling", "carried", "ok", "refused"}
Deletion == [at : Stages, key : Keys \cup {Nowhere}, to : Keys \cup {Nowhere},
             mine : BOOLEAN, last : BOOLEAN, back : BOOLEAN]
Stream == [at : {"none", "connecting", "open", "retry", "quit"}, attempts : 0..MaxAttempts,
           of : Boards \cup {Nowhere}, since : Nat, frame : Nat]

TypeOK ==
  /\ hermes \in [Boards -> [id : Nat, cards : SUBSET Cards]] /\ pointer \in Boards
  /\ cache \in [Keys -> Page] /\ fetch \in [Keys -> Fetch]
  /\ invalid \subseteq Keys /\ failed \subseteq Keys
  /\ sel \in Keys \cup {Nowhere} /\ hidden \subseteq Cards
  /\ deletion \in [Cards -> Deletion]
  /\ stream \in Stream /\ coalesce \in BOOLEAN /\ cursor \in Nat \cup {NoCursor}
  /\ sel = Nowhere => stream = NoStream /\ ~coalesce /\ cursor = NoCursor
  /\ stream.at = "open" => stream.of # Nowhere
  /\ happened \in 0..MaxHappens /\ odd \subseteq Odd

-----------------------------------------------------------------------------
(* The query client. *)

\* The awaited invalidation of a deletion is over: its card leaves pendingDelete.
Settling == {"settling", "carried"}
Awaiting(k) == {c \in Cards : deletion[c].at \in Settling /\ deletion[c].key = k}
Ended(c, how) ==
  [deletion[c] EXCEPT !.at = how, !.to = Nowhere, !.last = FALSE]
Settled(dels, cs) == [c \in Cards |-> IF c \in cs THEN Ended(c, "ok") ELSE dels[c]]
Mine(cs) == {c \in cs : deletion[c].mine}

\* There is nothing to show yet: the fetch under way is let go on.
Joins(k) == fetch[k].at # "idle" /\ cache[k] = NotLoaded

\* invalidateQueries on a key: refetched when it is on screen, in place of a fetch
\* under way.  Who awaited that one awaits its replacement, whose own replacement
\* lets them go.
Refetches(k) == k = sel /\ ~Joins(k)
Replaced(k) == {c \in Awaiting(k) : Refetches(k) /\ deletion[c].at = "carried"}
Carried(k) == {c \in Awaiting(k) : Refetches(k) /\ deletion[c].at = "settling"}
Invalidate(k) ==
  /\ invalid' = invalid \cup {k}
  /\ fetch' = IF Refetches(k) THEN [fetch EXCEPT ![k] = Asked] ELSE fetch
  /\ odd' = odd \cup (IF k = sel /\ Joins(k) THEN {"joined"} ELSE {})
                \cup (IF Replaced(k) # {} THEN {"overlap"} ELSE {})
Chained(k) ==
  [c \in Cards |-> IF c \in Replaced(k) THEN Ended(c, "ok")
                   ELSE IF c \in Carried(k) THEN [deletion[c] EXCEPT !.at = "carried"]
                   ELSE deletion[c]]

\* A key comes on screen: fetched unless it is fresh.
Observe(k) ==
  /\ \/ fetch' = IF fetch[k].at = "idle" THEN [fetch EXCEPT ![k] = Asked] ELSE fetch
     \/ cache[k] # NotLoaded /\ k \notin invalid /\ fetch' = fetch
  /\ UNCHANGED <<cache, invalid, failed>>

Read(k) ==
  /\ fetch[k] = Asked
  /\ fetch' = [fetch EXCEPT ![k] = [at |-> "answered", page |-> hermes[BoardOf(k)]]]
  /\ UNCHANGED <<server, cache, invalid, failed, sel, hidden, deletion, events, seen>>

\* useKanbanEvents seeds its cursor on the first render with a board.
Seeded(k, page) == IF k = sel /\ cursor = NoCursor THEN page.id ELSE cursor

FetchEnds(k) ==
  /\ fetch' = [fetch EXCEPT ![k] = Idle]
  /\ deletion' = Settled(deletion, Awaiting(k))
  /\ hidden' = hidden \ Mine(Awaiting(k))

FetchArrives(k) ==
  /\ fetch[k].at = "answered"
  /\ FetchEnds(k)
  /\ cache' = [cache EXCEPT ![k] = fetch[k].page]
  /\ invalid' = invalid \ {k} /\ failed' = failed \ {k}
  /\ cursor' = Seeded(k, fetch[k].page)
  /\ UNCHANGED <<server, sel, stream, coalesce, seen>>

FetchFails(k) ==
  /\ fetch[k].at # "idle" /\ happened < MaxHappens
  /\ FetchEnds(k)
  /\ failed' = failed \cup {k}
  /\ happened' = happened + 1 /\ odd' = odd \cup {"failed"}
  /\ UNCHANGED <<server, cache, invalid, sel, events>>

-----------------------------------------------------------------------------
(* The stream. *)

\* Mutated: the cursor of one board is asked of the next.
SeedOnce(k) == IF cursor # NoCursor THEN cursor ELSE cache[k].id

\* The cursor a board starts with, NoCursor when it is not loaded.
Seed(k) == cache[k].id

Connecting(c, attempts) ==
  [NoStream EXCEPT !.at = "connecting", !.attempts = attempts, !.since = IF c = NoCursor THEN 0 ELSE c]

\* The effect of the hook, keyed on the board.
OpenStream(k) ==
  /\ cursor' = Seed(k)
  /\ stream' = Connecting(Seed(k), 0)
  /\ coalesce' = FALSE

CloseStream ==
  /\ stream' = NoStream /\ coalesce' = FALSE /\ cursor' = NoCursor

\* The plugin pins the board at the handshake.
StreamOpens ==
  /\ stream.at = "connecting"
  /\ stream' = [stream EXCEPT !.at = "open", !.attempts = 0, !.of = BoardOf(sel)]
  /\ UNCHANGED <<server, query, sel, hidden, deletion, coalesce, cursor, seen>>

\* down(): 1008 is the end of it, and so is the last attempt.
StreamDown(refused) ==
  /\ stream.at \in {"connecting", "open"}
  /\ stream' = IF refused \/ stream.attempts + 1 >= MaxAttempts THEN [NoStream EXCEPT !.at = "quit"]
               ELSE [NoStream EXCEPT !.at = "retry", !.attempts = stream.attempts + 1]
  /\ UNCHANGED <<server, query, sel, hidden, deletion, coalesce, cursor, seen>>

RetryFires ==
  /\ stream.at = "retry"
  /\ stream' = Connecting(cursor, stream.attempts)
  /\ UNCHANGED <<server, query, sel, hidden, deletion, coalesce, cursor, seen>>

PluginSends ==
  /\ stream.at = "open" /\ stream.frame = 0 /\ hermes[stream.of].id > stream.since
  /\ stream' = [stream EXCEPT !.frame = hermes[stream.of].id, !.since = hermes[stream.of].id]
  /\ UNCHANGED <<server, query, sel, hidden, deletion, coalesce, cursor, seen>>

FrameArrives ==
  /\ stream.frame # 0
  /\ cursor' = stream.frame /\ coalesce' = TRUE
  /\ stream' = [stream EXCEPT !.frame = 0]
  /\ UNCHANGED <<server, query, sel, hidden, deletion, seen>>

Flush ==
  /\ coalesce /\ coalesce' = FALSE
  /\ Invalidate(sel)
  /\ deletion' = Chained(sel)
  /\ hidden' = hidden \ Mine(Replaced(sel))
  /\ UNCHANGED <<server, cache, failed, sel, stream, cursor, happened>>

\* Mutated: the stream replaces the poll.
PollUnlessLive ==
  /\ sel # Nowhere /\ stream.at # "open" /\ fetch[sel] = Idle
  /\ fetch' = [fetch EXCEPT ![sel] = Asked]
  /\ UNCHANGED <<server, cache, invalid, failed, sel, hidden, deletion, events, seen>>

\* Every ten seconds, or every sixty while the stream is live.
Poll ==
  /\ sel # Nowhere /\ fetch[sel] = Idle
  /\ fetch' = [fetch EXCEPT ![sel] = Asked]
  /\ UNCHANGED <<server, cache, invalid, failed, sel, hidden, deletion, events, seen>>

-----------------------------------------------------------------------------
(* Deleting a card. *)

Shown == IF sel = Nowhere THEN {} ELSE cache[sel].cards \ hidden
Open == {"waiting", "sent", "done", "declined"}

\* removeById: one deletion of a card at a time is a bound.
Delete(c) ==
  /\ c \in Shown /\ deletion[c].at \in {"none", "refused"}
  /\ hidden' = hidden \cup {c}
  /\ deletion' = [deletion EXCEPT ![c] = [NoDeletion EXCEPT !.at = "waiting", !.key = sel, !.mine = TRUE]]
  /\ UNCHANGED <<server, query, sel, events, seen>>

\* Mutated: the timer is left to run.
UndoForgetting(c) ==
  /\ deletion[c].at = "waiting"
  /\ deletion' = [deletion EXCEPT ![c].back = TRUE]
  /\ hidden' = hidden \ Mine({c})
  /\ UNCHANGED <<server, query, sel, events, seen>>

\* undo(), which does nothing once the entry is settled.
Undo(c) ==
  /\ deletion[c].at = "waiting"
  /\ deletion' = [deletion EXCEPT ![c] = [NoDeletion EXCEPT !.back = TRUE]]
  /\ hidden' = hidden \ Mine({c})
  /\ UNCHANGED <<server, query, sel, events, seen>>

\* commit(): the mutation is built with the board its screen has, or had last; the
\* one its observer holds is the last of that screen's.
Sent(cs, newest) ==
  [d \in Cards |->
     CASE d \in cs ->
            [deletion[d] EXCEPT !.at = "sent", !.to = deletion[d].key, !.last = d \in newest]
       [] d \notin cs /\ (\E c \in newest : deletion[c].mine = deletion[d].mine) ->
            [deletion[d] EXCEPT !.last = FALSE]
       [] OTHER -> deletion[d]]

WindowEnds(c) ==
  /\ deletion[c].at = "waiting"
  /\ deletion' = Sent({c}, {c})
  /\ UNCHANGED <<server, query, sel, hidden, events, seen>>

\* pagehide: everything that waits is sent, one request after the other.
PageHides ==
  LET waiting == {c \in Cards : deletion[c].at = "waiting"}
  IN  /\ waiting # {}
      /\ \E newest \in SUBSET waiting :
           /\ \A mine \in BOOLEAN :
                LET those == {c \in waiting : deletion[c].mine = mine}
                IN  those # {} => Cardinality(newest \cap those) = 1
           /\ deletion' = Sent(waiting, newest)
      /\ UNCHANGED <<server, query, sel, hidden, events, seen>>

Serve(c) ==
  LET b == BoardOf(deletion[c].to)
      there == c \in hermes[b].cards
  IN  /\ deletion[c].at = "sent"
      /\ hermes' = [hermes EXCEPT ![b].cards = @ \ {c}]
      /\ deletion' = [deletion EXCEPT ![c].at = IF there THEN "done" ELSE "declined"]
      /\ UNCHANGED <<pointer, query, sel, hidden, events, seen>>

\* Mutated: the mutation does not wait for the refetch it asks for.
DeletedAtOnce(c) ==
  /\ deletion[c].at = "done"
  /\ Invalidate(deletion[c].key)
  /\ deletion' = [Chained(deletion[c].key) EXCEPT ![c] = Ended(c, "ok")]
  /\ hidden' = hidden \ Mine({c} \cup Replaced(deletion[c].key))
  /\ UNCHANGED <<server, cache, failed, sel, events, happened>>

\* onSuccess waits for the refetch of the board the mutation has by now, when that
\* one is on screen.
Deleted(c) ==
  LET k == deletion[c].key
      awaited == k = sel
  IN  /\ deletion[c].at = "done"
      /\ Invalidate(k)
      /\ deletion' = [Chained(k) EXCEPT ![c] = IF awaited THEN [deletion[c] EXCEPT !.at = "settling"]
                                               ELSE Ended(c, "ok")]
      /\ hidden' = hidden \ Mine(Replaced(k) \cup (IF awaited THEN {} ELSE {c}))
      /\ UNCHANGED <<server, cache, failed, sel, events, happened>>

DeleteRefused(c) ==
  /\ deletion[c].at = "declined"
  /\ deletion' = [deletion EXCEPT ![c] = Ended(c, "refused")]
  /\ hidden' = hidden \ Mine({c})
  /\ UNCHANGED <<server, query, sel, events, seen>>

\* The request, or its answer, is lost.
DeleteLost(c) ==
  /\ deletion[c].at \in {"sent", "done"} /\ happened < MaxHappens
  /\ deletion' = [deletion EXCEPT ![c] = Ended(c, "refused")]
  /\ hidden' = hidden \ Mine({c})
  /\ happened' = happened + 1 /\ odd' = odd \cup {"failed"}
  /\ UNCHANGED <<server, query, sel, events>>

-----------------------------------------------------------------------------
(* The user goes from board to board, leaves the screen and comes back. *)

\* A board is picked: the screen's mutations take it, the one under way included.
Pick(k) ==
  /\ sel # Nowhere /\ k # sel /\ happened < MaxHappens
  /\ sel' = k
  /\ Observe(k)
  /\ OpenStream(k)
  /\ deletion' = [c \in Cards |->
       LET d == deletion[c]
       IN  IF d.mine /\ (d.at = "waiting" \/ (d.at \in Open /\ d.last))
           THEN [d EXCEPT !.key = k] ELSE d]
  /\ happened' = happened + 1
  /\ odd' = odd \cup (IF \E c \in Cards : deletion[c].mine /\ deletion[c].at \in Open
                      THEN {"switched"} ELSE {})
  /\ UNCHANGED <<server, hidden>>

\* The deletions outlive the screen, pendingDelete does not.
Leave ==
  /\ sel # Nowhere /\ sel' = Nowhere
  /\ hidden' = {}
  /\ deletion' = [c \in Cards |-> [deletion[c] EXCEPT !.mine = FALSE, !.last = FALSE]]
  /\ CloseStream
  /\ UNCHANGED <<server, query, seen>>

Enter ==
  /\ sel = Nowhere /\ sel' = Follow
  /\ Observe(Follow)
  /\ OpenStream(Follow)
  /\ UNCHANGED <<server, hidden, deletion, seen>>

-----------------------------------------------------------------------------
(* Hermes. *)

CardsMove(b) ==
  /\ happened < MaxHappens /\ happened' = happened + 1
  /\ hermes' = [hermes EXCEPT ![b].id = @ + 1]
  /\ UNCHANGED <<pointer, query, sel, hidden, deletion, events, odd>>

\* POST /boards/<slug>/switch of another client.
PointerMoves ==
  /\ happened < MaxHappens
  /\ pointer' \in Boards \ {pointer}
  /\ happened' = happened + 1 /\ odd' = odd \cup {"pointer"}
  /\ UNCHANGED <<hermes, query, sel, hidden, deletion, events>>

-----------------------------------------------------------------------------
Init ==
  /\ hermes = [b \in Boards |-> [id |-> Begun[b], cards |-> {c \in Cards : Home[c] = b}]]
  /\ pointer = First
  /\ cache = [k \in Keys |-> NotLoaded] /\ fetch = [k \in Keys |-> Idle]
  /\ invalid = {} /\ failed = {}
  /\ sel = Nowhere /\ hidden = {}
  /\ deletion = [c \in Cards |-> NoDeletion]
  /\ stream = NoStream /\ coalesce = FALSE /\ cursor = NoCursor
  /\ happened = 0 /\ odd = {}

Next ==
  \/ \E k \in Keys : Read(k) \/ FetchArrives(k) \/ FetchFails(k) \/ Pick(k)
  \/ Poll
  \/ StreamOpens \/ (\E refused \in BOOLEAN : StreamDown(refused)) \/ RetryFires
  \/ PluginSends \/ FrameArrives \/ Flush
  \/ \E c \in Cards : Delete(c) \/ Undo(c) \/ WindowEnds(c)
                        \/ Serve(c) \/ Deleted(c) \/ DeleteRefused(c) \/ DeleteLost(c)
  \/ PageHides
  \/ Leave \/ Enter
  \/ \E b \in Boards : CardsMove(b)
  \/ PointerMoves

Spec == Init /\ [][Next]_vars

\* The poll's interval fires and what was asked of the proxy is answered.
FairSpec ==
  /\ Spec
  /\ WF_vars(Poll)
  /\ \A k \in Keys : WF_vars(Read(k)) /\ WF_vars(FetchArrives(k))

-----------------------------------------------------------------------------
(* Properties. *)

Without(w) == odd \cap w = {}

\* A card the user saw leave does not come back on its own while this screen
\* stands: not with a poll that was read before the deletion, not between the
\* deletion and the refetch that brings the board without it.
GoneStaysGone ==
  Without({"switched", "failed", "overlap"}) =>
    \A c \in Cards : LET d == deletion[c] IN
      d.mine /\ (d.at \in Open \cup Settling \/ (d.at = "ok" /\ d.key = sel)) => c \notin Shown

\* What was taken back is still there, and what was not is deleted on the board it
\* was taken off.
DeletesAreMeant ==
  /\ Without({"failed"}) =>
       \A c \in Cards : deletion[c].back => c \in hermes[Home[c]].cards
  /\ Without({"switched", "failed", "pointer"}) =>
       \A c \in Cards : deletion[c].at # "refused"

\* A stream that is live and has nothing more to say means a board up to date: no
\* event falls between the cursor, the coalesced refetch and the board's own.
Quiet ==
  /\ sel # Nowhere /\ stream.at = "open" /\ stream.since = hermes[stream.of].id
  /\ stream.frame = 0 /\ ~coalesce
  /\ fetch[sel] = Idle /\ sel \notin failed

QuietMeansFresh ==
  Quiet /\ Without({"joined"}) /\ (sel = Follow => Without({"pointer"}))
    => cache[sel].id = hermes[BoardOf(sel)].id

\* "It does not replace the poll, and must not": whatever becomes of the stream,
\* the board on screen is the one Hermes has, sooner or later.
BoardCatchesUp ==
  \A k \in Keys : sel = k ~> (sel # k \/ cache[k] = hermes[BoardOf(k)])

=============================================================================
