# A TLA+ account of Hem (hermes-webapp)

Hem is a phone client for the Hermes agent: a React web app (`web/`) and a small
Node proxy (`server/`) that sits between the phone and the Hermes gateway. The
proxy passes HTTP and WebSocket traffic through and, beside that, watches the
gateway on its own so that a phone whose app is closed still learns that a
scheduled run ended, a turn finished, an agent is waiting for an answer, or a
kanban card is blocked.

These modules model the parts of Hem whose correctness depends on order: sweeps
that read a gateway that moves meanwhile, a feed written behind its callers,
connections that die without saying so, a process that may be killed between
any two steps, a screen that puts one conversation together from answers,
events and replays, deletions that wait to be taken back. TLC checks every
module on small instances; for each of them TLAPS proofs extend results to
all values of the constants. `PROJECT.json` names every run, the mutation that
shows each property is about the code, and the lines each definition stands
for. Paths below are relative to the repository (`src/` there).

## 1. Inventory

| part | state it keeps | operations | what makes it correct |
|---|---|---|---|
| **Updates feed** `server/src/push/feed.ts`, `routers/notifications.ts` | `state` (rows, run ids seen, watermarks, last read), `seenIndex`, `timer`, `pending`, the file | append, remember, watermark, prune, read, clear, flush, load | memory and disk agree or a write is owed; a run has one row and is remembered at least as long as it is shown; clearing forgets nothing |
| **Sweep scheduler** in `cron.ts`, `sessions.ts`, `kanban.ts` | `timer`, `sweep`, `running`, `dirty` | ask, fire, begin, end, stop | no overlap, no ask lost, no ask put off |
| **Cron pass** `push/cron.ts` | locals of `reconcile()` over many reads | list jobs, list sessions, runs per job, reply per run, failed attempts, seeding | a run is announced once; history is silent; everything arrives |
| **Session sweep** `push/sessions.ts` | watermarks, `announcedWaiting`, `inFlight` | one snapshot, per row REST reads, retract, prune | banners are current; a turn is announced once, unless its watermark is lost |
| **Kanban sweep** `push/kanban.ts` | watermarks per board and card | boards, board, compare, prune | a transition is told once; an unreadable board keeps its marks |
| **Gateway listener** `push/events.ts`, **RPC** `push/rpc.ts` | `socket`, timers, pending calls | connect, heartbeat, reconnect, call, stop | always tended; calls end with their socket |
| **Backend watch** `push/updates.ts` | `downSince`, `outageTimer`, `outageReported`, `interrupted` | went down, came back, restart floor | outages are announced after the grace time and answered by a recovery |
| **Token** `config.ts`, **HTTP proxy** `routers/apiProxy.ts` | `sessionToken`, scrape in flight | resolve, clear on 401 | a gateway that restarts with a new token is reached again |
| **Push** `push/send.ts`, `push/store.ts`, `routers/push.ts`, `web/src/lib/push.ts`, `web/public/push-sw.js` | devices, identity, the file; the browser's subscription, the switch, the worker's steps | subscribe, unsubscribe, send, prune on 410, marks, rotation | no device is forgotten, a device's health is what its deliveries were, off is off |
| **WebSocket bridge** `server/src/routers/wsProxy.ts` | frames held and queued, two legs, keepalive timer | hold, open, pass on, stall, close both | each direction is a pipe, both legs end together |
| **WebSocket client** `web/src/ws/client.ts` | `ws`, `state`, back-off, pending calls | connect, resume, setUrl, disconnect, close, call | one live socket, truthful state, reconnects |
| **Access session** `web/src/lib/accessSession.ts` | `expired`, `unreachable`, failure count, probe | mark, probe | signed out only when signed out |
| **Conversation** `web/src/store/session.ts`, `serverRequests.ts`, `screens/ChatScreen.tsx` | rows, running, sheet, queued message, replay floor; visits, boots, the two effects | events, replay, resync, submit, rewind, answer, resume, create | what is on screen belongs to the conversation on screen, and is what the gateway has |
| **Overlay history** `web/src/lib/useHistoryDismiss.ts` | sentinel entries, the stack of open overlays, a pop under way | open, close, take over, unwind, popstate | entries match the open overlays, a press does one thing |
| **Kanban board** `screens/KanbanScreen.tsx`, `api/kanban.ts`, `lib/useKanbanEvents.ts`, `lib/undo.ts` | board query, stream, cursor, attempts, coalescing timer, cards hidden, pending commits | poll, frame, flush, delete, undo, window, page hide, pick | what left stays away, deletions are meant, the board catches up |
| Share intake, event toasts | a filed share; the newest row shown | file, claim; toast | a share is claimed once |
| The rest | - | rendering, formatting, static files, access checks, audio, scripts | no order to get wrong |

How the parts interact. The listener's socket carries frames; a frame
(`cron.changed`, `sessions.changed`, board events) asks a sweep for a pass, and
so do the sweep's interval and the socket reopening. A sweep reads the gateway
(REST with the token, or RPC over the listener's socket), compares what it reads
with marks kept in the feed, writes rows and marks to the feed and sends pushes.
The session sweep tells the backend watch what was running, so that a restart
can name what it interrupted. The feed is one JSON file, written behind its
callers; the push store is another, written at each change. The web app talks to
the gateway over one WebSocket, through the bridge, and to the REST API through
the same proxy, behind a Cloudflare Access gate whose expiry looks like a dead
network. The chat screen drives the conversation store; every conversation's
events come over the one socket. The board has a second socket, the plugin's
stream of events, which only asks for refetches.

What is hard: every pass is a chain of awaits during which the gateway moves
and other signals arrive; reads fail one by one; the feed's writes are
coalesced and the process may be killed inside the cooldown; timers race late
answers; a half-open socket reports nothing; the gateway draws a new token at
each start; a screen's awaits outlive the screen. The `hazards` of
`PROJECT.json` list these line by line.

## 2. Modules

| module | models | built on |
|---|---|---|
| `FeedStore` | `feed.ts` as operators on a record: the file, its copy in memory, the index, the cooldown | - |
| `Feed` (`MCFeed`) | the store under its callers, the timer, stop and kill | `FeedStore` |
| `Coalescing` | the abstract contract of a sweep: asks are answered by a pass that begins after them; `PassScheduler`, `CronReconcile`, `KanbanSweep` and `SessionSweep` implement it | - |
| `PassScheduler` | `timer`, `running`, `dirty`, interval, delays | implements `Coalescing` |
| `CronReconcile` (`MCCronReconcile`) | the cron pass, read by read, with its own scheduler, feed, stops and kills | `FeedStore` |
| `SessionSweep` (`MCSessionSweep`) | the session pass, row by row, against turns that move; its watermarks are the feed's | `FeedStore` |
| `KanbanSweep` (`MCKanbanSweep`) | the kanban pass, board by board | `FeedStore` |
| `BackendWatch` | `updates.ts`' outage state as operators on a record | - |
| `GatewayLink` | listener, heartbeat, RPC, token, HTTP 401, backend watch, gateway restarts | `BackendWatch` |
| `PushStore` (`MCPushStore`) | devices and identity in memory and on disk, fan-outs, the phone's switch and its worker, requests between them | - |
| `Pipe` | the abstract contract of one direction of a bridge | - |
| `WsBridge` | a bridged connection: two legs, what is held and queued, keepalive | implements `Pipe`, twice |
| `AccessSession` | `accessSession.ts` as operators on a record | - |
| `WsClient` | the browser's sockets and the client over them, network and gate | `AccessSession` |
| `SessionStore` | `store/session.ts` as operators on a record: one per handler | - |
| `ChatScreen` (`MCChatScreen`) | the chat screen's visits and effects over that store, the gateway, the wire | `SessionStore` |
| `OverlayHistory` | the history's entries, overlays, back presses, pops under way | - |
| `KanbanBoard` (`MCKanbanBoard`) | the board query, its poll, the stream, deletions in their window | - |
| `PushProofs` | theorems about the two stores of `push/` | `Feed`, `PushStore` |
| `CronProofs`, `KanbanProofs`, `SessionSweepProofs` | theorems about the three sweeps | `CronReconcile`, `KanbanSweep`, `SessionSweep` |
| `GatewayLinkProofs` | theorems about the listener, and about the scheduler of passes | `GatewayLink`, `PassScheduler` |
| `SocketProofs` | theorems about both ends of the app's stream | `WsBridge`, `WsClient` |
| `ChatProofs` | theorems about the conversation | `ChatScreen` |
| `ScreenProofs` | theorems about the board, and about the overlays | `KanbanBoard`, `OverlayHistory` |

A component that several others use, or that is a store of handlers, is a module
of operators on a record (`FeedStore`, `BackendWatch`, `AccessSession`,
`SessionStore`); the modules that drive it hold that record in a variable and
have one action per handler or per stretch of code between two awaits. Where two
modules meet in one module of proofs, the names both would use carry the
component's (`FeedSpec`, `SchedulerSpec`, `BridgeSpec`).
JavaScript runs such a stretch without interruption, so the grain of the actions
is the code's. Names are the code's where TLA+ allows it. Definitions marked
"Mutated" are plausible bugs, kept for the mutation runs of `PROJECT.json`; no
specification uses one.

Correspondence in the main modules:

- **Feed.** `feed.mem` is `state`, `feed.disk` the file, `feed.cooldown` and
  `feed.pending` the debounce's `timer` and `pending`, `feed.stale` records that
  the last write failed. Each mutation is one operator that ends in `Persist`.
  `Crash` reloads the file at any moment.
- **CronReconcile.** `pass` holds the locals of `reconcile()` and where it
  awaits. A read that is answered with an error or times out is the same event
  with outcome `FALSE`. `old` is what had ended before the install, `spoilt` the
  old runs a seeding pass was not shown because a read of it failed (all of them
  once a restart finds no complete pass on disk), `forgotten` the runs that newer
  ones pushed out of the feed's memory, and `pushed` counts a run's announcements
  since the feed last forgot it.
- **SessionSweep.** The gateway's registry, status and `message_count` move
  freely; the pass takes its rows from the snapshot of `ListArrives` and reads
  details afterwards. `marks` and `filed` are the feed's watermarks in memory and
  in its file, behind the feed's cooldown, which rows of other modules arm too
  (`FeedWritten`). A row with no device subscribed starts no push, and a push may
  fail (`subscribed`, `ok`). `Kill` may come anywhere; an orderly stop flushes
  first. History: the phone's `banner` and those `lost` (their retraction was not
  sent, failed, or was forgotten by a restart), `replies`, `owed`, `excused` (the
  turns whose reply the code is known to lose: `Excuse` names the cases),
  `lapsed` (how often a restart took a session's watermark back), `open`.
- **KanbanSweep.** Marks are keyed by board and card, as `kanban:<slug>:task:<id>`
  is; `Current` is the nameless board of a pass whose `/boards` failed. One
  answer of a board is handled card by card as the loop does: `pass.cards` are
  those still to be looked at, and since the loop does not await, nothing but a
  kill comes between two of them (`Yielded`).
- **GatewayLink.** `link` is `connect()` and its socket: awaiting a token,
  connecting, open, or closed by the other end and not yet reported; `dead` is
  a half-open one. `row` is the newest row of the backend in the feed.
- **PushStore.** A send takes its rows when it begins and each endpoint's answer
  comes when it comes (`Answered`); the marks are written with the last one.
  `page` is the settings section and `toggle()` in it, `worker` the
  `pushsubscriptionchange` handler, `wire` the requests either waits for.
  `truth` counts a device's refusals since its last success in the order the
  answers came; `older` orders the answers the sends under way hold that
  disagree, `amiss` are the rows written out of that order. These and `missed`,
  `unsaved`, `toggled` are history.
- **WsBridge.** `pending` is what is held until the upstream leg opens;
  `upIn`/`downIn` are what a peer wrote and `upOut`/`downOut` what the other has
  not read: the proxy's `bufferedAmount`. Frames are numbered by their writer
  and carry their type in `rpc` (a connection is JSON or audio throughout).
- **WsClient.** `readyState` is the browser's, `attached` the sockets that still
  have the client's handlers, `suspended` those whose page was put to sleep
  under a handshake. The `gate` is open, expired, or closed to this person (the
  allowlist: `forbidden`); any 401 or 403 may come at any time, whoever wrote it
  (`RestCallRefused`), and `misread` records that one latched "expired" while the
  gate was not. `new WebSocket` may throw; `stranded` are the calls that were out
  on a socket dropped for one that was never made.
- **ChatScreen.** `s` is the store, with the calls it waits for; `screen` holds
  the visits (a mount has its own guard), which of them are booting, which are
  `trailing` (their calls are over but `doResume` still awaits its REST reads, so
  that `bootingRef` and the URL's intent are still up), whether the reconnect
  effect is `watching`, and the URL's `intent`. Answers and events come
  over `wire` in order; `inbox` holds calls, which the gateway answers in any
  order. A conversation of `gw` has a history, at most one turn, and a runtime
  with a handle that a reap ends. A drop takes what is on the wire; the calls
  that were out then fail one after another (`CallFails`), each in the screen
  as it finds it. `s.crossed` collects the races by name.
- **OverlayHistory.** An entry of the history is a page or an overlay's
  sentinel; a commit is what React applies at once (closings, openings, a
  navigation); `back()` is asynchronous and its `popstate` comes later, in time
  or after the second the code waits (`EscapeFires`).
- **KanbanBoard.** `sel` is the screen's `board` (`Follow` for `null`), `hidden`
  its `pendingDelete`, `cache`, `invalid`, `fetch` the query client's entry of a
  board; `deletion` follows one commit through its window, its request, and the
  refetch `onSuccess` waits for ("settling"; "carried" once that refetch was
  replaced by another). `mine` says that the screen that hid the card still
  stands, `last` that the screen's mutation observer still follows it. What the
  query library does with whoever awaits a replaced fetch is not in this
  repository and is modelled from its known behaviour: they are handed on to the
  replacement, and are let go when that one is replaced in its turn.

Abstractions. Texts, titles, URLs, profiles' names and log lines are left out.
Row ids are the run they report. Watermark values are model values in `Feed`
and records of what the sweep compares elsewhere. Millisecond delays are kept
as ratios where order depends on them (`PassScheduler`, `BackendWatch`) and as
"the timer may fire now" where it does not. The conversation leaves out deltas,
clarify questions (kept and withdrawn as approvals are), titles, profiles, usage
and the offline transcript; the gateway queues nothing itself; a call that timed
out on the phone is not answered later to anyone; a screen that is gone does not
navigate. The board leaves out moves and bulk edits, pull-to-refresh, the
fallback on a board that is gone, the tenant and archived keys of its query.

## 3. Runs

| run | instance | states | shows |
|---|---|---|---|
| `feed` | 3 runs, caps 2 and 2, one topic, one watermark, writes that fail, clock 0..2, symmetry on runs | 1.1M | no write unowed, no run twice, under stops and kills at every point |
| `sched` | delays 2, 6, interval 9 | 418 | an ask waits at most the longer delay; `PassScheduler` implements `Coalescing` with its liveness |
| `cron` | 1 job, a run in each store, a failed attempt, 2 of the 3 remembered, any read failing, one restart of either kind | 350k | once, but for runs pushed out of the memory; silent history; nothing adopted later; every run and attempt arrives |
| `session` | 1 session of a person or a kanban worker, 3 messages, pushes that fail or find no device, 1 kill or stop | 1.8M | banners current, retracted only when over, one reply per turn and lapsed watermark, none lost but in the named cases, waiting recorded |
| `link` | 3 gateway generations, 2 calls, 2 conversations, grace 3, floor 1, 1 restart of the proxy | 378k | outages and recoveries are told in time and answer each other; the listener reconnects |
| `kanban` | 2 boards, 1 card, 2 moves, 1 recurring block, 1 failed list, 1 restart | 437k | each block told, once; unread boards keep marks |
| `push` | 2 endpoints, 2 identities, 2 fan-outs, 1 failed write, 1 kill, symmetry | 2.6M | no device forgotten, health follows the answers, off is off |
| `bridge` | 5 frames up, 4 down, 2 may be held, 1 may be buffered | 186k | each direction implements `Pipe`; both legs end |
| `client` | 3 sockets, 1 call, probe after 3, network, gate and refusals unbounded | 522k | one live socket, expired only when expired or misread, reconnects, gate asked |
| `chat` | 2 conversations (one stored), 2 prompts, any of the troubles listed below, symmetry on prompts | 6.1M | nothing foreign, prompts go home, running, sheet and transcript are the gateway's once quiet, no reply twice |
| `overlay` | 5 overlays opened, 3 presses, 2 navigations, 1 pop later than a second | 2.3M | entries match the open overlays, every press counts |
| `board` | 2 boards of which one is picked by name, 1 card, 2 happenings, 3 attempts | 841k | a deleted card stays away, deletions are meant, a quiet stream means a fresh board, the board catches up |

Every run passes, and a mutation of the code's translation (listed in
`PROJECT.json`) breaks each property. No run checks a type invariant by itself:
`TypeOK` states the space of a module and is the first conjunct of an inductive
invariant where there are proofs.

Properties that carry a condition name a race the code loses. Each such
condition is as narrow as TLC let it be, and what happens without it is told in
section 5: `HistoryStaysSilentIfRead` (only runs that the first pass was not
shown, that it had not completed on disk, or that were pushed out of the
memory), `OneReplyPerTurn` (`lapsed`), `SwallowedOnlyIfExcused`,
`BannerIsCurrent` (`lost`), `AnnouncedOnceIfListed`,
`ExpiredIsTrueUnlessMisread`, `KnownUnlessMissed`, `HealthIsTrueUnlessCrossed`,
the `crossed` sets of the chat's properties, the `odd` sets of the board's and
the `races` of the overlays'.

### Bounds, and why they are enough

- *Feed*: three ids with caps of two are the least with an eviction while the
  evicted id's row may still be shown; two clock values separate rows inside
  and outside the collapse window. The proofs remove the bounds.
- *CronReconcile*: a run in its own profile's store, one that only the shared
  list shows, and a failed attempt are the three ways a run is found. The
  history before the install is all of them or none. One restart, by kill or by
  stop: each reloads the file, so a second adds the same step from a state
  already reached. `MaxEntries = 1`, because the pass reads only `seenRuns`;
  `SeenCap = 2` is below the three runs, so a run is evicted and found again.
- *SessionSweep*: sessions share nothing but the pass itself and the feed's
  cooldown, which `FeedWritten` arms; `TakeRow` may come arbitrarily later than
  `ListArrives`, which is what the rows of others would cause. Three messages are a stopped
  turn and a full one: the least with a mark that a later turn overtakes while a
  pass still carries it. Four, two full turns, were run apart on the safety
  properties with the same result (8.1M states). One restart, of either kind, at
  any point. The proofs remove these bounds from the safety properties.
- *KanbanSweep*: the cards of a board meet only in the feed's cooldown and the
  prune's set; boards meet in `swept`, hence two boards and one card that can
  be missing from either. Two moves are block, release and block again.
- *GatewayLink*: three generations give two restarts, so that a token may be
  stale twice; `Grace = 3`, `Floor = 1` separate blip, restart and outage.
- *PushStore*: two sends are the least that overlap, two endpoints the least a
  rotation needs. `MaxFailures = 1` makes the failure counter one bit, failing
  or not, which is what the settings section shows. One request at a time
  outlives the page that sent it; no write fails after the last kill (the next
  start would have nothing to read it); `ensureIdentity` is one step with the
  subscription it is for.
- *WsBridge*: sizes are counted in frames, so two may wait and one may be
  buffered before a leg is given up. Five frames up overflow the hold and leave
  some to pass on; four down stall a phone that does not read. One keepalive
  waits at a time.
- *WsClient*: three sockets are the client's own, one replaced and still
  closing, and one more; sockets are re-used when closed. `ProbeAfter = 3` is
  the code's. Outages, refusals, changes of the allowlist and of the
  address have no bound.
- *ChatScreen*: a behaviour draws at its start which few troubles it may meet
  (`ChatBudgets`: drops, time-outs, reaps, switches, rewinds, stops and so on,
  a handful at a time), so that every pair the code has to cope with is
  explored without all of them at once (a prompt that works and asks, a drop, a
  link and a screen left, all in one, was run apart with the same result: 6.6M
  states). Two events or answers are on the wire at most. Two conversations, one of which is stored, are what a switch, a link
  and a new one need; two prompts are one running and one queued.
- *OverlayHistory*: five openings cover two stacked overlays, a hand-over and a
  re-opening; three presses and two navigations are more than any screen
  combines. One opening per commit; a back press hands over only if it is plain;
  there is no forward button on the phone's history.
- *KanbanBoard*: two of a moved event, a board picked, a pointer moved and a
  request failed, in any combination. One board is picked by name and the other
  is the server's current one; both offered by name was run apart, without
  liveness, with the same result (5.0M states). One deletion of a card at a
  time, one frame on its way. The proofs remove the bounds on all of these.

### Fairness

Timers of a running process fire (`WF` on intervals, cooldowns, back-off).
Every read has a time-out in the code, so a pass always moves on (`WF` on
`PassStep`, whichever way the read ends). Liveness of what a sweep learns needs
reads not to fail for ever: `SF` on the answer that succeeds, never on a
particular interleaving. `GatewayLink` assumes that an attempt to connect is
answered (the code sets no handshake time-out and leaves that to the operating
system), that HTTP requests go on being made (somebody uses the app: the 401
they meet is what clears a stale token), and that the page the token is scraped
from is not unreadable every time. `WsClient` assumes that handshakes end unless
the page was suspended under them, that the browser does not refuse to make
every socket, and that somebody wakes the phone again.
`WsBridge` assumes that the token is found or given up (its fetch has a
time-out), that a dial on the loopback is answered, that a socket that was asked
to close closes (the library has a time-out of its own) and that the keepalive
runs. `KanbanBoard` assumes that the poll's interval fires and that what was
asked of the proxy is answered; it assumes nothing of the stream. Nothing forces
a gateway, a person or a failing network to act. `Restart` in `KanbanSweep` is
fair only once a stop has begun.

## 4. Proofs

Forty-seven theorems, each for every value of its module's constants under the
named `ASSUME`s, which TLC evaluates in the runs. None has a hypothesis of its
own.

*The feed*, in `PushProofs` (every set of runs, topics, keys and values; every
`SeenCap >= MaxEntries`, every collapse window, every clock bound):
`FeedTypeCorrect`, `FeedIsOwed`, `FeedIndexIsExact`, `FeedSeenOutlivesEntries`,
`FeedNoRunTwice`, `FeedClearingForgetsNoRun`.

None of these invariants is inductive. Two ideas make them so. First,
`persist()` restores the debt between memory and disk from *any* state, so a
mutation owes the invariant `Sound` before it and gets `Owed` after it
(`PersistKeeps`). Second, "a shown run is remembered" must say *where* it is
remembered, because eviction is by position: `Tracked` states that a row's run
has a place in `seenRuns` no further from its end than the row is from the end
of the rows. The row list is the shorter one, so an id is evicted only when its
row has left. A seeding pass may adopt runs without rows, which would break the
correspondence if rows of runs existed: `FeedInv` adds that a seeding pass runs
over a feed that shows no run, which is inductive since `hasSeeded` is true as
soon as anything is remembered.

*The scheduler of passes*, in `GatewayLinkProofs` (every
`Settle <= ActiveSettle`, every interval):
`SchedulerOnePassAtATime`, `SchedulerServedInTime`, and `SchedulerCoalesces`,
the refinement of `Coalescing` step by step (its safety part). The inductive
invariant says that an armed timer and a pass exclude each other, that only a
pass leaves `dirty` up, and that an unanswered ask has one of the two behind it
with enough of its delay left.

*The three sweeps keep the same contract*: `CronCoalesces`, `KanbanCoalesces`,
`SessionCoalesces` map each, with all its reads, rows, stops and kills, to the
safety part of `Coalescing`. What is asked for in the abstract is here the armed
timer or the flag `dirty`; the lemma that carries the step is that `dirty` is
only up inside a pass (`DirtyInPass`), so a pass that ends hands the flag to a
new timer and no signal is forgotten but by a stop. The scheduler's timing is a
matter of `PassScheduler` alone.

*The cron pass*, in `CronProofs` (every set of jobs, runs and stores, every
`SeenCap`, any reads that fail, any restarts): `CronTypeCorrect`,
`AnnouncedAtMostOnce`, `HistoryIsAdopted`, `NothingIsAdoptedLater`. The feed may
remember fewer runs than there are: a step adds one run and may push others out
(`Adds`), `forgotten` keeps those, and the statements say what holds of the
rest. The argument is a balance. An announcement puts the run among what is
known in the same stretch of code, and knowledge is taken away by an eviction,
which starts the count anew, or by a restart, down to the file: so announcements
are at most one more than restarts while the run is known, and at most as many
as restarts while it is not (`Paid`). A seeding pass has every old run behind
it, known, or still ahead of it in a list it has not read or in one it holds
(`Ahead`), unless a read did not show it or it was pushed out (`Excused`); once
the pass is over no old run is left to be found (`Behind`). The file has nothing
that is neither known nor forgotten, and a file that says the first pass was
completed covers the old runs (`Filed`), so a restart keeps both.

*The kanban sweep*, in `KanbanProofs` (every set of boards and cards, any
numbers of moves, fallbacks and restarts): `KanbanTypeCorrect`,
`AnnouncedAtMostOnceIfListed`. The mark of a card that was announced as it is
says so (`Marked`). What is hard is the prune, which deletes marks: it deletes
the mark of a card that no answer of the pass had, on boards that were read. The
invariant says that a mark it may delete is of a card that was not there when
its board was read (`Forgettable`), and that such a card does not come back,
because an id is not used twice (`Unborn`). None of it holds for the nameless
board of a fallback, which is the condition of the theorem.

`GatewayLinkProofs` (every grace time above the floor, every number of gateway
starts, calls, conversations and restarts of the proxy): `AlwaysTended`,
`CallsEndWithTheirSocket`, `NeverOfflineWhileOpen`, `OutageOutlastsGrace`,
`RecoveryAnswers`. The inductive invariant `LinkInv` ties four places to each
other. `OnlyWhileStarted` and `BoundToTheSocket` say where the socket may be and
that the RPC side is bound from its opening to its close. `WatchedWhileAway`
says that a link that is open, or open until its close event is handled, has
nothing to watch, and that the watch never counts more than the time the link
was really away: this is why a row "down" needs the whole grace time.
`RowIsKnown` says that the newest row is "down" exactly while the watch has
reported an outage, or after a stop, when no row is written any more; a restart
of the proxy breaks it (the code forgets), hence the condition on `restarts`
that the two properties about rows carry.

*The client*, in `SocketProofs` (any number of sockets and calls, any probe
threshold): `ClientOneLiveSocket`, `ClientExpiredIsTrue`, `ClientStateIsTrue`,
`ClientNoSocketNoCalls` (but for the calls `stranded` by a socket that was never
made). What carries them is that handlers are taken off before a socket is
replaced: whoever still has handlers is the client's own socket, so a close or an
open that reaches a handler is about the socket the state is about. The state
`offline` needs the timer or the wish to be offline to be part of the invariant.
`ClientExpiredIsTrue` says that the latch is right or was set by a refusal that
was not the gate's expiry; a probe, whenever it answers, never sets it wrongly.

*The bridge*, in `SocketProofs` (every pair of limits and every number of
frames): `BridgeUpIsAPipe` and `BridgeDownIsAPipe`, the refinement of `Pipe` by
either way, `BridgeNoOrphanLeg`, `BridgeQueuesAreBounded`. Frames are numbered by
their writer; the invariant says that the four places a frame may be in hold
consecutive stretches of the numbers, in the order Hermes' socket, what is
queued to it, what is held, what the phone has written and the proxy not read. A
move of a frame is then a move of the boundary between two stretches, and the
mapping to `Pipe` only sees the outermost ones. On the way down the queue to the
phone also has the keepalive's empty lines, so it is no stretch: `Relayed` says
that a reader who has `a` frames and reads it through has `b`, which an append
moves by one or not at all, and what is still to be relayed begins after `b`.

*The session sweep*, in `SessionSweepProofs` (every set of sessions, any number
of messages, kills and stops): `SessionBannerIsCurrent`,
`SessionRetractedOnlyWhenOver`, `SessionOneReplyPerTurn`,
`SessionSwallowedOnlyIfExcused` (and `SessionCoalesces`, above). A lemma reduces
any step to seven things it may be to one session (`LifeStep`). The invariant
rests on what a pass and both watermarks, the one in memory and the one in the
file, know being something the session once was (`MarksWere`, `RowsWere`). That
a turn is announced once needs a count of slack: the announcements, with the one
under way, stay one behind the turns and the lapsed watermarks (`Allowance`)
while a turn is under way or its messages are not recorded, and two behind where
a row of the pass is about to tell of an older turn (`Behind`); a restart that
takes the mark back to the file's lapses it, which pays for what is told again.
A reply is lost in the named cases only because whatever was recorded while the
reply was being appended was excused when it was read (`SeenSpoken`), and
because a file that records the end of a turn still owed does so while its reply
is being told, which a restart then excuses (`FiledGap`). For the banners, a
session in `announced` is marked as waiting until the step that notices the end
takes it out (`AnnouncedWait`), and a banner that is not `lost` is known to the
process or being taken down (`BannersKnown`).

*The board*, in `ScreenProofs` (any number of boards and cards, of happenings
and attempts): `BoardGoneStaysGone`, `BoardDeletesAreMeant`,
`BoardQuietMeansFresh`. Two lemmas carry all three. `LifeStep` says what any
step of the screen may do to one deletion, in eleven alternatives that hide the
other cards; `PagesTurn` says that a page on screen is only ever replaced by one
that was read from its board. `GoneInv` then ties a deletion to its board, to
the hidden cards and to the page it waits for: once Hermes has deleted the card
no board has it, the refetch that `onSuccess` asks for is a new one because the
board has data by then (`OnItsBoard`), so the page that arrives lacks it
(`RefetchedWithout`), also when that refetch is replaced once and the deletion
is handed on (`IsCarried`). `MeantInv` says that the board of a deletion is the
board the card was seen on. `QuietInv` says that pages only get newer (`Ages`),
and that what the cursor has passed is on the board or on its way there
(`Covered`): in the coalescing timer, in a fetch that was not answered yet, or
in an answer as new as the cursor.

*The overlays*, in `ScreenProofs` (any number of overlays, presses, navigations
and late pops): `OverlayEntriesMatch`, `OverlayEveryPressCounts`. The entries
climb: above an overlay's entry there is only a later overlay's, and a page on
top has nothing but pages below it (`Climbs`, `OnlyPages`), unless a page was
put over an entry (`strand`). A press then lands on the entry of the overlay
below, so all that is closed is what was above. Whoever leaves an entry behind
has an unwind under way (`TidyInv`); of the pops under way all are presses but
one, the unwind's, and that one is for an entry that is nobody's (`Balanced`,
`Unwinds`). With two overlays open at most, and nothing opened while a pop is
under way, an overlay has at most one entry above its own (`OnTop`): this is why
a press closes one. Where those conditions fail the code really does something
else (section 5).

*The subscriptions*, in `PushProofs` (any number of devices, identities,
fan-outs under way, failing writes and kills): `PushOffIsOff`,
`PushKnownUnlessMissed`, `PushHealthIsTrue`. Each has its part of the invariant.
On the phone, whoever waits has one request on its way, and a switch that is
being turned off asks for the subscription the browser holds unless the worker
crosses it (`PhoneInv`). Between phone and proxy, a subscription that is served
and was not lost is a device or has a registration under way, and the file has
the proxy's identity or none (`KnownInv`). For the counters, the row of a device
that is not amiss, once all the answers that sends under way hold are written,
counts what the answers said in their order (`Due`): its own failures, unless a
success is held, and every held refusal that no held success came after
(`Counting`), up to the bound; of two held answers that disagree `older` always
knows which came first. A fan-out's last answer writes all it holds, over rows
that may have gone and come back in the meantime, and pays the debt
(`AnswerKeepsHealth`).

*The conversation*, in `ChatProofs` (any number of conversations and prompts,
any budget of troubles, any length of the wire): `ChatInvariant`,
`NothingForeignShown`, `PromptsAtHome`, `StopButtonIsTrue`. A prompt belongs to
the conversation it was typed in, and every row, queued message, sheet, call,
answer, event and turn names a prompt and a conversation: on the wire and at the
gateway by its handle, on the screen by which conversation is shown. `ChatInv`
says the two agree everywhere at once, since each place hands to the others what
it holds. What makes it inductive is about answers: the screen takes the answer
to a resume, a history or a create without asking whether it is still meant. So
there is at most one boot, the call that is out belongs to it and the screen is
where the call left it (`Fits`), and a reattach speaks of the conversation on
screen for as long as its effect is alive (`Syncs`). Where two boots cross, or a
rewind is answered after a switch, the code does put foreign things on the
screen (section 5), and the invariant says nothing (`Clean`); what it says of
approval sheets leaves out a third race besides. `ChatInv` has a second, weaker
mode that only says that a prompt is one and a conversation is one, and leaves
out the first race alone: the stop button needs it, for it is right across a
rewind.

`StopButtonIsTrue` goes from the gateway to the phone. Of the frames on the wire
about a conversation, one that says whether it runs (a turn's event, the answer
to a resume or a create), and one the phone concludes it from (the answer to a
submit, a replayed end of a turn), is true at the gateway unless an event of the
conversation comes after it, and names the runtime that is up: `Track`. Whatever
the gateway does keeps it so, and what it adds never spoils what a phone that was
right goes by (`Serves`). A phone that holds a conversation on a socket that is
up either waits for the answer of its reattach (`Awaits`), or is attached, holds
the live runtime's handle and agrees with the gateway as soon as no event is on
its way, but for a prompt that is still being sent (`Settled`). Every step of
the phone is then one of a few kinds: it lets go of the conversation, goes on as
before, starts to wait, or takes a frame, and a replay is a run of such frames
in the gateway's ring. Once nothing is under way the first alternative is gone
and the second is the property. `StopInv` is what is inductive, beside `ChatInv`
in its weaker mode. A socket that reopens while `doResume` still awaits its reads
is a named race (`back`), and ends the argument as the others do.

Proved and not checked by a run: `FeedIndexIsExact`, `FeedClearingForgetsNoRun`,
`FeedTypeCorrect`, `FeedSeenOutlivesEntries`, `SchedulerOnePassAtATime`,
`CronTypeCorrect`, `KanbanTypeCorrect`, the refinements of `Coalescing` by the
three sweeps, `AlwaysTended`, `CallsEndWithTheirSocket`, `NeverOfflineWhileOpen`,
`ClientStateIsTrue`, `ClientNoSocketNoCalls`, `BridgeNoOrphanLeg`,
`BridgeQueuesAreBounded`.

Only model-checked: all liveness properties and `LiveSpec` of `Coalescing` and
`Pipe` (fairness and `ENABLED` are out of the prover's reach); of the
conversation, `TranscriptIsWhole` and `RepliesOnce`, which compare folds over a
transcript with the gateway's (induction over data), and `SheetIsTrue`, which is
not proved yet: it needs the argument of the stop button again for the frames
that speak of an approval (section 6).

## 5. Met while modelling

Places where the code does not do what it, or a comment beside it, says. TLC
found each as a counterexample to a stronger form of a property above.

*Proxy*

- The shutdown handler flushes the feed once (`index.ts:279`); a pass that is
  still under way announces another run whose row is only pending when the
  process exits, and announces it again after the restart. `TESTING.md:72` has
  `flushFeed()` get out "whatever is still queued".
- A session pass between the last append and the end of a turn moves the
  watermark past the reply, and the turn is never announced
  (`sessions.ts:573`). The settle delay that `sessions.ts:121` explains covers
  passes started by a signal, not those of the interval; `sessions.ts:456`
  promises "A turn that finished while nobody was watching".
- The watermark is written (`sessions.ts:548`) before the reply is read and
  pushed: a process that ends in between, a push that fails, or a pass with no
  device subscribed (`sessions.ts:461`) loses the reply. So does a session that
  is missing from one list while its reply is unannounced: its watermark is
  pruned (`sessions.ts:584`) and the next sight of it is silent.
- A kill inside the feed's cooldown loses the watermark (`feed.ts:252`), and the
  turn it stood for is announced again by the next process; `feed.ts:246`
  counts only entries that were not recorded as its loss.
- A retraction that finds no device (`sessions.ts:444`) or fails leaves its
  banner, and nobody tries again: `announcedWaiting` has forgotten it
  (`sessions.ts:443`).
- Two kanban passes whose list of boards failed announce again, under the
  nameless board, what was announced under the board's own slug
  (`kanban.ts:242`); `kanban.ts:344` wants recovery to be silent.
- A first cron pass that missed a job's runs is recorded as complete and the
  next one announces that job's history (`cron.ts:571`).
- A run that newer runs pushed out of `seenRuns` and that is still listed is
  announced again: the code keeps the last `MAX_ENTRIES * 4` ids and relies on
  what it lists being among them.
- A rejected token is retried by the listener until an HTTP 401 clears it; the
  comment at `events.ts:168` expects the next attempt to scrape again.
- A turn that ended after the last answered pass is named as interrupted by the
  restart row (`updates.ts:201`). A restart of the proxy forgets which banners
  are up and that an outage was announced (`sessions.ts:152`, `updates.ts:157`).
- A `sessions.changed` that comes while the 8 s timer is armed is looked at
  after up to 8 s, not the 2.5 s of `SETTLE_MS` (`sessions.ts:371`). A session
  already waiting when it is first seen is not announced (`sessions.ts:553`);
  neither is a second question inside one interval. A turn stopped before the
  agent spoke may quote the reply before it (`sessions.ts:573`).
- The unread badge counts rows newer than the newest row read; a row that lands
  later with an earlier time is never unread (`feed.ts:437`).
- Of two sends that overlap the slower one writes its marks last, so of two
  answers of a device that disagree the older may be written last and a device
  that works is shown as failing, or the reverse (`send.ts:129`). A row that was
  dropped and registered anew during a send is charged with the refusal of the
  row before it (`store.ts:159`).

*Push on the phone*

- `pushStatus()` reports "on" for any subscription the browser holds, and only
  the toggle registers it again (`lib/push.ts:140`). A registration lost on its
  way stays lost, although `push-sw.js:126` and `store.ts:112` say the next
  launch repeats it; `lib/push.ts:151` calls this "the one failure mode with no
  visible symptom".
- The worker ignores what the proxy answered its `POST /push/subscribe`; a
  toggle off while the worker re-subscribes leaves the phone on; `enablePush`
  registers a subscription made for a lost identity again, which every send is
  then refused for.

*Connection*

- After a restart of Hermes the first REST call meets Hermes' own 401, about the
  proxy's stale token, and latches "Signed out" (`api/client.ts:88`;
  `api/client.ts:85` and `accessSession.ts:170` take it for the gate's). So does
  every other 401 or 403: Hermes' of a request the proxy found no token for
  (`apiProxy.ts:57`), any refusal of Hermes' own, and the proxy's 403 to somebody
  who is not on the allowlist, which `auth.ts:198` says is not recoverable by
  signing in again.
- Calls of a socket discarded in CLOSING, or by `setUrl`, or dropped for one whose
  constructor throws (`client.ts:182`), wait for their own time-out
  (`client.ts:163`).

*Conversation*

- A socket that reopens while `doResume` awaits `fetchStoredMessages` or
  `fetchSessionTitle` (`ChatScreen.tsx:260`, `:290`) is not reattached to: the
  reconnect effect records it as live (`:401`), returns because a boot is still
  under way (`:405`), and nothing runs it again. The conversation's events no
  longer come, and the gateway, finding nobody attached, may end the turn.
- Adopting a rebuilt runtime ends the effect that would load its transcript
  (`ChatScreen.tsx:454`: `alive` is false after the await); `ChatScreen.tsx:391`
  says it "gets the transcript loaded outright".
- The failure of a submit or of an approval is written into whatever
  conversation is on screen (`session.ts:1002`, `session.ts:1160`), and clears
  `running` on a busy refusal while a turn runs.
- A resync whose history is shorter than the screen returns before it looks at
  anything (`session.ts:1080`), and takes `running` from before its await; one
  of equal length wipes a failed bubble. The sheet of a request that ended while
  the phone was away stays; so does a stop button when the conversation already
  held is entered by a link.
- Boots of two visits cross, and a second intent during a boot is dropped. A
  message typed or queued while a boot's history is in flight is wiped by
  `loadHistory`. A resume refused on a reconnect, then a drop during the resume
  that replaces it, opens a new conversation.
- A turn that completes between the answer of a resume and `beginReplayWindow`
  is replayed: the reply is there twice. The replay floor is the module's, not
  the visit's, with the same effect. A live `message.complete` inside the replay
  window is followed by the replay of its tools, which sets `running` again.
- A rewind continues in the conversation that is on screen when its request is
  answered, counts bubbles on screen as turns, and cuts the screen at the bubble:
  a reply that came on screen below a later prompt is cut away with it while the
  gateway keeps it. One that is answered while a reattach reads the history puts
  the undone turn back on screen.
- An approval's answer that fails puts its sheet back although another answer is
  under way or the turn is over. A submit that fails after a reattach clears
  `running` but leaves the sheet of the turn it found.

*Overlays*

- Of three overlays nested, closing the top one by a press also closes the
  bottom one (`useHistoryDismiss.ts:15` to `:19` says the one below stays open).
- An overlay opened while a pop is in flight closes itself; a pop later than the
  second the code waits pops one entry too many; a newcomer that replaces two
  nested overlays leaves one entry buried until it closes.
  `TaskSheet.tsx:838` navigates while its sheet's entry is on top, and strands it.

*Board*

- A commit uses the board its screen has when it is sent (`kanban.ts:9` to `:20`,
  `KanbanScreen.tsx:324` to `:337`): a card deleted, another board picked within
  eight seconds, and the request goes to the other board, is refused, and the
  card comes back.
- The second replacement of the refetch a deletion waits for lets the deletion
  go: the card flickers back until it arrives. A failed refetch shows it until the
  next poll; so does leaving the screen and coming back within the window, and
  picking by name the board that was on screen as the server's current one (two
  entries of the cache).
- While the screen follows the server's pointer, a move of the pointer leaves
  the stream on the old board, with a cursor of the other's numbering
  (`useKanbanEvents.ts:87`). A flush during the first load joins it, and what it
  was about may wait for the poll.

## 6. Plan

Done: feed, scheduler, cron, sessions, gateway link, kanban sweep, WebSocket
client, push, bridge, conversation, overlays, board, and proofs about each.

Left, most important first:

1. Edits of a card: a request whose success invalidates the board, the refusals
   per card of the bulk bar, the fallback from a board that is gone (404).
2. The undo of the session list and of the cron tab, which put back a snapshot
   of the whole list: undoing an earlier deletion restores a later one's row.
3. Share intake: one filed share, claimed by the screen that comes first.
4. Liveness of the conversation (an accepted prompt is answered on screen once
   the connection stays), from the safety the run shows once things are quiet.
5. Compositions: the listener's signals driving the three sweeps over one feed
   (one cooldown, one file) with an outage in between.

Theorem to come: `SheetIsTrue`. The frames that speak of an approval are more
than those that speak of a turn: a request, its withdrawal, the end of a turn,
the answers to a resume and to the open requests that came with it, and the
phone's own answer, which may fail and puts the sheet back. `StopInv` gives the
turn; a second `Track` and a second `Settled` would have to give the sheet.

Not modelled, and why: rendering, formatting, derivations and API clients have
no state that order could spoil; `auth.ts` verifies a signature per request;
static files, the health probe, audio and scripts are input and output; the
event toast shows the newest row it has. `PROJECT.json` lists each with its
reason.

## 7. Running

    tlc -config Feed_store.cfg MCFeed
    tlc -config KanbanBoard_board.cfg MCKanbanBoard
    tlapm ScreenProofs.tla

Every run's module and configuration are in `PROJECT.json`. Each run ends within
five minutes on two cores.
