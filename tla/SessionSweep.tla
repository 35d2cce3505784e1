---------------------------- MODULE SessionSweep ----------------------------
(***************************************************************************)
(* The session sweep of the proxy, server/src/push/sessions.ts: what it    *)
(* makes of the gateway's live registry, read one snapshot at a time, and  *)
(* which banners a phone ends up showing.  A turn ends, is interrupted or  *)
(* stops to ask in the gateway; the sweep only ever sees two states and    *)
(* reports the difference.                                                 *)
(*                                                                         *)
(* The watermarks are the feed's: they are written behind its cooldown,    *)
(* which the rows of other modules arm too, and a process that is killed   *)
(* comes back with those of the file.  A turn is told by a push, which     *)
(* needs a subscription and may fail.                                      *)
(*                                                                         *)
(* A pass is one async function.  Between two awaits it runs alone (the    *)
(* other handlers wait for Yielded); at an await anything may happen.      *)
(***************************************************************************)
EXTENDS FeedStore

CONSTANTS
  Sessions,
  Sources,       \* who may have opened a session
  MaxCount,      \* bound on message_count
  MaxRestarts    \* bound on kills and orderly stops

InFlightStatus == {"working", "waiting"}   \* "starting" is read like "working"
Status == {"idle"} \cup InFlightStatus
Mark == [status : Status, count : 0..MaxCount] \cup {NoMark}

ASSUME SweepAssumption ==
  /\ MaxCount \in Nat /\ MaxRestarts \in Nat
  /\ Sources \subseteq {"person", "cron", "kanban"}
  /\ Keys = Sessions
  /\ Values = [status : Status, count : 0..MaxCount]
  /\ NoMark = [status |-> "none", count |-> 0]

VARIABLES
  \* the gateway
  source,     \* who opened a session; a cron run shows it in its name, a kanban
              \* worker only in its row, which takes a read
  registry,   \* the live sessions
  status, count,
  spoken,     \* the turn under way has appended its reply
  \* the proxy
  feed,
  announced,  \* announcedWaiting
  inFlight,   \* what updates.ts is told was running
  sweep, timer, dirty,
  pass,       \* the locals of reconcileSessions()
  stopping,   \* SIGTERM was handled and the process has not exited yet
  \* what happened
  banner,     \* sessions whose phone shows "Hem is waiting for you"
  lost,       \* ... whose retraction was not sent, failed, or is forgotten
  replies,    \* how many replies of each session were announced
  turns,      \* how many turns of each session were started
  produced,   \* ... and how many ended with a reply
  owed,       \* a sighted session's turn has ended with a reply nobody announced
  excused,    \* ... and the code is known to lose such a reply (see Excuse)
  lapsed,     \* how often each session's watermark was taken back by a restart
  open,       \* questions open since before the pass under way began
  restarts

gateway == <<source, registry, status, count, spoken>>
scheduler == <<sweep, timer, dirty>>
phone == <<banner, lost>>
debt == <<owed, excused>>
process == <<stopping, lapsed, restarts>>
vars == <<gateway, feed, announced, inFlight, scheduler, pass, process, phone,
          replies, turns, produced, debt, open>>

marks == feed.mem.watermarks
filed == feed.disk.watermarks

Snapshot(s) == [status |-> status[s], count |-> count[s]]

Idle == [at |-> "idle", rows |-> [s \in Sessions |-> NoMark], todo |-> {}, who |-> {},
         then |-> "loop"]

Init ==
  /\ source \in [Sessions -> Sources]
  /\ registry \in SUBSET Sessions
  /\ status = [s \in Sessions |-> "idle"]
  /\ count = [s \in Sessions |-> 0]
  /\ spoken = {}
  /\ feed = Loaded(EmptyFile)
  /\ announced = {} /\ inFlight = {}
  /\ sweep = FALSE /\ timer = FALSE /\ dirty = FALSE
  /\ pass = Idle
  /\ stopping = FALSE
  /\ banner = {} /\ lost = {} /\ owed = {} /\ excused = {} /\ open = {}
  /\ replies = [s \in Sessions |-> 0]
  /\ turns = [s \in Sessions |-> 0]
  /\ produced = [s \in Sessions |-> 0]
  /\ lapsed = [s \in Sessions |-> 0]
  /\ restarts = 0

-----------------------------------------------------------------------------
(* The gateway. *)

proxy == <<feed, announced, inFlight, scheduler, pass, process, phone, replies>>

SessionOpens(s) ==
  /\ s \notin registry
  /\ registry' = registry \cup {s}
  /\ UNCHANGED <<source, status, count, spoken, proxy, turns, produced, debt, open>>

\* Closed or reaped, with whatever it was asking.
SessionCloses(s) ==
  /\ s \in registry
  /\ registry' = registry \ {s}
  /\ status' = [status EXCEPT ![s] = "idle"]
  /\ spoken' = spoken \ {s}
  /\ owed' = owed \ {s} /\ open' = open \ {s}
  /\ UNCHANGED <<source, count, proxy, turns, produced, excused>>

\* The prompt is appended.
TurnStarts(s) ==
  /\ s \in registry /\ status[s] = "idle" /\ count[s] + 2 <= MaxCount
  /\ status' = [status EXCEPT ![s] = "working"]
  /\ count' = [count EXCEPT ![s] = @ + 1]
  /\ turns' = [turns EXCEPT ![s] = @ + 1]
  /\ owed' = owed \ {s} /\ excused' = excused \ {s}
  /\ UNCHANGED <<source, registry, spoken, proxy, produced, open>>

Asks(s) ==
  /\ s \in registry /\ status[s] = "working" /\ s \notin spoken
  /\ status' = [status EXCEPT ![s] = "waiting"]
  /\ UNCHANGED <<source, registry, count, spoken, proxy, turns, produced, debt, open>>

Answered(s) ==
  /\ s \in registry /\ status[s] = "waiting"
  /\ status' = [status EXCEPT ![s] = "working"]
  /\ open' = open \ {s}
  /\ UNCHANGED <<source, registry, count, spoken, proxy, turns, produced, debt>>

\* The reply is appended a moment before the session goes back to idle.
ReplyAppended(s) ==
  /\ s \in registry /\ status[s] = "working" /\ s \notin spoken
  /\ count' = [count EXCEPT ![s] = @ + 1]
  /\ spoken' = spoken \cup {s}
  /\ UNCHANGED <<source, registry, status, proxy, turns, produced, debt, open>>

TurnEnds(s) ==
  /\ s \in registry /\ status[s] = "working" /\ s \in spoken
  /\ status' = [status EXCEPT ![s] = "idle"]
  /\ spoken' = spoken \ {s}
  /\ produced' = [produced EXCEPT ![s] = @ + 1]
  /\ owed' = IF marks[s] # NoMark /\ source[s] = "person" THEN owed \cup {s} ELSE owed
  /\ UNCHANGED <<source, registry, count, proxy, turns, excused, open>>

\* Stopped before it has said anything: only the prompt was appended.
TurnStopped(s) ==
  /\ s \in registry /\ status[s] \in InFlightStatus /\ s \notin spoken
  /\ status' = [status EXCEPT ![s] = "idle"]
  /\ open' = open \ {s}
  /\ UNCHANGED <<source, registry, count, spoken, proxy, turns, produced, debt>>

-----------------------------------------------------------------------------
(* Asking for a pass. *)

Running == pass.at # "idle"

Yielded == pass.at \notin {"loop", "gone"}

\* scheduleSessionSweep.
Schedule ==
  /\ dirty' = (dirty \/ Running)
  /\ timer' = (timer \/ ~Running)

unasked == <<gateway, feed, announced, inFlight, pass, process, phone,
             replies, turns, produced, debt, open>>

StartSessionSweep ==
  /\ ~sweep /\ ~stopping
  /\ sweep' = TRUE
  /\ UNCHANGED <<unasked, timer, dirty>>

\* sessions.changed or approval.cancelled arrives, or the interval elapses.
SessionSignal ==
  /\ Yielded
  /\ Schedule
  /\ UNCHANGED <<unasked, sweep>>

\* Mutated: an idle machine pays nothing at all.
IntervalWhileActive == sweep /\ inFlight # {} /\ SessionSignal

IntervalElapses == sweep /\ SessionSignal

-----------------------------------------------------------------------------
(* The pass. *)

told == <<replies, turns, produced>>

TimerFires ==
  /\ timer /\ ~Running
  /\ timer' = FALSE
  /\ pass' = [Idle EXCEPT !.at = "list"]
  /\ open' = {s \in registry : status[s] = "waiting"}
  /\ UNCHANGED <<gateway, feed, announced, inFlight, sweep, dirty, process, phone,
                 told, debt>>

\* The finally block: again soon when a turn is in flight.
Leave ==
  /\ pass' = Idle
  /\ dirty' = FALSE
  /\ timer' = (timer \/ dirty \/ inFlight # {})

\* Mutated: no answer reads as an empty registry.
NoListIsEmpty ==
  /\ pass.at = "list"
  /\ pass' = [pass EXCEPT !.at = "loop"]
  /\ UNCHANGED <<gateway, feed, announced, inFlight, scheduler, process, phone,
                 told, debt, open>>

\* callGateway answered null: nothing is concluded from it.
NoList ==
  /\ pass.at = "list"
  /\ Leave
  /\ UNCHANGED <<gateway, feed, announced, inFlight, sweep, process, phone, told,
                 debt, open>>

\* The code is known to lose the reply of a turn: the list was read between its
\* append and the turn's end; nobody was subscribed, or the push failed; the
\* process ended between the watermark and the push; or the watermark itself was
\* forgotten, by the prune or by a kill before it was written.
Excuse(lots) == excused' = excused \cup lots

ListArrives ==
  /\ pass.at = "list"
  /\ pass' = [pass EXCEPT !.at = "loop", !.todo = registry,
                !.rows = [s \in Sessions |-> IF s \in registry THEN Snapshot(s) ELSE NoMark]]
  /\ Excuse(spoken)
  /\ UNCHANGED <<gateway, feed, announced, inFlight, scheduler, process, phone,
                 told, owed, open>>

\* Mutated: a reply is announced before the watermark is moved, and instead.
RecordedUnlessReply(s) ==
  IF pass.rows[s].status = "idle" /\ pass.rows[s].count > marks[s].count /\ marks[s] # NoMark
  THEN feed
  ELSE SetWatermark(feed, s, pass.rows[s], TRUE)

Recorded(s) == SetWatermark(feed, s, pass.rows[s], TRUE)

\* waiting, and was not before; a session never seen before is silent.
Asking(s) ==
  /\ pass.rows[s].status = "waiting" /\ marks[s].status \notin {"waiting", "none"}

\* Mutated: a question is over when its turn is.
OverWhenIdle(s) ==
  /\ marks[s].status = "waiting" /\ pass.rows[s].status = "idle"
  /\ s \in announced

\* No longer waiting, and a banner says it is.
Over(s) ==
  /\ marks[s].status = "waiting" /\ pass.rows[s].status # "waiting"
  /\ s \in announced

\* Mutated: a turn is over only if it was seen running.
RepliedAfterWorking(s) ==
  /\ pass.rows[s].status = "idle" /\ marks[s].status = "working"
  /\ pass.rows[s].count > marks[s].count
  /\ source[s] # "cron"

\* Idle, and the transcript has grown.
Replied(s) ==
  /\ pass.rows[s].status = "idle" /\ marks[s] # NoMark
  /\ pass.rows[s].count > marks[s].count
  /\ source[s] # "cron"

\* A mark that is still the session's last word.
IsLast(m, s) == m.count = count[s]

\* What a row asks for; with no device subscribed none of it is begun.
Work(s, subscribed) ==
  IF ~subscribed THEN "loop"
  ELSE IF Asking(s) THEN "detail"
  ELSE IF Over(s) THEN "retract"
  ELSE IF Replied(s) THEN "reply"
  ELSE "loop"

\* The pass goes on `at' some await, for s and with `then' to do, or at none.
Await(p, at, s, then) ==
  [p EXCEPT !.at = at, !.who = IF at \in {"loop", "gone"} THEN {} ELSE {s}, !.then = then]

\* One row of the list: the watermark moves first, then a banner whose question
\* is over comes down, then what is news waits for its REST reads.  Whether a
\* device is subscribed is the push store's: any answer is possible.
TakeRow(s, subscribed) ==
  /\ pass.at = "loop" /\ s \in pass.todo
  /\ feed' = Recorded(s)
  /\ LET work == Work(s, subscribed)
     IN  pass' = Await([pass EXCEPT !.todo = @ \ {s}], work, s,
                       IF work = "retract" /\ Replied(s) THEN "reply" ELSE "loop")
  /\ announced' = IF Over(s) THEN announced \ {s} ELSE announced
  /\ lost' = IF Over(s) /\ ~subscribed THEN lost \cup {s} ELSE lost
  /\ Excuse({t \in {s} : Replied(t) /\ ~subscribed /\ IsLast(pass.rows[t], t)})
  /\ UNCHANGED <<gateway, inFlight, scheduler, process, banner, told, owed, open>>

\* reportWaiting, once the session's profile was searched for; the push may fail.
DetailArrives(s, ok) ==
  /\ pass.at = "detail" /\ s \in pass.who
  /\ announced' = announced \cup {s}
  /\ banner' = IF ok THEN banner \cup {s} ELSE banner
  /\ lost' = IF ok THEN lost \ {s} ELSE lost
  /\ pass' = Await(pass, "loop", s, "loop")
  /\ UNCHANGED <<gateway, feed, inFlight, scheduler, process, told, debt, open>>

\* retractWaiting: the banner is replaced by a quiet one, or stays; then the
\* reply of the same row is reported.
Retract(s, ok, subscribed) ==
  /\ pass.at = "retract" /\ s \in pass.who
  /\ banner' = IF ok THEN banner \ {s} ELSE banner
  /\ lost' = IF ok THEN lost \ {s} ELSE lost \cup {s}
  /\ LET unsent == pass.then = "reply" /\ ~subscribed
     IN  /\ pass' = Await(pass, IF unsent THEN "loop" ELSE pass.then, s, "loop")
         /\ Excuse({t \in {s} : unsent /\ IsLast(marks[t], t)})
  /\ UNCHANGED <<gateway, feed, announced, inFlight, scheduler, process, told, owed, open>>

Announced(s) == replies' = [replies EXCEPT ![s] = @ + 1]

\* reportReply: the session's source and the last thing the agent said are read
\* back, either of which may fail, and the push may.
ReplyArrives(s) ==
  /\ pass.at = "reply" /\ s \in pass.who
  /\ \/ /\ source[s] = "kanban" \/ produced[s] = 0
        /\ UNCHANGED <<replies, debt>>
     \/ /\ Announced(s)
        /\ owed' = owed \ {t \in {s} : IsLast(marks[t], t)}
        /\ UNCHANGED excused
     \/ /\ Excuse({t \in {s} : IsLast(marks[t], t)})
        /\ UNCHANGED <<replies, owed>>
  /\ pass' = Await(pass, "loop", s, "loop")
  /\ UNCHANGED <<gateway, feed, announced, inFlight, scheduler, process, phone,
                 turns, produced, open>>

\* The sessions the list named.
Seen == {s \in Sessions : pass.rows[s] # NoMark}

\* The prune, and the snapshot for updates.ts.
Finish ==
  /\ pass.at = "loop" /\ pass.todo = {}
  /\ feed' = PruneWatermarks(feed, Sessions, Seen, TRUE)
  /\ inFlight' = {s \in Seen : pass.rows[s].status \in InFlightStatus}
  /\ pass' = [pass EXCEPT !.at = "gone"]
  /\ Excuse(owed \ Seen)
  /\ UNCHANGED <<gateway, announced, scheduler, process, phone, told, owed, open>>

\* A session left the registry with its banner up.
TakeGone(s, subscribed) ==
  /\ pass.at = "gone" /\ s \in announced \ Seen
  /\ announced' = announced \ {s}
  /\ lost' = IF subscribed THEN lost ELSE lost \cup {s}
  /\ pass' = Await(pass, IF subscribed THEN "retract" ELSE "gone", s,
                   IF subscribed THEN "gone" ELSE "loop")
  /\ UNCHANGED <<gateway, feed, inFlight, scheduler, process, banner, told, debt,
                 open>>

End ==
  /\ pass.at = "gone" /\ announced \subseteq Seen
  /\ Leave
  /\ UNCHANGED <<gateway, feed, announced, inFlight, sweep, process, phone, told,
                 debt, open>>

-----------------------------------------------------------------------------
(* The rest of the proxy. *)

elsewhere == <<gateway, inFlight, dirty, told>>

\* A row of another module is persisted.
FeedWritten ==
  /\ Yielded
  /\ feed' = Persist(feed, TRUE)
  /\ UNCHANGED <<elsewhere, announced, sweep, timer, pass, process, phone, debt, open>>

CooldownFires ==
  /\ Yielded /\ feed.cooldown
  /\ feed' = CooldownEnds(feed, TRUE)
  /\ UNCHANGED <<elsewhere, announced, sweep, timer, pass, process, phone, debt, open>>

\* The SIGTERM handler: stopSessionSweep, then flushFeed.  A pass under way goes
\* on until the process exits.
Shutdown ==
  /\ Yielded /\ ~stopping /\ restarts < MaxRestarts
  /\ stopping' = TRUE
  /\ restarts' = restarts + 1
  /\ sweep' = FALSE /\ timer' = FALSE
  /\ announced' = {} /\ lost' = lost \cup banner
  /\ feed' = Flush(feed, TRUE)
  /\ UNCHANGED <<elsewhere, pass, lapsed, banner, debt, open>>

\* A row whose watermark has moved and whose reply is still to be pushed.
Busy(s) ==
  /\ s \in pass.who
  /\ pass.at = "reply" \/ (pass.at = "retract" /\ pass.then = "reply")

\* The next process starts from the file.
Restarted ==
  /\ feed' = Loaded(feed.disk)
  /\ announced' = {} /\ lost' = lost \cup banner
  /\ inFlight' = {}
  /\ sweep' = FALSE /\ timer' = FALSE /\ dirty' = FALSE
  /\ pass' = Idle
  /\ stopping' = FALSE
  /\ open' = {}
  /\ lapsed' = [s \in Sessions |-> IF filed[s] = marks[s] THEN lapsed[s] ELSE lapsed[s] + 1]
  /\ Excuse({s \in Sessions : \/ Busy(s) /\ filed[s] = marks[s]
                              \/ s \in owed /\ filed[s] = NoMark})
  /\ UNCHANGED <<gateway, banner, replies, turns, produced, owed>>

Exit ==
  /\ Yielded /\ stopping
  /\ Restarted
  /\ UNCHANGED restarts

Kill ==
  /\ restarts < MaxRestarts
  /\ restarts' = restarts + 1
  /\ Restarted

-----------------------------------------------------------------------------

GatewayStep ==
  \E s \in Sessions :
    \/ SessionOpens(s) \/ SessionCloses(s)
    \/ TurnStarts(s) \/ Asks(s) \/ Answered(s)
    \/ ReplyAppended(s) \/ TurnEnds(s) \/ TurnStopped(s)

PassStep ==
  \/ NoList \/ ListArrives
  \/ \E s \in Sessions, subscribed \in BOOLEAN :
       \/ TakeRow(s, subscribed) \/ TakeGone(s, subscribed)
       \/ \E ok \in BOOLEAN : DetailArrives(s, ok) \/ Retract(s, ok, subscribed)
  \/ \E s \in Sessions : ReplyArrives(s)
  \/ Finish \/ End

ProxyStep == FeedWritten \/ CooldownFires \/ Shutdown \/ Exit \/ Kill

Next ==
  \/ GatewayStep
  \/ StartSessionSweep \/ SessionSignal \/ IntervalElapses \/ TimerFires
  \/ PassStep
  \/ ProxyStep

Spec == Init /\ [][Next]_vars

\* The sweep is started, timers fire, reads are answered or time out, the
\* socket is not down at every single pass, and a stopped process exits.
FairSpec ==
  /\ Spec
  /\ WF_vars(StartSessionSweep) /\ WF_vars(IntervalElapses) /\ WF_vars(TimerFires)
  /\ WF_vars(PassStep) /\ WF_vars(Exit)
  /\ SF_vars(ListArrives)

-----------------------------------------------------------------------------

Places == {"idle", "list", "loop", "detail", "retract", "reply", "gone"}

TypeOK ==
  /\ source \in [Sessions -> Sources]
  /\ registry \subseteq Sessions /\ spoken \subseteq Sessions
  /\ status \in [Sessions -> Status] /\ count \in [Sessions -> 0..MaxCount]
  /\ feed \in FeedType
  /\ announced \subseteq Sessions /\ inFlight \subseteq Sessions
  /\ sweep \in BOOLEAN /\ timer \in BOOLEAN /\ dirty \in BOOLEAN
  /\ pass \in [at : Places, rows : [Sessions -> Mark], todo : SUBSET Sessions,
               who : SUBSET Sessions, then : {"loop", "reply", "gone"}]
  /\ IF pass.at \in {"detail", "retract", "reply"}
     THEN \E s \in Sessions : pass.who = {s} ELSE pass.who = {}
  /\ stopping \in BOOLEAN
  /\ banner \subseteq Sessions /\ lost \subseteq Sessions
  /\ owed \subseteq Sessions /\ excused \subseteq Sessions /\ open \subseteq Sessions
  /\ replies \in [Sessions -> Nat]
  /\ turns \in [Sessions -> Nat] /\ produced \in [Sessions -> Nat]
  /\ lapsed \in [Sessions -> Nat]
  /\ restarts \in 0..MaxRestarts

\* announcedWaiting's doc: a banner is up only for a session the sweep last saw
\* waiting; one answered elsewhere, withdrawn or closed loses its banner with
\* the pass that notices, unless the retraction could not be sent (nobody was
\* subscribed, the push failed) or the process that knew of the banner ended.
BannerIsCurrent ==
  pass.at \in {"idle", "list"} => \A s \in banner \ lost : marks[s].status = "waiting"

\* A pass that got no list concludes nothing: a banner never comes down while
\* its question has been open since before the pass began.
RetractedOnlyWhenOver ==
  [][\A s \in banner \ banner' : s \notin open]_vars

\* A turn is announced at most once, whatever the passes see of it, and once more
\* for each restart that takes the session's watermark back to what was filed.
OneReplyPerTurn == \A s \in Sessions : replies[s] <= turns[s] + lapsed[s]

Swallowed(s) == marks[s] = Snapshot(s) /\ ~Busy(s)

\* A turn that has ended with a reply is announced by the pass that records its
\* end, but in the cases Excuse names: whatever else passes, turns, kills and
\* failing reads do to each other, the reply is not lost.
SwallowedOnlyIfExcused == \A s \in owed : Swallowed(s) => s \in excused

\* A session that waits is recorded as waiting sooner or later, unless it moves
\* on, whichever passes get no list, whatever signals a pass swallows and
\* whenever the process is cut short.
MarksCatchUp ==
  \A s \in Sessions :
    status[s] = "waiting" ~> marks[s] = Snapshot(s) \/ status[s] # "waiting"

=============================================================================
