----------------------------- MODULE PushStore -----------------------------
(***************************************************************************)
(* Web push from both ends: the devices the proxy keeps in a file          *)
(* (server/src/push/store.ts), the fan-out of one banner to all of them    *)
(* (send.ts, routers/push.ts), and the phone that comes, goes and is       *)
(* re-subscribed by its browser (web/src/lib/push.ts, the worker in        *)
(* web/public/push-sw.js, the switch of SettingsTab.tsx).                  *)
(*                                                                         *)
(* One phone has one subscription at a time and many over its life; to the *)
(* proxy each is a device.  A subscription is its endpoint and the         *)
(* identity (VAPID key) it was made for; the push service serves only the  *)
(* one the browser holds, and not always that.  Endpoints and identities   *)
(* nothing refers to any more are used again.                              *)
(***************************************************************************)
EXTENDS Integers, FiniteSets, Sequences, SequencesExt, Functions

CONSTANTS
  Endpoints,
  Identities,     \* VAPID key pairs
  Sends,          \* how many fan-outs may be under way
  None,
  MaxFailures,    \* where the failure counter stops counting
  MaxBadWrites,   \* bound on writes that fail
  MaxKills        \* bound on kills of the proxy

ASSUME PushAssumption ==
  /\ None \notin Endpoints \cup Identities /\ IsFiniteSet(Sends)
  /\ MaxFailures \in Nat \ {0} /\ MaxBadWrites \in Nat /\ MaxKills \in Nat

VARIABLES
  state, disk,    \* the proxy's copy and the file
  sends,          \* the locals of each sendPush() under way
  sub, madeFor,   \* the subscription the browser holds, and its identity
  served,         \* the push service still serves it
  page,           \* the settings screen, and the toggle it is busy with
  worker,         \* the service worker's pushsubscriptionchange
  wire,           \* requests to the proxy
  \* what happened
  truth,          \* consecutive refusals of an endpoint, as they were answered
  older,          \* <<e, i, j>>: sends i and j hold answers of e that disagree, i's the older
  amiss,          \* rows that count an answer out of turn, or will: until a success no
                  \* other send gainsays
  unsaved,        \* a kill lost identities the file did not have
  missed,         \* the registration of `sub` was "lost" on its way, or "revoked"
  toggled,        \* "off" once a toggle to off has come through, and the browser
                  \* was not re-subscribing meanwhile ("crossed")
  badWrites, kills

proxy == <<state, disk, sends>>
held == <<sub, madeFor, served>>
phone == <<held, page, worker>>
health == <<truth, older, amiss>>
bounds == <<badWrites, kills>>
vars == <<proxy, phone, wire, health, unsaved, missed, toggled, bounds>>

-----------------------------------------------------------------------------
(* store.ts *)

NewRow == [failures |-> 0, lastError |-> FALSE]
Registered(s) == DOMAIN s.rows

\* Mutated: a device that comes again is entered again.
SaveSubscriptionAnew(s, e) ==
  [s EXCEPT !.rows = [d \in Registered(s) \cup {e} |-> IF d = e THEN NewRow ELSE s.rows[d]]]

\* A known endpoint is refreshed: what its row counts stays.
SaveSubscription(s, e) ==
  [s EXCEPT !.rows = [d \in Registered(s) \cup {e} |->
                        IF d \in Registered(s) THEN s.rows[d] ELSE NewRow]]

RemoveSubscription(s, e) == [s EXCEPT !.rows = Restrict(s.rows, Registered(s) \ {e})]

MarkSent(s, delivered) ==
  [s EXCEPT !.rows = [d \in Registered(s) |-> IF d \in delivered THEN NewRow ELSE s.rows[d]]]

OneMore(n) == IF n < MaxFailures THEN n + 1 ELSE n

MarkFailed(s, failed) ==
  [s EXCEPT !.rows = [d \in Registered(s) |->
     IF d \in failed THEN [failures |-> OneMore(s.rows[d].failures), lastError |-> TRUE]
     ELSE s.rows[d]]]

\* An identity is made once, for a file that has none.
Generated(file, k) == IF file.vapid = None THEN [file EXCEPT !.vapid = k] ELSE file

\* Each state of `stages` is written to a temporary file that replaces the
\* file, or the write fails and the file stays as it was.  (A failure after the
\* last kill would show nothing.)
PersistStore(stages) ==
  \/ /\ disk' = Last(stages)
     /\ UNCHANGED badWrites
  \/ /\ badWrites < MaxBadWrites /\ kills < MaxKills /\ badWrites' = badWrites + 1
     /\ disk' \in {disk} \cup ToSet(Front(stages))

Commit(stages) ==
  IF stages = <<>> THEN UNCHANGED <<state, disk, badWrites>>
  ELSE state' = Last(stages) /\ PersistStore(stages)

-----------------------------------------------------------------------------
Quiet == [open |-> {}, delivered |-> {}, failed |-> {}]
HeldOf(send) == send.delivered \cup send.failed
AwaitedOf(send) == send.open \cup HeldOf(send)
Held == UNION {HeldOf(sends[i]) : i \in Sends}
SendingTo == UNION {AwaitedOf(sends[i]) : i \in Sends}

Closed == [open |-> FALSE, at |-> "idle", shown |-> "off"]
Asleep == [at |-> "idle", old |-> None]

Init ==
  /\ \E k \in Identities : state = Generated([vapid |-> None, rows |-> <<>>], k)
  /\ disk \in {state, [state EXCEPT !.vapid = None]}
  /\ sends = [i \in Sends |-> Quiet]
  /\ sub = None /\ madeFor = None /\ served = FALSE
  /\ page = Closed /\ worker = Asleep
  /\ wire = {}
  /\ truth = [e \in Endpoints |-> 0]
  /\ older = {} /\ amiss = {}
  /\ missed = "no" /\ unsaved = FALSE
  /\ toggled = "off"
  /\ badWrites = (IF disk = state THEN 0 ELSE 1) /\ kills = 0

\* Only what became of the subscription at hand is remembered.
Misses(e, why) == missed' = IF sub' = None THEN "no" ELSE IF e = sub' THEN why ELSE missed

-----------------------------------------------------------------------------
(* The proxy. *)

\* The rows are taken at the call, and every send is started before an answer.
SendPush(i) ==
  /\ sends[i] = Quiet
  /\ Registered(state) # {}
  /\ sends' = [sends EXCEPT ![i].open = Registered(state)]
  /\ UNCHANGED <<state, disk, phone, wire, health, unsaved, missed, toggled, bounds>>

\* Gone: 404 or 410.  Refused: everything else, a network that fails among it.
Outcomes(e) ==
  IF e # sub \/ ~served THEN {"gone", "refused"}
  ELSE IF madeFor # state.vapid THEN {"refused"}
  ELSE {"accepted", "refused"}

\* Mutated: any refusal drops the device.
DroppedOnRefusal(s, e, how) == IF how = "accepted" THEN s ELSE RemoveSubscription(s, e)

Dropped(s, e, how) == IF how = "gone" THEN RemoveSubscription(s, e) ELSE s

Tallied(send, e, how) ==
  [open |-> send.open \ {e},
   delivered |-> IF how = "accepted" THEN send.delivered \cup {e} ELSE send.delivered,
   failed |-> IF how = "refused" THEN send.failed \cup {e} ELSE send.failed]

\* Both marks follow the last answer, successes first.
Marks(s, send) ==
  LET sent == MarkSent(s, send.delivered)
  IN  (IF send.delivered = {} THEN <<>> ELSE <<sent>>)
      \o (IF send.failed = {} THEN <<>> ELSE <<MarkFailed(sent, send.failed)>>)

Disagree(a, b, e) ==
  \/ e \in a.delivered /\ e \in b.failed
  \/ e \in a.failed /\ e \in b.delivered

Older(send, i, e) == {<<e, j, i>> : j \in {k \in Sends \ {i} : Disagree(send, sends[k], e)}}

\* A row is amiss once it is marked while an answer that came before, and says
\* otherwise, has yet to be written.
Judged(i, e, send, last, rest) ==
  LET order == older \cup Older(send, i, e)
      overtaken == {d \in Registered(rest) : \E j \in Sends : <<d, j, i>> \in order}
      settled == {d \in send.delivered : truth'[d] = 0 /\ \A j \in Sends \ {i} : d \notin sends[j].failed}
      known == {t \in order : t[1] \in Registered(rest)}
  IN  IF last
      THEN /\ older' = {t \in known : i \notin {t[2], t[3]}}
           /\ amiss' = ((Registered(rest) \cap amiss) \cup overtaken) \ settled
      ELSE older' = known /\ amiss' = Registered(rest) \cap amiss

Answered(i, e) ==
  /\ e \in sends[i].open
  /\ \E how \in Outcomes(e) :
       LET send == Tallied(sends[i], e, how)
           last == send.open = {}
           rest == Dropped(state, e, how)
       IN  /\ Commit((IF rest = state THEN <<>> ELSE <<rest>>)
                     \o (IF last THEN Marks(rest, send) ELSE <<>>))
           /\ sends' = [sends EXCEPT ![i] = IF last THEN Quiet ELSE send]
           /\ truth' = [truth EXCEPT ![e] = IF how = "refused" /\ e \in Registered(rest)
                                             THEN OneMore(@) ELSE 0]
           /\ Judged(i, e, send, last, rest)
  /\ UNCHANGED <<phone, wire, unsaved, missed, toggled, kills>>

\* Without its row a device counts nothing.
NothingCounted(e) ==
  /\ truth' = [truth EXCEPT ![e] = 0]
  /\ older' = {t \in older : t[1] # e}
  /\ amiss' = amiss \ {e}

\* Another device asks for it, by its id.
RemoveDevice(e) ==
  /\ e \in Registered(state)
  /\ Commit(<<RemoveSubscription(state, e)>>)
  /\ NothingCounted(e)
  /\ UNCHANGED <<sends, phone, wire, unsaved, toggled, kills>>
  /\ Misses(e, "revoked")

\* The process is killed and started again.  Requests on their way are answered
\* by the new one, or lost.
Kill ==
  /\ kills < MaxKills /\ kills' = kills + 1
  /\ \E k \in Identities :
       /\ state' = Generated(disk, k)
       /\ IF state' = disk THEN UNCHANGED <<disk, badWrites>> ELSE PersistStore(<<state'>>)
  /\ sends' = [i \in Sends |-> Quiet]
  /\ truth' = [e \in Endpoints |-> IF e \in Registered(disk) THEN disk.rows[e].failures ELSE 0]
  /\ older' = {} /\ amiss' = {}
  /\ missed' = IF sub \in Registered(state) \ Registered(disk) THEN "revoked" ELSE missed
  /\ unsaved' = (unsaved \/ disk.vapid = None)
  /\ UNCHANGED <<phone, wire, toggled>>

-----------------------------------------------------------------------------
(* The push service and the browser. *)

\* The service drops an endpoint; the browser may not know for long.
Expires ==
  /\ served /\ served' = FALSE
  /\ UNCHANGED <<proxy, sub, madeFor, page, worker, wire, health, unsaved, missed, toggled, bounds>>

NoSubscription == sub' = None /\ madeFor' = None /\ served' = FALSE

\* The browser gives a subscription up and wakes the worker.
Rotates ==
  /\ sub # None /\ worker = Asleep
  /\ worker' = [at |-> "subscribe", old |-> sub]
  /\ NoSubscription
  /\ toggled' = IF page.at = "dropping" THEN "crossed" ELSE toggled
  /\ missed' = "no"
  /\ UNCHANGED <<proxy, page, wire, health, unsaved, bounds>>

Fresh(e) ==
  /\ e # sub /\ e # worker.old
  /\ e \notin Registered(state) \cup Registered(disk) \cup SendingTo
  /\ \A r \in wire : r.end # e

\* pushManager.subscribe() for the identity the configuration named: a new
\* subscription, or the one there is.
Subscribe(e) ==
  IF sub = None
  THEN Fresh(e) /\ sub' = e /\ madeFor' = state.vapid /\ served' = TRUE /\ missed' = "no"
  ELSE e = sub /\ UNCHANGED <<held, missed>>

Request(op, e, who) == [op |-> op, end |-> e, who |-> who]

-----------------------------------------------------------------------------
(* The settings screen. *)

\* pushStatus() asks the browser, which knows of its subscription only.
OpenSettings ==
  /\ ~page.open
  /\ page' = [Closed EXCEPT !.open = TRUE, !.shown = IF sub = None THEN "off" ELSE "on"]
  /\ UNCHANGED <<proxy, held, worker, wire, health, unsaved, missed, toggled, bounds>>

\* What it was doing ends there; its request may yet arrive.
CloseApp ==
  /\ page.open /\ page' = Closed
  /\ \A r \in wire : r.who # "nobody"   \* a bound: one request outlives its page at a time
  /\ wire' = {IF r.who = "page" THEN [r EXCEPT !.who = "nobody"] ELSE r : r \in wire}
  /\ UNCHANGED <<proxy, held, worker, health, unsaved, missed, toggled, bounds>>

ToggleOn ==
  /\ page.open /\ page.at = "idle" /\ page.shown = "off"
  /\ page' = [page EXCEPT !.at = "subscribe"]
  /\ toggled' = "on"
  /\ UNCHANGED <<proxy, held, worker, wire, health, unsaved, missed, bounds>>

\* An existing subscription is registered again, whatever its identity.
EnableSubscribes ==
  /\ page.at = "subscribe"
  /\ \E e \in Endpoints :
       /\ Subscribe(e)
       /\ wire' = wire \cup {Request("save", e, "page")}
  /\ page' = [page EXCEPT !.at = "saving"]
  /\ UNCHANGED <<proxy, worker, health, unsaved, toggled, bounds>>

\* No configuration hides the section; a refused permission leaves it off.
EnableEnds ==
  /\ page.at = "subscribe"
  /\ page' \in {Closed, [page EXCEPT !.at = "idle"]}
  /\ UNCHANGED <<proxy, held, worker, wire, health, unsaved, missed, toggled, bounds>>

\* Nothing to do without a subscription.
ToggleOff ==
  /\ page.open /\ page.at = "idle" /\ page.shown = "on"
  /\ IF sub = None
     THEN /\ page' = [page EXCEPT !.shown = "off"]
          /\ toggled' = IF worker = Asleep THEN "off" ELSE "on"
          /\ UNCHANGED wire
     ELSE /\ page' = [page EXCEPT !.at = "dropping"]
          /\ toggled' = IF worker = Asleep THEN "on" ELSE "crossed"
          /\ wire' = wire \cup {Request("drop", sub, "page")}
  /\ UNCHANGED <<proxy, held, worker, health, unsaved, missed, bounds>>

-----------------------------------------------------------------------------
(* The service worker. *)

\* A subscription of another identity makes the browser refuse.
WorkerSubscribes ==
  /\ worker.at = "subscribe"
  /\ sub # None => madeFor = state.vapid
  /\ \E e \in Endpoints :
       /\ Subscribe(e)
       /\ wire' = wire \cup {Request("save", e, "worker")}
  /\ worker' = [worker EXCEPT !.at = "saving"]
  /\ UNCHANGED <<proxy, page, health, unsaved, toggled, bounds>>

\* No configuration, or the browser refuses.
WorkerGivesUp ==
  /\ worker.at = "subscribe" /\ worker' = Asleep
  /\ UNCHANGED <<proxy, held, page, wire, health, unsaved, missed, toggled, bounds>>

-----------------------------------------------------------------------------
(* Requests: answered by the proxy, answered by something in front of it, or  *)
(* not answered at all; an answer may be lost as well.                        *)

\* Mutated: only the proxy is told.
PageForgotten(e) ==
  /\ page' = [page EXCEPT !.at = "idle", !.shown = "off"]
  /\ toggled' = IF toggled = "crossed" THEN "on" ELSE "off"
  /\ UNCHANGED held

\* The page's own subscription is given up, or the browser fails to.
PageUnsubscribes(e) ==
  \/ /\ page' = [page EXCEPT !.at = "idle", !.shown = "off"]
     /\ IF sub = e THEN NoSubscription ELSE UNCHANGED held
     /\ toggled' = IF toggled = "crossed" THEN "on" ELSE "off"
  \/ /\ page' = [page EXCEPT !.at = "idle"]
     /\ toggled' = "on"
     /\ UNCHANGED held

PageGoesOn(r, how, left) ==
  /\ r.who = "page" /\ wire' = left
  /\ IF r.op = "drop" THEN PageUnsubscribes(r.end)
     ELSE /\ page' = [page EXCEPT !.at = "idle", !.shown = IF how = "ok" THEN "on" ELSE @]
          /\ UNCHANGED <<held, toggled>>
  /\ UNCHANGED worker

\* Only an exception ends it: it does not look at what it was answered.
WorkerGoesOn(r, how, left) ==
  /\ r.who = "worker"
  /\ IF r.op = "save" /\ how # "thrown" /\ worker.old # r.end
     THEN /\ worker' = [worker EXCEPT !.at = "retiring"]
          /\ wire' = left \cup {Request("drop", worker.old, "worker")}
     ELSE worker' = Asleep /\ wire' = left
  /\ UNCHANGED <<page, held, toggled>>

GoesOn(r, how) ==
  LET left == wire \ {r}
  IN  \/ PageGoesOn(r, how, left)
      \/ WorkerGoesOn(r, how, left)
      \/ r.who = "nobody" /\ wire' = left /\ UNCHANGED <<phone, toggled>>

\* POST /push/subscribe
Subscribed(r) ==
  LET new == r.end \notin Registered(state)
      blamed == \E i \in Sends : r.end \in sends[i].failed
  IN  /\ r.op = "save"
      /\ Commit(<<SaveSubscription(state, r.end)>>)
      /\ amiss' = IF new /\ blamed THEN amiss \cup {r.end} ELSE amiss
      /\ Misses(r.end, "no")
      /\ UNCHANGED <<truth, older>>

\* POST /push/unsubscribe
Unsubscribed(r) ==
  /\ r.op = "drop"
  /\ Commit(IF r.end \in Registered(state) THEN <<RemoveSubscription(state, r.end)>> ELSE <<>>)
  /\ Misses(r.end, "revoked")
  /\ NothingCounted(r.end)

Served(r) ==
  /\ \E how \in {"ok", "thrown"} : GoesOn(r, how)
  /\ Subscribed(r) \/ Unsubscribed(r)
  /\ UNCHANGED <<sends, unsaved, kills>>

NotServed(r) ==
  /\ \E how \in {"error", "thrown"} : GoesOn(r, how)
  /\ Misses(IF r.op = "save" /\ r.end \notin Registered(state) THEN r.end ELSE None, "lost")
  /\ UNCHANGED <<proxy, health, unsaved, bounds>>

-----------------------------------------------------------------------------
ProxyNext ==
  \/ \E i \in Sends : SendPush(i)
  \/ \E i \in Sends, e \in Endpoints : Answered(i, e)
  \/ \E e \in Endpoints : RemoveDevice(e)
  \/ Kill

PhoneNext ==
  \/ OpenSettings \/ CloseApp \/ ToggleOn \/ EnableSubscribes \/ EnableEnds \/ ToggleOff
  \/ WorkerSubscribes \/ WorkerGivesUp

Next ==
  \/ ProxyNext \/ PhoneNext \/ Expires \/ Rotates
  \/ \E r \in wire : Served(r) \/ NotServed(r)

Spec == Init /\ [][Next]_vars

-----------------------------------------------------------------------------
(* Properties. *)

DeviceRow == [failures : 0..MaxFailures, lastError : BOOLEAN]
Store == [vapid : Identities \cup {None}, rows : UNION {[D -> DeviceRow] : D \in SUBSET Endpoints}]

TypeOK ==
  /\ state \in Store /\ disk \in Store /\ state.vapid # None
  /\ sends \in [Sends -> [open : SUBSET Endpoints, delivered : SUBSET Endpoints, failed : SUBSET Endpoints]]
  /\ sub \in Endpoints \cup {None} /\ madeFor \in Identities \cup {None} /\ served \in BOOLEAN
  /\ page \in [open : BOOLEAN, at : {"idle", "subscribe", "saving", "dropping"}, shown : {"on", "off"}]
  /\ worker \in [at : {"subscribe", "saving", "retiring"}, old : Endpoints] \cup {Asleep}
  /\ wire \subseteq [op : {"save", "drop"}, end : Endpoints, who : {"page", "worker", "nobody"}]
  /\ truth \in [Endpoints -> 0..MaxFailures] /\ older \subseteq Endpoints \X Sends \X Sends /\ amiss \subseteq Endpoints
  /\ unsaved \in BOOLEAN
  /\ missed \in {"no", "lost", "revoked"} /\ toggled \in {"on", "off", "crossed"}
  /\ badWrites \in 0..(MaxBadWrites + 1) /\ kills \in 0..MaxKills

\* Asked of the settings screen at rest.
AtRest == page.open /\ page.at = "idle" /\ worker = Asleep /\ wire = {}
CalledOn == AtRest /\ page.shown = "on" /\ served

\* ... unless the registration was lost on its way: no 410 of another endpoint, no
\* refusal, no send under way, no answer out of order and no kill after a write
\* that succeeded makes the proxy forget a device that is there.
\* Nor does a restart generate another identity than the one the phone subscribed
\* under, which "must not change", but after a write that failed.
KnownUnlessMissed ==
  CalledOn /\ missed = "no" =>
    /\ sub \in Registered(state)
    /\ unsaved \/ madeFor = state.vapid

\* "Consecutive failures since the last success", and the error "cleared by the
\* next delivery that succeeds": once the answers of a device are written, its row
\* says what they were, in the order in which they came, however many sends
\* overlapped and whatever rows came and went under them; unless, of two that
\* disagree, the older was written last, or the row is new and was charged with a
\* refusal of the one before it.
HealthIsTrueUnlessCrossed ==
  \A e \in Registered(state) \ (amiss \cup Held) :
    state.rows[e] = [failures |-> truth[e], lastError |-> truth[e] > 0]

\* Once a toggle to off has come through, the browser holds no subscription and
\* no banner can arrive, whichever of its requests were lost, unless the worker
\* was re-subscribing at the time.
OffIsOff == toggled = "off" => sub = None

=============================================================================
