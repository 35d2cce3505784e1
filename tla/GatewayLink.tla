----------------------------- MODULE GatewayLink -----------------------------
(***************************************************************************)
(* The proxy's own socket to the gateway: the listener of                  *)
(* server/src/push/events.ts with its reconnect and heartbeat, the calls   *)
(* made over it (push/rpc.ts), the token it connects with (config.ts), and *)
(* the backend's rows in the feed (BackendWatch).                          *)
(*                                                                         *)
(* The gateway's token is drawn afresh each time it starts: generation n   *)
(* accepts token n.  0 is no token.                                        *)
(***************************************************************************)
EXTENDS BackendWatch, FiniteSets

CONSTANTS
  MaxGeneration,   \* bound on starts of the gateway
  MaxCalls,        \* bound on calls made over one connection
  MaxRestarts,     \* bound on restarts of the proxy
  Configured       \* HERMES_TOKEN is set, and the gateway adopts it

ASSUME LinkAssumption ==
  /\ MaxGeneration \in Nat \ {0} /\ MaxCalls \in Nat /\ MaxRestarts \in Nat
  /\ Configured \in BOOLEAN

VARIABLES
  \* the gateway
  up, generation,
  working,     \* sessions whose turn is under way
  \* config.ts
  token,       \* sessionToken
  request,     \* the token of an HTTP request under way, -1 for none
  \* events.ts
  phase,       \* before startPushListener, after it, after stopPushListener
  link,        \* connect() and the socket: where it is, the token it carries, whether it is dead
  reconnect,   \* reconnectTimer
  ping, pong,  \* the heartbeat timers
  \* rpc.ts
  bound, calls, wire,
  \* sessions.ts and updates.ts
  inFlight, watch, row,
  \* what happened
  gone,        \* ticks since the link was last open
  restarts

gateway == <<up, generation, working>>
config == <<token, request>>
heartbeat == <<ping, pong>>
rpc == <<bound, calls, wire>>
history == <<gone, restarts>>
vars == <<gateway, config, phase, link, reconnect, heartbeat, rpc, inFlight, watch, row, history>>

NoLink == [at |-> "none", token |-> 0, dead |-> FALSE]
Tokens == 0..MaxGeneration
Links == [at : {"none", "token", "connecting", "open", "closing"}, token : Tokens,
          dead : BOOLEAN]

Accepts(t) == up /\ (Configured \/ t = generation)

Init ==
  /\ up \in BOOLEAN /\ generation = 1 /\ working = {}
  /\ token = (IF Configured THEN 1 ELSE 0) /\ request = -1
  /\ phase = "new" /\ link = NoLink /\ reconnect = FALSE
  /\ ping = FALSE /\ pong = FALSE
  /\ bound = FALSE /\ calls = {} /\ wire = {}
  /\ inFlight = {} /\ watch = Quiet /\ row = NoRow
  /\ gone = 0 /\ restarts = 0

-----------------------------------------------------------------------------
(* The gateway. *)

proxy == <<config, phase, reconnect, heartbeat, bound, calls, inFlight, watch, row>>

\* With every socket it holds.
GatewayEnds ==
  /\ up
  /\ up' = FALSE
  /\ working' = {}
  /\ link' = IF link.at = "open" THEN [link EXCEPT !.at = "closing"] ELSE link
  /\ wire' = {}
  /\ UNCHANGED <<generation, proxy, history>>

GatewayStarts ==
  /\ ~up /\ generation < MaxGeneration
  /\ up' = TRUE /\ generation' = generation + 1
  /\ UNCHANGED <<working, proxy, link, wire, history>>

TurnStarts(s) ==
  /\ up /\ s \notin working
  /\ working' = working \cup {s}
  /\ UNCHANGED <<up, generation, proxy, link, wire, history>>

TurnEnds(s) ==
  /\ s \in working
  /\ working' = working \ {s}
  /\ UNCHANGED <<up, generation, proxy, link, wire, history>>

\* The connection dies and neither end has noticed.
LinkDies ==
  /\ link.at = "open" /\ ~link.dead
  /\ link' = [link EXCEPT !.dead = TRUE]
  /\ wire' = {}
  /\ UNCHANGED <<gateway, proxy, history>>

-----------------------------------------------------------------------------
(* The token. *)

listener == <<phase, link, reconnect, heartbeat>>
watching == <<inFlight, watch, row>>

\* Any REST read of a sweep or of the phone, with the token of this moment.
RequestSent ==
  /\ request = -1 /\ token # 0
  /\ request' = token
  /\ UNCHANGED <<gateway, token, listener, rpc, watching, history>>

\* Mutated: a refused token is kept.
DropNothing(t) == t

\* clearToken: an explicitly configured one is never dropped.
Drop(t) == IF Configured THEN t ELSE 0

\* Answered; 401 drops the token, whichever the proxy holds by now.
RequestAnswered ==
  /\ request # -1
  /\ request' = -1
  /\ token' = IF up /\ ~Accepts(request) THEN Drop(token) ELSE token
  /\ UNCHANGED <<gateway, listener, rpc, watching, history>>

-----------------------------------------------------------------------------
(* The listener. *)

\* connect(): with the token at hand, or after resolveToken.
Connect ==
  link' = IF token = 0 THEN [NoLink EXCEPT !.at = "token"]
          ELSE [NoLink EXCEPT !.at = "connecting", !.token = token]

StartPushListener ==
  /\ phase = "new"
  /\ phase' = "started"
  /\ Connect
  /\ UNCHANGED <<gateway, config, reconnect, heartbeat, rpc, watching, history>>

\* The dashboard's page was read.
TokenScraped ==
  /\ link.at = "token" /\ up
  /\ token' = generation
  /\ link' = IF phase = "stopped" THEN NoLink
             ELSE [link EXCEPT !.at = "connecting", !.token = generation]
  /\ UNCHANGED <<gateway, request, phase, reconnect, heartbeat, rpc, watching, history>>

\* No page, or none with a token in it: connect with what there is.
TokenNotFound ==
  /\ link.at = "token"
  /\ link' = IF phase = "stopped" THEN NoLink
             ELSE [link EXCEPT !.at = "connecting", !.token = token]
  /\ UNCHANGED <<gateway, config, phase, reconnect, heartbeat, rpc, watching, history>>

\* unbindRpcSocket fails what is waiting.
Unbind == bound' = FALSE /\ wire' = {} /\ calls' = {}

SocketOpens ==
  /\ link.at = "connecting" /\ Accepts(link.token)
  /\ link' = [link EXCEPT !.at = "open"]
  /\ bound' = TRUE
  /\ watch' = CameBack(watch)
  /\ row' = RowOnReturn(watch, row)
  /\ ping' = TRUE /\ pong' = FALSE
  /\ gone' = 0
  /\ UNCHANGED <<gateway, config, phase, reconnect, calls, wire, inFlight, restarts>>

\* The close handler.
Closed ==
  /\ link' = NoLink
  /\ ping' = FALSE /\ pong' = FALSE
  /\ Unbind
  /\ watch' = WentDown(watch, inFlight)
  /\ reconnect' = TRUE
  /\ UNCHANGED <<gateway, config, phase, inFlight, row, history>>

\* Nobody listens, or the upgrade is rejected with 4403.
SocketRefused ==
  /\ link.at = "connecting" /\ ~Accepts(link.token)
  /\ Closed

SocketCloses ==
  /\ link.at = "closing"
  /\ Closed

ReconnectFires ==
  /\ reconnect
  /\ reconnect' = FALSE
  /\ IF link.at \in {"open", "connecting"} THEN UNCHANGED link ELSE Connect
  /\ UNCHANGED <<gateway, config, phase, heartbeat, rpc, watching, history>>

PingElapses ==
  /\ ping /\ link.at = "open"
  /\ pong' = TRUE
  /\ UNCHANGED <<gateway, config, phase, link, reconnect, ping, rpc, watching, history>>

PongArrives ==
  /\ link.at = "open" /\ ~link.dead /\ pong
  /\ pong' = FALSE
  /\ UNCHANGED <<gateway, config, phase, link, reconnect, ping, rpc, watching, history>>

\* terminate: the close event follows.
PongGraceElapses ==
  /\ pong
  /\ pong' = FALSE
  /\ link' = IF link.at = "open" THEN [link EXCEPT !.at = "closing"] ELSE link
  /\ wire' = {}
  /\ UNCHANGED <<gateway, config, phase, reconnect, ping, bound, calls, watching, history>>

\* resetBackendWatch, before the close handler can run.
StopWatching == watch' = Quiet

\* The close event of the socket given up here finds stopped set.
StopPushListener ==
  /\ phase = "started"
  /\ phase' = "stopped"
  /\ StopWatching
  /\ reconnect' = FALSE /\ ping' = FALSE /\ pong' = FALSE
  /\ Unbind
  /\ link' = IF link.at = "token" THEN link ELSE NoLink
  /\ UNCHANGED <<gateway, config, inFlight, row, history>>

-----------------------------------------------------------------------------
(* Calls over the socket. *)

\* callGateway: null at once when nothing is bound.
CallGateway ==
  /\ bound
  /\ \E id \in (1..MaxCalls) \ (calls \cup wire) :
       /\ calls' = calls \cup {id}
       /\ wire' = IF link.at = "open" /\ ~link.dead THEN wire \cup {id} ELSE wire
  /\ UNCHANGED <<gateway, config, listener, bound, watching, history>>

CallTimesOut ==
  /\ \E id \in calls : calls' = calls \ {id}
  /\ UNCHANGED <<gateway, config, listener, bound, wire, watching, history>>

\* resolveRpcFrame: an answer nobody waits for any more is passed on as an event.
\* An answer in time is what a sweep's pass takes its snapshot from.
AnswerArrives ==
  /\ \E id \in wire :
       /\ wire' = wire \ {id}
       /\ calls' = calls \ {id}
       /\ inFlight' = IF id \in calls THEN working ELSE inFlight
  /\ UNCHANGED <<gateway, config, listener, bound, watch, row, history>>

-----------------------------------------------------------------------------
(* Time, and restarts of the proxy. *)

Tick ==
  /\ gone < Grace \/ watch.since \in 0..(Grace - 1)
  /\ watch' = Aged(watch)
  /\ gone' = IF link.at # "open" /\ gone < Grace THEN gone + 1 ELSE gone
  /\ watch' # watch \/ gone' # gone
  /\ UNCHANGED <<gateway, config, listener, rpc, inFlight, row, restarts>>

OutageTimerFires ==
  /\ GraceOver(watch)
  /\ watch' = Announced(watch)
  /\ row' = DownRow(watch)
  /\ UNCHANGED <<gateway, config, listener, rpc, inFlight, history>>

\* The process ends, orderly or not, and another one starts.
Restart ==
  /\ restarts < MaxRestarts
  /\ restarts' = restarts + 1
  /\ token' = (IF Configured THEN 1 ELSE 0) /\ request' = -1
  /\ phase' = "new" /\ link' = NoLink /\ reconnect' = FALSE
  /\ ping' = FALSE /\ pong' = FALSE
  /\ Unbind
  /\ inFlight' = {} /\ watch' = Quiet
  /\ UNCHANGED <<gateway, row, gone>>

GatewayStep ==
  \/ GatewayEnds \/ GatewayStarts \/ LinkDies
  \/ \E s \in Conversations : TurnStarts(s) \/ TurnEnds(s)

SocketStep ==
  \/ TokenScraped \/ TokenNotFound
  \/ SocketOpens \/ SocketRefused \/ SocketCloses
  \/ ReconnectFires \/ PingElapses \/ PongArrives \/ PongGraceElapses

CallStep == CallGateway \/ CallTimesOut \/ AnswerArrives

Next ==
  \/ GatewayStep
  \/ RequestSent \/ RequestAnswered
  \/ StartPushListener \/ StopPushListener
  \/ SocketStep \/ CallStep
  \/ Tick \/ OutageTimerFires
  \/ Restart

Spec == Init /\ [][Next]_vars

\* Timers fire, attempts to connect are answered one way or the other, requests
\* go on being made and answered, and the page is not unreadable every time.
FairSpec ==
  /\ Spec
  /\ WF_vars(StartPushListener)
  /\ WF_vars(RequestSent) /\ WF_vars(RequestAnswered)
  /\ SF_vars(TokenScraped) /\ WF_vars(TokenNotFound)
  /\ WF_vars(SocketOpens) /\ WF_vars(SocketRefused) /\ WF_vars(SocketCloses)
  /\ WF_vars(ReconnectFires) /\ WF_vars(PingElapses) /\ WF_vars(PongGraceElapses)
  /\ WF_vars(Tick) /\ WF_vars(OutageTimerFires)

-----------------------------------------------------------------------------

TypeOK ==
  /\ up \in BOOLEAN /\ generation \in 1..MaxGeneration /\ working \subseteq Conversations
  /\ token \in Tokens /\ request \in Tokens \cup {-1}
  /\ phase \in {"new", "started", "stopped"} /\ link \in Links
  /\ reconnect \in BOOLEAN /\ ping \in BOOLEAN /\ pong \in BOOLEAN
  /\ bound \in BOOLEAN /\ calls \subseteq 1..MaxCalls /\ wire \subseteq 1..MaxCalls
  /\ inFlight \subseteq Conversations /\ watch \in Watches /\ row \in Rows
  /\ gone \in 0..Grace /\ restarts \in 0..MaxRestarts

\* The listener never gives up: from startPushListener to stopPushListener there
\* is a socket, an attempt at one, or a timer that will make one.  One attempt
\* at a time: a timer is never set while a socket is there.
LinkIsTended == phase = "started" => (reconnect <=> link.at = "none")

\* unbindRpcSocket's doc: no call goes on waiting once the socket it was made on
\* has closed, and none can be made on one that is not there.
CallsDieWithTheSocket ==
  bound \/ calls # {} => phase = "started" /\ link.at \in {"open", "closing"}

\* "Past this the outage has lasted longer than any restart": an outage is
\* announced only when the link has been away for the whole grace time.
AnnouncedAfterGrace == [][row'.kind = "down" /\ row' # row => gone = Grace]_vars

\* backendCameBack's doc: recovery is told exactly when an outage was.  (Until a
\* restart of the proxy, which forgets that an outage was announced.)
RecoveryAnswersOutage ==
  [][restarts = 0 =>
     /\ row'.kind = "up" /\ row' # row => row.kind = "down"
     /\ row.kind = "down" /\ row' # row => row'.kind = "up"]_vars

\* While the link is up, and until a restart of the proxy, the feed's newest word is not that it is down.
NotOfflineWhileOpen == restarts = 0 /\ link.at = "open" => row.kind # "down"

\* A gateway that stays up is reached again, whatever token it drew.
Reconnects ==
  <>[](up /\ phase = "started") => []<>(link.at = "open" /\ ~link.dead)

\* An outage that lasts is announced.
OutageIsAnnounced ==
  <>[](~up /\ phase = "started") => <>[](row.kind = "down")

=============================================================================
