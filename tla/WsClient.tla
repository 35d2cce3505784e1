------------------------------- MODULE WsClient -------------------------------
(***************************************************************************)
(* The app's one connection to the gateway: the HermesClient of            *)
(* web/src/ws/client.ts over the browser's sockets, with the probe of the  *)
(* Access session it asks for when reconnecting goes on failing.           *)
(*                                                                         *)
(* A socket here is the browser's: it may linger in CONNECTING or CLOSING, *)
(* closes when it likes, and calls back whoever is attached to it.  Delays *)
(* are left out: the backoff only decides when the reconnect timer fires.  *)
(***************************************************************************)
EXTENDS AccessSession

CONSTANTS
  Sockets,     \* bound on the sockets the browser holds at once
  NoSocket,
  Calls,       \* calls under way at once
  ProbeAfter   \* ACCESS_PROBE_AFTER

ASSUME ClientAssumption ==
  /\ NoSocket \notin Sockets
  /\ ProbeAfter \in Nat \ {0}

VARIABLES
  \* the world
  network,            \* "up" or "down"
  gate,               \* "open", or every new handshake is refused: "expired" by the
                      \* edge, "forbidden" to whoever is not on the allowlist
  misread,            \* the app was first told that by a 401 or 403 of somebody else's
  \* the browser
  readyState,         \* of each socket; "none" when there is no such socket
  attached,           \* the sockets that still have their handlers
  suspended,          \* the sockets whose handshake was cut off by a suspension
  \* HermesClient
  ws,
  state,              \* _state
  backedOff,          \* attempt > 0
  failuresSinceOpen,  \* counted up to ProbeAfter, beyond which nothing changes
  reconnectTimer,
  wedged,             \* connectingSince is more than STALE_CONNECTING_MS ago
  closedByUser,
  pendingCalls,       \* the socket each call was sent on, NoSocket if none is out
  stranded,           \* calls that were out when a socket was dropped for one the
                      \* browser then refused to make
  access

world == <<network, gate, misread>>
browserState == <<readyState, attached, suspended>>
calls == <<pendingCalls, stranded>>
clientState == <<ws, state, backedOff, failuresSinceOpen, reconnectTimer, wedged, closedByUser, calls>>
vars == <<world, browserState, clientState, access>>

Init ==
  /\ network = "up" /\ gate = "open" /\ misread = FALSE
  /\ readyState = [s \in Sockets |-> "none"]
  /\ attached = {} /\ suspended = {}
  /\ ws = NoSocket /\ state = "closed"
  /\ backedOff = FALSE /\ failuresSinceOpen = 0
  /\ reconnectTimer = FALSE /\ wedged = FALSE /\ closedByUser = FALSE
  /\ stranded = {}
  /\ pendingCalls = [c \in Calls |-> NoSocket]
  /\ access = Unknown

Phase == IF ws = NoSocket THEN "none" ELSE readyState[ws]

-----------------------------------------------------------------------------
(* The world. *)

NetworkFails ==
  /\ network = "up"
  /\ network' = "down"
  /\ UNCHANGED <<gate, misread, browserState, clientState, access>>

NetworkReturns ==
  /\ network = "down"
  /\ network' = "up"
  /\ UNCHANGED <<gate, misread, browserState, clientState, access>>

\* Only a new page, which is a new client, gets past an expired gate.
GateExpires ==
  /\ gate # "expired"
  /\ gate' = "expired"
  /\ UNCHANGED <<network, misread, browserState, clientState, access>>

\* The proxy is started again with another allowlist.
AllowlistChanges ==
  /\ gate # "expired"
  /\ gate' = IF gate = "open" THEN "forbidden" ELSE "open"
  /\ UNCHANGED <<network, misread, browserState, clientState, access>>

-----------------------------------------------------------------------------
(* Opening a socket. *)

\* Mutated: the reference is dropped and the socket left as it is.
Dropped(s) == readyState

\* close(1000) on a socket whose handlers were taken off.
Discarded(s) ==
  IF s = NoSocket THEN readyState ELSE [readyState EXCEPT ![s] = "CLOSING"]

\* The handlers that stay on when the client's socket is discarded.
Detached == attached \ {ws}

\* The timer is not armed yet: whoever gets here has just lost the socket that
\* connect() cleared it for, or could not get one.
ScheduleReconnect ==
  /\ reconnectTimer' = TRUE
  /\ state' = "reconnecting"
  /\ backedOff' = TRUE
  /\ failuresSinceOpen' = IF failuresSinceOpen < ProbeAfter THEN failuresSinceOpen + 1
                          ELSE ProbeAfter
  /\ access' = IF failuresSinceOpen' = ProbeAfter THEN ProbeAccess(access) ELSE access

\* Mutated: starting over starts the count of failures over as well.
NewSocketForgetting(left, fresh) ==
  /\ \E s \in Sockets :
       /\ readyState[s] = "none"
       /\ readyState' = [left EXCEPT ![s] = "CONNECTING"]
       /\ attached' = Detached \cup {s}
       /\ ws' = s
  /\ reconnectTimer' = FALSE
  /\ backedOff' = (backedOff /\ ~fresh)
  /\ state' = IF backedOff' THEN "reconnecting" ELSE "connecting"
  /\ failuresSinceOpen' = IF fresh THEN 0 ELSE failuresSinceOpen
  /\ UNCHANGED <<stranded, access>>

\* new WebSocket() over the sockets that are left.
NewSocket(left, fresh) ==
  /\ \E s \in Sockets :
       /\ readyState[s] = "none"
       /\ readyState' = [left EXCEPT ![s] = "CONNECTING"]
       /\ attached' = Detached \cup {s}
       /\ ws' = s
  /\ reconnectTimer' = FALSE
  /\ backedOff' = (backedOff /\ ~fresh)
  /\ state' = IF backedOff' THEN "reconnecting" ELSE "connecting"
  /\ UNCHANGED <<stranded, failuresSinceOpen, access>>

\* new WebSocket() throws, after the old socket was dropped; what was sent on
\* that one is not rejected.
NoNewSocket(left) ==
  /\ readyState' = left
  /\ attached' = Detached
  /\ ws' = NoSocket
  /\ stranded' = {c \in Calls : pendingCalls[c] # NoSocket}
  /\ ScheduleReconnect

\* What connect() does once nothing is in its way.
OpenSocket(left, fresh) ==
  /\ closedByUser' = FALSE
  /\ wedged' = FALSE
  /\ NewSocket(left, fresh) \/ NoNewSocket(left)
  /\ UNCHANGED <<suspended, pendingCalls>>

\* Mutated: a socket that is connecting always counts as progress.
InTheWayForEver(resume) == Phase \in {"OPEN", "CONNECTING"}

\* An open socket is left alone, and so is one that is connecting, unless the
\* phone has come back to one that has been at it for too long.
InTheWay(resume) ==
  \/ Phase = "OPEN"
  \/ Phase = "CONNECTING" /\ ~(resume /\ wedged)

\* connect({ resume }).
Connect(resume) ==
  /\ ~InTheWay(resume)
  /\ OpenSocket(IF Phase \in {"CONNECTING", "CLOSING"} THEN Discarded(ws) ELSE readyState, resume)
  /\ UNCHANGED world

\* The screen becomes visible, or the button under the banner is pressed.
Resumes == Connect(TRUE)

\* The app mounts, or is told another URL and mounts its effect again.
Mounts == state = "closed" /\ Connect(FALSE)

\* disconnect().
Disconnect ==
  /\ state # "closed"
  /\ readyState' = Discarded(ws)
  /\ attached' = Detached
  /\ ws' = NoSocket /\ state' = "closed"
  /\ reconnectTimer' = FALSE /\ closedByUser' = TRUE
  /\ pendingCalls' = [c \in Calls |-> NoSocket]
  /\ UNCHANGED <<world, suspended, backedOff, failuresSinceOpen, wedged, stranded, access>>

\* setUrl: whatever there is, is replaced.
SetUrl ==
  /\ state # "closed"
  /\ OpenSocket(Discarded(ws), TRUE)
  /\ UNCHANGED world

ReconnectFires ==
  /\ reconnectTimer
  /\ \/ Connect(FALSE)
     \/ /\ InTheWay(FALSE)
        /\ reconnectTimer' = FALSE
        /\ UNCHANGED <<world, browserState, access, ws, state, backedOff, failuresSinceOpen,
                       wedged, closedByUser, calls>>

-----------------------------------------------------------------------------
(* What a socket reports, to the client if it is the client's. *)

\* onopen.
Opened ==
  /\ state' = "open"
  /\ backedOff' = FALSE /\ failuresSinceOpen' = 0
  /\ access' = MarkHostReached(access)
  /\ UNCHANGED <<ws, reconnectTimer, wedged, closedByUser, calls>>

SocketOpens(s) ==
  /\ readyState[s] = "CONNECTING" /\ s \notin suspended
  /\ network = "up" /\ gate = "open"
  /\ readyState' = [readyState EXCEPT ![s] = "OPEN"]
  /\ IF s \in attached /\ s = ws THEN Opened ELSE UNCHANGED <<clientState, access>>
  /\ UNCHANGED <<world, attached, suspended>>

RejectAllPending == [c \in Calls |-> NoSocket]

\* onclose.
Closed ==
  /\ ws' = NoSocket
  /\ pendingCalls' = RejectAllPending
  /\ IF closedByUser
     THEN /\ state' = "closed"
          /\ UNCHANGED <<backedOff, failuresSinceOpen, reconnectTimer, access>>
     ELSE ScheduleReconnect
  /\ UNCHANGED <<wedged, closedByUser, stranded>>

\* A handshake is refused or fails, the peer or the network ends a connection,
\* or a closing handshake is over or given up.
SocketCloses(s) ==
  /\ readyState[s] \in {"CONNECTING", "OPEN", "CLOSING"} /\ s \notin suspended
  /\ readyState' = [readyState EXCEPT ![s] = "none"]
  /\ attached' = attached \ {s}
  /\ IF s \in attached /\ s = ws THEN Closed ELSE UNCHANGED <<clientState, access>>
  /\ UNCHANGED <<world, suspended>>

\* The peer asked to close, and the browser is waiting for the end.
SocketStartsClosing(s) ==
  /\ readyState[s] = "OPEN"
  /\ readyState' = [readyState EXCEPT ![s] = "CLOSING"]
  /\ UNCHANGED <<world, attached, suspended, clientState, access>>

\* The phone is put away in the middle of a handshake, which nothing ends but
\* close().
Suspended(s) ==
  /\ readyState[s] = "CONNECTING"
  /\ suspended' = suspended \cup {s}
  /\ UNCHANGED <<world, readyState, attached, clientState, access>>

\* A discarded socket is let go, suspended or not.
LetGo(s) ==
  /\ readyState[s] = "CLOSING" /\ s \in suspended
  /\ readyState' = [readyState EXCEPT ![s] = "none"]
  /\ suspended' = suspended \ {s}
  /\ UNCHANGED <<world, attached, clientState, access>>

\* STALE_CONNECTING_MS have passed.
HandshakeAges ==
  /\ Phase = "CONNECTING" /\ ~wedged
  /\ wedged' = TRUE
  /\ UNCHANGED <<world, browserState, access, ws, state, backedOff, failuresSinceOpen,
                 reconnectTimer, closedByUser, calls>>

-----------------------------------------------------------------------------
(* Calls. *)

Settle(c, to) ==
  /\ pendingCalls' = [pendingCalls EXCEPT ![c] = to]
  /\ stranded' = stranded \ {c}
  /\ UNCHANGED <<world, browserState, access, ws, state, backedOff, failuresSinceOpen,
                 reconnectTimer, wedged, closedByUser>>

\* call(): refused at once unless the socket is open.
CallSent(c) == pendingCalls[c] = NoSocket /\ Phase = "OPEN" /\ Settle(c, ws)

\* A response frame, which only the client's own socket can deliver.
CallAnswered(c) ==
  /\ pendingCalls[c] # NoSocket /\ pendingCalls[c] = ws /\ ws \in attached /\ Phase \in {"OPEN", "CLOSING"}
  /\ Settle(c, NoSocket)

CallTimesOut(c) == pendingCalls[c] # NoSocket /\ Settle(c, NoSocket)

-----------------------------------------------------------------------------
(* Probes, of the reconnect loop's and of any REST call that fails. *)

RestCallFails ==
  /\ network = "down" \/ gate = "expired"
  /\ access' = ProbeAccess(access)
  /\ UNCHANGED <<world, browserState, clientState>>

\* A 401 or 403, which the app takes for the gate's word whoever wrote it: the
\* proxy, to a session that expired (401) or to a person who is not allowed (403);
\* or, past an open gate, Hermes, whose refusals the proxy hands on: of a token it
\* has replaced, of a request the proxy found no token for, or of what was asked.
RestCallRefused ==
  /\ network = "up"
  /\ access' = MarkExpired(access)
  /\ misread' = (misread \/ (gate # "expired" /\ ~access.expired))
  /\ UNCHANGED <<network, gate, browserState, clientState>>

ProbeEnds ==
  /\ access.probing
  /\ access' = IF network = "up" THEN ProbeAnswered(access, gate = "expired") ELSE ProbeThrew(access)
  /\ UNCHANGED <<world, browserState, clientState>>

-----------------------------------------------------------------------------

Next ==
  \/ NetworkFails \/ NetworkReturns \/ GateExpires \/ AllowlistChanges
  \/ Mounts \/ Resumes \/ Disconnect \/ SetUrl \/ ReconnectFires \/ HandshakeAges
  \/ \E s \in Sockets :
       SocketOpens(s) \/ SocketCloses(s) \/ SocketStartsClosing(s) \/ Suspended(s) \/ LetGo(s)
  \/ \E c \in Calls : CallSent(c) \/ CallAnswered(c) \/ CallTimesOut(c)
  \/ RestCallFails \/ RestCallRefused \/ ProbeEnds

Spec == Init /\ [][Next]_vars

\* The app mounts, its timers fire and fetches end.  Handshakes that were not
\* suspended end, and do not fail for ever while nothing stands in their way; a
\* closing handshake ends, and the browser does not refuse every socket.  Somebody
\* looks at the phone again after a handshake was suspended on it.  Nobody has to
\* close an open socket.
FairSpec ==
  /\ Spec
  /\ WF_vars(Mounts /\ ~closedByUser) /\ WF_vars(ReconnectFires)
  /\ SF_vars(ReconnectFires /\ ws' # NoSocket)
  /\ WF_vars(HandshakeAges) /\ WF_vars(ProbeEnds)
  /\ \A s \in Sockets : WF_vars(readyState[s] = "CLOSING" /\ (SocketCloses(s) \/ LetGo(s)))
  /\ SF_vars(Phase = "CONNECTING" /\ (SocketOpens(ws) \/ SocketCloses(ws)))
  /\ SF_vars(Phase = "CONNECTING" /\ SocketOpens(ws))
  /\ SF_vars(wedged /\ ws \in suspended /\ Resumes)

-----------------------------------------------------------------------------

\* With the shape of the attachments: handlers are on the client's socket only,
\* and only sockets that exist have any.
TypeOK ==
  /\ network \in {"up", "down"} /\ gate \in {"open", "expired", "forbidden"} /\ misread \in BOOLEAN
  /\ readyState \in [Sockets -> {"none", "CONNECTING", "OPEN", "CLOSING"}]
  /\ attached \subseteq {ws} \cap {s \in Sockets : readyState[s] # "none"}
  /\ suspended \subseteq {s \in Sockets : readyState[s] \in {"CONNECTING", "CLOSING"}}
  /\ ws \in Sockets \cup {NoSocket}
  /\ state \in {"closed", "connecting", "open", "reconnecting"}
  /\ backedOff \in BOOLEAN /\ failuresSinceOpen \in 0..ProbeAfter
  /\ reconnectTimer \in BOOLEAN /\ wedged \in BOOLEAN /\ closedByUser \in BOOLEAN
  /\ stranded \subseteq Calls
  /\ pendingCalls \in [Calls -> Sockets \cup {NoSocket}]
  /\ access \in AccessType

\* "Ownership is the invariant": a socket that is open or may yet open is the
\* client's own, whatever sockets are still closing, so none is left behind
\* that the proxy's keepalive would keep alive for good.
OneLiveSocket ==
  /\ \A s \in Sockets : readyState[s] \in {"CONNECTING", "OPEN"} => s = ws
  /\ reconnectTimer => ws = NoSocket

\* The banner tells the truth: the app says it is connected exactly when it
\* holds a socket that opened, and never reports "Reconnecting" over one.
StateIsTrue ==
  /\ state = "open" <=> Phase = "OPEN" \/ (Phase = "CLOSING" /\ ws \in attached)
  /\ state \in {"connecting", "reconnecting"} => Phase = "CONNECTING" \/ reconnectTimer

\* "Fail in-flight calls rather than letting their promises hang": while there
\* is no socket to answer it, no call is out, but one whose socket was dropped for
\* a successor the browser refused to make.
NoSocketNoCalls == ws = NoSocket => \A c \in Calls \ stranded : pendingCalls[c] = NoSocket

\* The app says that the Access session expired only when it has, or when a call
\* was refused by somebody else: what the network does, and however it interleaves
\* with probes, retries and calls, is never taken for an expired session.
ExpiredIsTrueUnlessMisread == access.expired => gate = "expired" \/ misread

\* Nobody is left on "Reconnecting": once the network stays up behind an open
\* gate, a client that is not told to stay closed is connected again and again.
Reconnects ==
  []<>(network = "down" \/ gate # "open" \/ closedByUser \/ state = "open")

\* "Probes even when resumes keep restarting the backoff": a client the gate
\* refuses finds out that it is the gate, however often the screen is woken.
GateIsAsked ==
  (gate = "expired") ~> (access.expired \/ network = "down" \/ closedByUser \/ state = "open")

=============================================================================
