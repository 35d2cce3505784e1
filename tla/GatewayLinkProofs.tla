-------------------------- MODULE GatewayLinkProofs --------------------------
(***************************************************************************)
(* What holds of the listener, its calls and the backend's rows for every  *)
(* grace time, floor, number of gateway starts and of calls.  The argument:*)
(* a socket that was open has nothing to watch, an outage is never older   *)
(* than the time the link was away, and while the proxy is not restarted   *)
(* the feed's newest row says "down" exactly while the watch knows it does *)
(* (or after the listener was stopped, when no row is written any more).   *)
(***************************************************************************)
EXTENDS GatewayLink, PassScheduler, TLAPS

\* Only a started listener has a socket or a timer.
OnlyWhileStarted ==
  /\ phase = "new" => link.at = "none"
  /\ phase # "started" => ~reconnect /\ link.at \in {"none", "token"}

\* The RPC side is bound to the socket from its opening to its close.
BoundToTheSocket ==
  /\ bound <=> link.at \in {"open", "closing"}
  /\ calls # {} => bound

\* What an outage is counted from.
WatchedWhileAway ==
  /\ phase # "started" \/ link.at \in {"open", "closing"} => watch = Quiet
  /\ watch.since <= gone

\* The watch knows what the feed says.
RowIsKnown ==
  restarts = 0 =>
    /\ watch.reported => row.kind = "down"
    /\ row.kind = "down" => watch.reported \/ phase = "stopped"

LinkInv ==
  /\ TypeOK
  /\ LinkIsTended
  /\ OnlyWhileStarted
  /\ BoundToTheSocket
  /\ WatchedWhileAway
  /\ RowIsKnown

-----------------------------------------------------------------------------
(* The watch. *)

LEMMA QuietFacts ==
  /\ Quiet \in Watches
  /\ Quiet.since = -1 /\ Quiet.reported = FALSE /\ Quiet.timer = FALSE
BY WatchAssumption DEF Quiet, Watches

LEMMA NoLinkFacts ==
  /\ NoLink \in Links
  /\ NoLink.at = "none"
BY LinkAssumption DEF NoLink, Links, Tokens

LEMMA WentDownFacts ==
  ASSUME NEW w \in Watches, NEW underWay \in SUBSET Conversations
  PROVE  /\ WentDown(w, underWay) \in Watches
         /\ WentDown(w, underWay).reported = w.reported
         /\ WentDown(w, underWay).since = w.since \/ WentDown(w, underWay).since = 0
<1>1. CASE w.timer \/ w.reported
  BY <1>1 DEF WentDown
<1>2. CASE ~(w.timer \/ w.reported)
  <2> DEFINE fresh == [timer |-> TRUE, reported |-> FALSE, since |-> 0, interrupted |-> underWay]
  <2>1. WentDown(w, underWay) = fresh
    BY <1>2 DEF WentDown
  <2>2. fresh \in Watches
    BY WatchAssumption DEF Watches
  <2>3. w.reported = FALSE
    BY <1>2 DEF Watches
  <2>4. fresh.reported = FALSE /\ fresh.since = 0
    OBVIOUS
  <2>5. QED
    BY <2>1, <2>2, <2>3, <2>4
<1>3. QED
  BY <1>1, <1>2

LEMMA AgedFacts ==
  ASSUME NEW w \in Watches
  PROVE  /\ Aged(w) \in Watches
         /\ Aged(w).reported = w.reported
         /\ Aged(w).since = IF w.since \in 0..(Grace - 1) THEN w.since + 1 ELSE w.since
         /\ w = Quiet => Aged(w) = Quiet
<1> DEFINE s == IF w.since \in 0..(Grace - 1) THEN w.since + 1 ELSE w.since
           aged == [timer |-> w.timer, reported |-> w.reported, since |-> s,
                    interrupted |-> w.interrupted]
<1>1. Aged(w) = aged
  BY DEF Aged, Watches
<1>2. s \in -1..Grace /\ (s = -1 <=> w.since = -1)
  BY WatchAssumption DEF Watches
<1>3. aged \in Watches
  <2> HIDE DEF s
  <2> QED
    BY <1>2 DEF Watches
<1>4. aged.reported = w.reported /\ aged.since = s
  OBVIOUS
<1>5. ASSUME w = Quiet PROVE aged = Quiet
  <2>1. s = -1
    BY <1>5, QuietFacts
  <2> HIDE DEF s
  <2> QED
    BY <2>1, <1>5 DEF Quiet
<1>6. QED
  BY <1>1, <1>3, <1>4, <1>5

LEMMA AnnouncedFacts ==
  ASSUME NEW w \in Watches, GraceOver(w)
  PROVE  /\ Announced(w) \in Watches
         /\ Announced(w).reported = TRUE
         /\ Announced(w).since = w.since
         /\ w.since = Grace /\ w.reported = FALSE /\ w # Quiet
<1>1. w.timer = TRUE /\ w.reported = FALSE /\ w.since = Grace
  BY DEF Watches, GraceOver
<1>2. w \in [timer : BOOLEAN, reported : BOOLEAN, since : -1..Grace,
            interrupted : SUBSET Conversations]
  BY DEF Watches
<1>3. /\ Announced(w) \in [timer : BOOLEAN, reported : BOOLEAN, since : -1..Grace,
                         interrupted : SUBSET Conversations]
      /\ Announced(w).timer = FALSE /\ Announced(w).reported = TRUE
      /\ Announced(w).since = w.since
  BY <1>2 DEF Announced
<1>4. Announced(w) \in Watches
  BY <1>1, <1>3, WatchAssumption DEF Watches
<1>5. w # Quiet
  BY <1>1, QuietFacts
<1>6. QED
  BY <1>1, <1>3, <1>4, <1>5

LEMMA RowFacts ==
  ASSUME NEW w \in Watches, NEW r \in Rows
  PROVE  /\ DownRow(w) \in Rows /\ DownRow(w).kind = "down"
         /\ RowOnReturn(w, r) \in Rows
         /\ w.reported => RowOnReturn(w, r).kind = "up"
         /\ ~w.reported => RowOnReturn(w, r) = r \/ RowOnReturn(w, r).kind = "restarted"
BY DEF DownRow, RowOnReturn, Rows, Watches

-----------------------------------------------------------------------------

LEMMA InitLinkInv == Init => LinkInv
<1> SUFFICES ASSUME Init PROVE LinkInv
  OBVIOUS
<1>1. TypeOK
  <2>1. NoRow \in Rows
    BY DEF NoRow, Rows
  <2>2. token \in Tokens
    BY LinkAssumption DEF Init, Tokens
  <2>3. generation \in 1..MaxGeneration /\ gone \in 0..Grace /\ restarts \in 0..MaxRestarts
    BY LinkAssumption, WatchAssumption DEF Init
  <2>4. QED
    BY <2>1, <2>2, <2>3, QuietFacts, NoLinkFacts DEF Init, TypeOK
<1>2. QED
  BY <1>1, QuietFacts, NoLinkFacts
  DEF Init, LinkInv, LinkIsTended, OnlyWhileStarted, BoundToTheSocket, WatchedWhileAway, RowIsKnown, NoRow

-----------------------------------------------------------------------------
(* Every step keeps the types. *)

\* Where a socket may be sent.
LEMMA ConnectFacts ==
  ASSUME TypeOK, Connect
  PROVE  link' \in Links /\ link'.at \in {"token", "connecting"}
BY LinkAssumption DEF TypeOK, Connect, Links, NoLink, Tokens

LEMMA MovedFacts ==
  ASSUME NEW l \in Links, NEW place \in {"none", "token", "connecting", "open", "closing"}
  PROVE  [l EXCEPT !.at = place] \in Links /\ [l EXCEPT !.at = place].at = place
BY DEF Links

LEMMA SentFacts ==
  ASSUME NEW l \in Links, NEW t \in Tokens
  PROVE  /\ [l EXCEPT !.at = "connecting", !.token = t] \in Links
         /\ [l EXCEPT !.at = "connecting", !.token = t].at = "connecting"
BY DEF Links

\* A socket given up by either end is closing; any other stays where it is.
LEMMA GivenUpFacts ==
  ASSUME TypeOK, link' = IF link.at = "open" THEN [link EXCEPT !.at = "closing"] ELSE link
  PROVE  link' \in Links /\ link'.at = IF link.at = "open" THEN "closing" ELSE link.at
<1>1. link \in Links
  BY DEF TypeOK
<1>2. CASE link.at = "open"
  <2>1. link' = [link EXCEPT !.at = "closing"]
    BY <1>2
  <2>2. [link EXCEPT !.at = "closing"] \in Links /\ [link EXCEPT !.at = "closing"].at = "closing"
    BY <1>1, MovedFacts
  <2>3. QED
    BY <1>2, <2>1, <2>2
<1>3. CASE link.at # "open"
  BY <1>1, <1>3
<1>4. QED
  BY <1>2, <1>3

\* The close event of a socket, whichever way it closed.
LEMMA ClosedKeeps ==
  ASSUME LinkInv, Closed, link.at \in {"connecting", "closing"}
  PROVE  LinkInv'
<1> USE DEF LinkInv
<1>1. phase = "started"
  BY DEF OnlyWhileStarted
<1>2. /\ link' = NoLink /\ link' \in Links /\ link'.at = "none"
      /\ bound' = FALSE /\ calls' = {} /\ wire' = {} /\ reconnect' = TRUE
      /\ phase' = phase /\ row' = row /\ gone' = gone /\ restarts' = restarts
  BY NoLinkFacts DEF Closed, Unbind, history
<1>3. /\ watch' \in Watches
      /\ watch'.reported = watch.reported
      /\ watch'.since = watch.since \/ watch'.since = 0
  BY WentDownFacts DEF Closed, TypeOK
<1>4. TypeOK'
  BY <1>2, <1>3 DEF TypeOK, Closed, gateway, config
<1>5. LinkIsTended' /\ OnlyWhileStarted' /\ BoundToTheSocket'
  BY <1>1, <1>2 DEF LinkIsTended, OnlyWhileStarted, BoundToTheSocket
<1>6. WatchedWhileAway'
  BY <1>1, <1>2, <1>3, WatchAssumption DEF WatchedWhileAway, TypeOK
<1>7. RowIsKnown'
  BY <1>1, <1>2, <1>3 DEF RowIsKnown
<1>8. QED
  BY <1>4, <1>5, <1>6, <1>7

LEMMA NextLinkInv == LinkInv /\ [Next]_vars => LinkInv'
<1> SUFFICES ASSUME LinkInv, [Next]_vars PROVE LinkInv'
  OBVIOUS
<1> USE DEF LinkInv
<1>1. CASE GatewayEnds
  <2>1. link' \in Links /\ link'.at = IF link.at = "open" THEN "closing" ELSE link.at
    <3>1. link' = IF link.at = "open" THEN [link EXCEPT !.at = "closing"] ELSE link
      BY <1>1 DEF GatewayEnds
    <3>2. QED
      BY <3>1, GivenUpFacts
  <2>2. TypeOK'
    BY <1>1, <2>1 DEF TypeOK, GatewayEnds, proxy, config, heartbeat, history
  <2>3. /\ phase' = phase /\ reconnect' = reconnect /\ bound' = bound /\ calls' = calls
        /\ watch' = watch /\ row' = row /\ gone' = gone /\ restarts' = restarts
    BY <1>1 DEF GatewayEnds, proxy, history
  <2>4. QED
    BY <2>1, <2>2, <2>3
    DEF LinkIsTended, OnlyWhileStarted, BoundToTheSocket, WatchedWhileAway, RowIsKnown
<1>2. CASE GatewayStarts
  <2>1. generation' \in 1..MaxGeneration
    BY <1>2, LinkAssumption DEF GatewayStarts, TypeOK
  <2>2. QED
    BY <1>2, <2>1 DEF GatewayStarts, proxy, history, config, heartbeat,
      TypeOK, LinkIsTended, OnlyWhileStarted, BoundToTheSocket, WatchedWhileAway, RowIsKnown
<1>3. ASSUME NEW s \in Conversations, TurnStarts(s) PROVE LinkInv'
  BY <1>3 DEF TurnStarts, proxy, history, config, heartbeat,
    TypeOK, LinkIsTended, OnlyWhileStarted, BoundToTheSocket, WatchedWhileAway, RowIsKnown
<1>4. ASSUME NEW s \in Conversations, TurnEnds(s) PROVE LinkInv'
  BY <1>4 DEF TurnEnds, proxy, history, config, heartbeat,
    TypeOK, LinkIsTended, OnlyWhileStarted, BoundToTheSocket, WatchedWhileAway, RowIsKnown
<1>5. CASE LinkDies
  <2>1. link' \in Links /\ link'.at = link.at
    BY <1>5 DEF LinkDies, TypeOK, Links
  <2>2. TypeOK'
    BY <1>5, <2>1 DEF TypeOK, LinkDies, gateway, proxy, config, heartbeat, history
  <2>3. QED
    BY <1>5, <2>1, <2>2 DEF LinkDies, proxy, history,
      LinkIsTended, OnlyWhileStarted, BoundToTheSocket, WatchedWhileAway, RowIsKnown
<1>6. CASE RequestSent
  BY <1>6 DEF RequestSent, gateway, listener, rpc, watching, history, heartbeat,
    TypeOK, LinkIsTended, OnlyWhileStarted, BoundToTheSocket, WatchedWhileAway, RowIsKnown
<1>7. CASE RequestAnswered
  <2>1. token' \in Tokens
    BY <1>7, LinkAssumption DEF RequestAnswered, Drop, Tokens, TypeOK
  <2>2. QED
    BY <1>7, <2>1 DEF RequestAnswered, gateway, listener, rpc, watching, history, heartbeat,
      TypeOK, LinkIsTended, OnlyWhileStarted, BoundToTheSocket, WatchedWhileAway, RowIsKnown
<1>8. CASE StartPushListener
  <2>1. link' \in Links /\ link'.at \in {"token", "connecting"}
    BY <1>8, ConnectFacts DEF StartPushListener
  <2>2. TypeOK'
    BY <1>8, <2>1
    DEF TypeOK, StartPushListener, gateway, config, heartbeat, rpc, watching, history
  <2>3. link.at = "none" /\ ~reconnect /\ ~bound /\ watch = Quiet
    BY <1>8 DEF StartPushListener, OnlyWhileStarted, BoundToTheSocket, WatchedWhileAway
  <2>4. /\ phase = "new" /\ phase' = "started" /\ reconnect' = reconnect
        /\ bound' = bound /\ calls' = calls
        /\ watch' = watch /\ row' = row /\ gone' = gone /\ restarts' = restarts
    BY <1>8 DEF StartPushListener, rpc, watching, history
  <2>5. QED
    BY <2>1, <2>2, <2>3, <2>4
    DEF LinkIsTended, OnlyWhileStarted, BoundToTheSocket, WatchedWhileAway, RowIsKnown
<1>9. CASE TokenScraped
  <2>1. link \in Links /\ link.at = "token" /\ generation \in Tokens
    BY <1>9, LinkAssumption DEF TypeOK, Tokens, TokenScraped
  <2>2. /\ link' \in Links
        /\ link'.at = IF phase = "stopped" THEN "none" ELSE "connecting"
    <3>1. [link EXCEPT !.at = "connecting", !.token = generation] \in Links
      BY <2>1, SentFacts
    <3>2. [link EXCEPT !.at = "connecting", !.token = generation].at = "connecting"
      BY <2>1, SentFacts
    <3>3. link' = IF phase = "stopped" THEN NoLink
                  ELSE [link EXCEPT !.at = "connecting", !.token = generation]
      BY <1>9 DEF TokenScraped
    <3>4. CASE phase = "stopped"
      BY <3>3, <3>4, NoLinkFacts
    <3>5. CASE phase # "stopped"
      BY <3>1, <3>2, <3>3, <3>5
    <3>6. QED
      BY <3>4, <3>5
  <2>3. TypeOK'
    BY <1>9, <2>1, <2>2 DEF TypeOK, TokenScraped, heartbeat, rpc, watching, history, gateway
  <2>4. /\ phase' = phase /\ reconnect' = reconnect /\ bound' = bound /\ calls' = calls
        /\ watch' = watch /\ row' = row /\ gone' = gone /\ restarts' = restarts
    BY <1>9 DEF TokenScraped, rpc, watching, history
  <2>5. phase \in {"started", "stopped"}
    BY <2>1 DEF TypeOK, OnlyWhileStarted
  <2>6. QED
    BY <2>1, <2>2, <2>3, <2>4, <2>5
    DEF LinkIsTended, OnlyWhileStarted, BoundToTheSocket, WatchedWhileAway, RowIsKnown
<1>10. CASE TokenNotFound
  <2>1. link \in Links /\ link.at = "token" /\ token \in Tokens
    BY <1>10 DEF TypeOK, TokenNotFound
  <2>2. /\ link' \in Links
        /\ link'.at = IF phase = "stopped" THEN "none" ELSE "connecting"
    <3>1. [link EXCEPT !.at = "connecting", !.token = token] \in Links
      BY <2>1, SentFacts
    <3>2. [link EXCEPT !.at = "connecting", !.token = token].at = "connecting"
      BY <2>1, SentFacts
    <3>3. link' = IF phase = "stopped" THEN NoLink
                  ELSE [link EXCEPT !.at = "connecting", !.token = token]
      BY <1>10 DEF TokenNotFound
    <3>4. CASE phase = "stopped"
      BY <3>3, <3>4, NoLinkFacts
    <3>5. CASE phase # "stopped"
      BY <3>1, <3>2, <3>3, <3>5
    <3>6. QED
      BY <3>4, <3>5
  <2>3. TypeOK'
    BY <1>10, <2>2
    DEF TypeOK, TokenNotFound, gateway, config, heartbeat, rpc, watching, history
  <2>4. /\ phase' = phase /\ reconnect' = reconnect /\ bound' = bound /\ calls' = calls
        /\ watch' = watch /\ row' = row /\ gone' = gone /\ restarts' = restarts
    BY <1>10 DEF TokenNotFound, rpc, watching, history
  <2>5. phase \in {"started", "stopped"}
    BY <2>1 DEF TypeOK, OnlyWhileStarted
  <2>6. QED
    BY <2>1, <2>2, <2>3, <2>4, <2>5
    DEF LinkIsTended, OnlyWhileStarted, BoundToTheSocket, WatchedWhileAway, RowIsKnown
<1>11. CASE SocketOpens
  <2>1. link' \in Links /\ link'.at = "open" /\ link.at = "connecting"
    <3>1. link \in Links
      BY DEF TypeOK
    <3>2. [link EXCEPT !.at = "open"] \in Links /\ [link EXCEPT !.at = "open"].at = "open"
      BY <3>1, MovedFacts
    <3>3. QED
      BY <1>11, <3>2 DEF SocketOpens
  <2>2. watch' = Quiet /\ watch' \in Watches /\ watch'.reported = FALSE /\ watch'.since = -1
    BY <1>11, QuietFacts DEF SocketOpens, CameBack
  <2>3. /\ row' \in Rows
        /\ row'.kind = "down" => ~watch.reported /\ row' = row
    <3>1. row' = RowOnReturn(watch, row) /\ watch \in Watches /\ row \in Rows
      BY <1>11 DEF SocketOpens, TypeOK
    <3>2. QED
      BY <3>1, RowFacts
  <2>4. phase = "started" /\ ~bound /\ calls = {} /\ ~reconnect
    BY <2>1 DEF OnlyWhileStarted, BoundToTheSocket, LinkIsTended
  <2>5. /\ phase' = phase /\ calls' = calls /\ reconnect' = reconnect
        /\ restarts' = restarts /\ bound' = TRUE /\ gone' = 0
    BY <1>11 DEF SocketOpens
  <2>6. TypeOK'
    <3>1. gone' \in 0..Grace
      BY <2>5, WatchAssumption
    <3>2. QED
      BY <1>11, <2>1, <2>2, <2>3, <3>1 DEF TypeOK, SocketOpens, gateway, config
  <2>7. RowIsKnown'
    BY <2>2, <2>3, <2>4, <2>5 DEF RowIsKnown
  <2>8. WatchedWhileAway'
    BY <2>2, <2>5 DEF WatchedWhileAway
  <2>9. LinkIsTended' /\ OnlyWhileStarted' /\ BoundToTheSocket'
    BY <2>1, <2>4, <2>5 DEF LinkIsTended, OnlyWhileStarted, BoundToTheSocket
  <2>10. QED
    BY <2>6, <2>7, <2>8, <2>9
<1>12. CASE SocketRefused
  BY <1>12, ClosedKeeps DEF SocketRefused
<1>13. CASE SocketCloses
  BY <1>13, ClosedKeeps DEF SocketCloses
<1>14. CASE ReconnectFires
  <2>1. phase = "started" /\ link.at = "none" /\ ~bound
    BY <1>14 DEF ReconnectFires, TypeOK, LinkIsTended, OnlyWhileStarted, BoundToTheSocket
  <2>2. link' \in Links /\ link'.at \in {"token", "connecting"}
    BY <1>14, <2>1, ConnectFacts DEF ReconnectFires
  <2>3. TypeOK'
    BY <1>14, <2>2 DEF TypeOK, ReconnectFires, gateway, config, heartbeat, rpc, watching, history
  <2>4. /\ phase' = phase /\ reconnect' = FALSE /\ bound' = bound /\ calls' = calls
        /\ watch' = watch /\ row' = row /\ gone' = gone /\ restarts' = restarts
    BY <1>14 DEF ReconnectFires, rpc, watching, history
  <2>5. QED
    BY <2>1, <2>2, <2>3, <2>4
    DEF LinkIsTended, OnlyWhileStarted, BoundToTheSocket, WatchedWhileAway, RowIsKnown
<1>15. CASE PingElapses
  BY <1>15 DEF PingElapses, gateway, config, rpc, watching, history,
    TypeOK, LinkIsTended, OnlyWhileStarted, BoundToTheSocket, WatchedWhileAway, RowIsKnown
<1>16. CASE PongArrives
  BY <1>16 DEF PongArrives, gateway, config, rpc, watching, history,
    TypeOK, LinkIsTended, OnlyWhileStarted, BoundToTheSocket, WatchedWhileAway, RowIsKnown
<1>17. CASE PongGraceElapses
  <2>1. link' \in Links /\ link'.at = IF link.at = "open" THEN "closing" ELSE link.at
    <3>1. link' = IF link.at = "open" THEN [link EXCEPT !.at = "closing"] ELSE link
      BY <1>17 DEF PongGraceElapses
    <3>2. QED
      BY <3>1, GivenUpFacts
  <2>2. TypeOK'
    BY <1>17, <2>1 DEF TypeOK, PongGraceElapses, gateway, config, watching, history
  <2>3. /\ phase' = phase /\ reconnect' = reconnect /\ bound' = bound /\ calls' = calls
        /\ watch' = watch /\ row' = row /\ gone' = gone /\ restarts' = restarts
    BY <1>17 DEF PongGraceElapses, watching, history
  <2>4. QED
    BY <2>1, <2>2, <2>3
    DEF LinkIsTended, OnlyWhileStarted, BoundToTheSocket, WatchedWhileAway, RowIsKnown
<1>18. CASE StopPushListener
  <2>1. link' \in Links /\ link'.at \in {"none", "token"}
    BY <1>18, NoLinkFacts DEF StopPushListener, TypeOK
  <2>2. watch' = Quiet /\ watch' \in Watches /\ watch'.reported = FALSE /\ watch'.since = -1
    BY <1>18, QuietFacts DEF StopPushListener, StopWatching
  <2>3. /\ phase' = "stopped" /\ reconnect' = FALSE /\ bound' = FALSE /\ calls' = {}
        /\ row' = row /\ gone' = gone /\ restarts' = restarts
    BY <1>18 DEF StopPushListener, Unbind, history
  <2>4. TypeOK'
    BY <1>18, <2>1, <2>2 DEF TypeOK, StopPushListener, Unbind, gateway, config, history
  <2>5. WatchedWhileAway' /\ RowIsKnown'
    BY <2>2, <2>3, WatchAssumption DEF WatchedWhileAway, RowIsKnown, TypeOK
  <2>6. LinkIsTended' /\ OnlyWhileStarted' /\ BoundToTheSocket'
    BY <2>1, <2>3 DEF LinkIsTended, OnlyWhileStarted, BoundToTheSocket
  <2>7. QED
    BY <2>4, <2>5, <2>6
<1>19. CASE CallGateway
  BY <1>19 DEF CallGateway, gateway, config, listener, heartbeat, watching, history,
    TypeOK, LinkIsTended, OnlyWhileStarted, BoundToTheSocket, WatchedWhileAway, RowIsKnown
<1>20. CASE CallTimesOut
  BY <1>20 DEF CallTimesOut, gateway, config, listener, heartbeat, watching, history,
    TypeOK, LinkIsTended, OnlyWhileStarted, BoundToTheSocket, WatchedWhileAway, RowIsKnown
<1>21. CASE AnswerArrives
  BY <1>21 DEF AnswerArrives, gateway, config, listener, heartbeat, history,
    TypeOK, LinkIsTended, OnlyWhileStarted, BoundToTheSocket, WatchedWhileAway, RowIsKnown
<1>22. CASE Tick
  <2>1. /\ watch' \in Watches
        /\ watch'.reported = watch.reported
        /\ watch'.since = IF watch.since \in 0..(Grace - 1) THEN watch.since + 1 ELSE watch.since
        /\ watch = Quiet => watch' = Quiet
    BY <1>22, AgedFacts DEF Tick, TypeOK
  <2>2. /\ phase' = phase /\ link' = link /\ reconnect' = reconnect
        /\ bound' = bound /\ calls' = calls /\ row' = row /\ restarts' = restarts
        /\ gone' = IF link.at # "open" /\ gone < Grace THEN gone + 1 ELSE gone
    BY <1>22 DEF Tick, listener, rpc
  <2>3. gone \in 0..Grace /\ gone' \in 0..Grace /\ watch.since \in -1..Grace
    BY <2>2, WatchAssumption DEF TypeOK, Watches
  <2>4. TypeOK'
    BY <1>22, <2>1, <2>3 DEF TypeOK, Tick, gateway, config, listener, heartbeat, rpc
  <2>5. WatchedWhileAway'
    <3>1. CASE phase # "started" \/ link.at \in {"open", "closing"}
      <4>1. watch' = Quiet /\ watch'.since = -1
        BY <2>1, <3>1, QuietFacts DEF WatchedWhileAway
      <4>2. QED
        BY <2>3, <4>1 DEF WatchedWhileAway
    <3>2. CASE ~(phase # "started" \/ link.at \in {"open", "closing"})
      <4>1. watch'.since <= gone'
        BY <2>1, <2>2, <2>3, <3>2, WatchAssumption DEF WatchedWhileAway
      <4>2. QED
        BY <2>2, <3>2, <4>1 DEF WatchedWhileAway
    <3>3. QED
      BY <3>1, <3>2
  <2>6. QED
    BY <2>1, <2>2, <2>4, <2>5 DEF LinkIsTended, OnlyWhileStarted, BoundToTheSocket, RowIsKnown
<1>23. CASE OutageTimerFires
  <2>1. watch \in Watches /\ GraceOver(watch) /\ watch' = Announced(watch) /\ row' = DownRow(watch)
    BY <1>23 DEF OutageTimerFires, TypeOK
  <2>2. /\ watch' \in Watches /\ watch'.reported = TRUE /\ watch'.since = watch.since
        /\ watch # Quiet
    BY <2>1, AnnouncedFacts
  <2>3. row' \in Rows /\ row'.kind = "down"
    BY <2>1, RowFacts DEF TypeOK
  <2>4. /\ phase' = phase /\ link' = link /\ reconnect' = reconnect
        /\ bound' = bound /\ calls' = calls /\ gone' = gone /\ restarts' = restarts
    BY <1>23 DEF OutageTimerFires, listener, rpc, history
  <2>5. TypeOK'
    BY <1>23, <2>2, <2>3
    DEF TypeOK, OutageTimerFires, gateway, config, listener, heartbeat, rpc, history
  <2>6. QED
    BY <2>2, <2>3, <2>4, <2>5
    DEF LinkIsTended, OnlyWhileStarted, BoundToTheSocket, WatchedWhileAway, RowIsKnown
<1>24. CASE Restart
  <2>1. /\ link' = NoLink /\ link' \in Links /\ link'.at = "none"
        /\ watch' = Quiet /\ watch' \in Watches /\ watch'.reported = FALSE /\ watch'.since = -1
    BY <1>24, NoLinkFacts, QuietFacts DEF Restart
  <2>2. /\ phase' = "new" /\ reconnect' = FALSE /\ bound' = FALSE /\ calls' = {}
        /\ row' = row /\ gone' = gone /\ restarts' = restarts + 1
    BY <1>24 DEF Restart, Unbind
  <2>3. token' \in Tokens /\ restarts' \in 1..MaxRestarts /\ restarts' \in 0..MaxRestarts
    BY <1>24, LinkAssumption DEF Restart, Tokens, TypeOK
  <2>4. TypeOK'
    BY <1>24, <2>1, <2>3 DEF TypeOK, Restart, Unbind, gateway
  <2>5. QED
    BY <2>1, <2>2, <2>3, <2>4, WatchAssumption
    DEF LinkIsTended, OnlyWhileStarted, BoundToTheSocket, WatchedWhileAway, RowIsKnown, TypeOK
<1>25. CASE UNCHANGED vars
  BY <1>25 DEF vars, gateway, config, heartbeat, rpc, history,
    TypeOK, LinkIsTended, OnlyWhileStarted, BoundToTheSocket, WatchedWhileAway, RowIsKnown
<1>26. QED
  BY <1>1, <1>2, <1>3, <1>4, <1>5, <1>6, <1>7, <1>8, <1>9, <1>10, <1>11, <1>12, <1>13, <1>14,
     <1>15, <1>16, <1>17, <1>18, <1>19, <1>20, <1>21, <1>22, <1>23, <1>24, <1>25
  DEF Next, GatewayStep, SocketStep, CallStep

-----------------------------------------------------------------------------
(* What holds of every run. *)

\* LinkInv is an invariant: the types, and what ties the socket, the timers,
\* the calls, the watch and the feed's row together (events.ts, rpc.ts, updates.ts).
THEOREM LinkInvariant == Spec => []LinkInv
<1>1. Init => LinkInv
  BY InitLinkInv
<1>2. LinkInv /\ [Next]_vars => LinkInv'
  BY NextLinkInv
<1>3. QED
  BY <1>1, <1>2, PTL DEF Spec

\* A started listener always has a socket, an attempt at one or a timer that
\* will make one, and never two of them (connect and the close handler, events.ts).
THEOREM AlwaysTended == Spec => []LinkIsTended
<1>1. LinkInv => LinkIsTended
  BY DEF LinkInv
<1>2. QED
  BY <1>1, LinkInvariant, PTL

\* Whatever ends a socket, the calls made on it end with it (unbindRpcSocket, rpc.ts).
THEOREM CallsEndWithTheirSocket == Spec => []CallsDieWithTheSocket
<1>1. LinkInv => CallsDieWithTheSocket
  BY DEF LinkInv, TypeOK, OnlyWhileStarted, BoundToTheSocket, CallsDieWithTheSocket
<1>2. QED
  BY <1>1, LinkInvariant, PTL

\* Until the proxy is restarted, an open link and a newest row that says it is
\* down never meet (backendCameBack, updates.ts).
THEOREM NeverOfflineWhileOpen == Spec => []NotOfflineWhileOpen
<1>1. LinkInv => NotOfflineWhileOpen
  <2> SUFFICES ASSUME LinkInv, restarts = 0, link.at = "open"
               PROVE  row.kind # "down"
    BY DEF NotOfflineWhileOpen
  <2>1. watch = Quiet
    BY DEF LinkInv, WatchedWhileAway
  <2>2. phase = "started"
    BY DEF LinkInv, TypeOK, OnlyWhileStarted
  <2>3. QED
    BY <2>1, <2>2, QuietFacts DEF LinkInv, RowIsKnown
<1>2. QED
  BY <1>1, LinkInvariant, PTL

\* A step that changes the feed's row is the opening of a socket or the end of
\* the grace time: nothing else writes one.
LEMMA RowSteps ==
  ASSUME Next, row' # row
  PROVE  SocketOpens \/ OutageTimerFires
BY DEF Next, GatewayStep, SocketStep, CallStep, GatewayEnds, GatewayStarts, TurnStarts, TurnEnds,
  LinkDies, RequestSent, RequestAnswered, StartPushListener, TokenScraped, TokenNotFound,
  SocketRefused, SocketCloses, Closed, ReconnectFires, PingElapses, PongArrives, PongGraceElapses,
  StopPushListener, CallGateway, CallTimesOut, AnswerArrives, Tick, Restart, proxy, watching

\* An outage is announced only when the link has been away for the whole grace
\* time, for every grace time (backendWentDown's timer, updates.ts).
THEOREM OutageOutlastsGrace == Spec => AnnouncedAfterGrace
<1>1. LinkInv /\ [Next]_vars => [row'.kind = "down" /\ row' # row => gone = Grace]_vars
  <2> SUFFICES ASSUME LinkInv, Next, row'.kind = "down", row' # row
               PROVE  gone = Grace
    OBVIOUS
  <2>1. watch \in Watches /\ row \in Rows /\ gone \in 0..Grace /\ watch.since <= gone
    BY DEF LinkInv, TypeOK, WatchedWhileAway
  <2>2. CASE SocketOpens
    <3>1. row' = RowOnReturn(watch, row)
      BY <2>2 DEF SocketOpens
    <3>2. QED
      BY <2>1, <3>1, RowFacts
  <2>3. CASE OutageTimerFires
    <3>1. watch.since = Grace
      BY <2>1, <2>3, AnnouncedFacts DEF OutageTimerFires
    <3>2. QED
      BY <2>1, <3>1, WatchAssumption
  <2>4. QED
    BY <2>2, <2>3, RowSteps
<1>2. QED
  BY <1>1, LinkInvariant, PTL DEF Spec, AnnouncedAfterGrace

\* Until the proxy is restarted, a recovery is told exactly when an outage was
\* (backendCameBack, updates.ts).
THEOREM RecoveryAnswers == Spec => RecoveryAnswersOutage
<1>1. LinkInv /\ [Next]_vars =>
        [restarts = 0 =>
           /\ row'.kind = "up" /\ row' # row => row.kind = "down"
           /\ row.kind = "down" /\ row' # row => row'.kind = "up"]_vars
  <2> SUFFICES ASSUME LinkInv, Next, restarts = 0, row' # row
               PROVE  /\ row'.kind = "up" => row.kind = "down"
                      /\ row.kind = "down" => row'.kind = "up"
    OBVIOUS
  <2>1. /\ watch \in Watches /\ row \in Rows
        /\ watch.reported => row.kind = "down"
        /\ row.kind = "down" => watch.reported \/ phase = "stopped"
    BY DEF LinkInv, TypeOK, RowIsKnown
  <2>2. CASE SocketOpens
    <3>1. row' = RowOnReturn(watch, row) /\ link.at = "connecting"
      BY <2>2 DEF SocketOpens
    <3>2. phase = "started"
      BY <3>1 DEF LinkInv, OnlyWhileStarted
    <3>3. /\ watch.reported => row'.kind = "up"
          /\ ~watch.reported => row'.kind = "restarted"
      BY <2>1, <3>1, RowFacts
    <3>4. QED
      BY <2>1, <3>2, <3>3
  <2>3. CASE OutageTimerFires
    <3>1. watch.reported = FALSE /\ watch # Quiet /\ row' = DownRow(watch)
      BY <2>1, <2>3, AnnouncedFacts DEF OutageTimerFires
    <3>2. phase = "started" /\ row'.kind = "down"
      BY <2>1, <3>1, RowFacts DEF LinkInv, WatchedWhileAway
    <3>3. QED
      BY <2>1, <3>1, <3>2
  <2>4. QED
    BY <2>2, <2>3, RowSteps
<1>2. QED
  BY <1>1, LinkInvariant, PTL DEF Spec, RecoveryAnswersOutage

-----------------------------------------------------------------------------
(* The sweeps the listener asks for: what their skeleton guarantees for every *)
(* choice of delays.  One pass at a time, no ask left waiting, and the        *)
(* contract of Coalescing.                                                    *)

\* An armed timer and a pass exclude each other, only a pass leaves the dirty
\* flag up, and an ask that waits has one of the two behind it: the timer, with
\* what it still needs, or the flag, with no idle time spent yet.
SchedulerInv ==
  /\ SchedulerTypeOK
  /\ OnePassAtATime
  /\ running => timer = Off
  /\ dirty => running
  /\ waited # Off =>
       \/ timer # Off /\ waited + timer <= ActiveSettle
       \/ dirty /\ waited = 0

LEMMA InitSchedulerInv == SchedulerInit => SchedulerInv
<1> SUFFICES ASSUME SchedulerInit PROVE SchedulerInv
  OBVIOUS
<1>1. SchedulerTypeOK
  <2>1. Off \in -1..Interval /\ Off \in -1..ActiveSettle
    BY SchedulerAssumption DEF Off
  <2>2. QED
    BY <2>1 DEF SchedulerInit, SchedulerTypeOK
<1>2. OnePassAtATime
  BY DEF SchedulerInit, OnePassAtATime
<1>3. QED
  BY <1>1, <1>2 DEF SchedulerInit, SchedulerInv

\* Asking keeps the invariant whoever asks.
LEMMA ScheduleKeeps ==
  ASSUME SchedulerInv, Schedule(Settle), Asked, running' = running, passes' = passes,
         sweep' \in -1..Interval
  PROVE  SchedulerInv'
<1>1. SchedulerTypeOK'
  BY SchedulerAssumption DEF SchedulerInv, SchedulerTypeOK, Schedule, Asked, Off
<1>2. OnePassAtATime'
  BY DEF SchedulerInv, OnePassAtATime
<1>3. (running => timer = Off)' /\ (dirty => running)'
  BY DEF SchedulerInv, Schedule
<1>4. (waited # Off => \/ timer # Off /\ waited + timer <= ActiveSettle
                       \/ dirty /\ waited = 0)'
  BY SchedulerAssumption DEF SchedulerInv, SchedulerTypeOK, Schedule, Asked, Off
<1>5. QED
  BY <1>1, <1>2, <1>3, <1>4 DEF SchedulerInv

LEMMA NextSchedulerInv == SchedulerInv /\ [SchedulerNext]_schedulerVars => SchedulerInv'
<1> SUFFICES ASSUME SchedulerInv, [SchedulerNext]_schedulerVars PROVE SchedulerInv'
  OBVIOUS
<1> USE SchedulerAssumption DEF Off
<1>1. CASE Signal
  BY <1>1, ScheduleKeeps DEF Signal, SchedulerInv, SchedulerTypeOK
<1>2. CASE StartSweep
  <2>1. CASE Schedule(Settle) /\ Asked
    BY <1>2, <2>1, ScheduleKeeps DEF StartSweep
  <2>2. CASE UNCHANGED <<timer, dirty, waited>>
    BY <1>2, <2>2 DEF StartSweep, SchedulerInv, SchedulerTypeOK, OnePassAtATime
  <2>3. QED
    BY <1>2, <2>1, <2>2 DEF StartSweep
<1>3. CASE IntervalElapses
  BY <1>3, ScheduleKeeps DEF IntervalElapses
<1>4. CASE StopSweep
  BY <1>4 DEF StopSweep, SchedulerInv, SchedulerTypeOK, OnePassAtATime
<1>5. CASE TimerFires
  BY <1>5 DEF TimerFires, SchedulerInv, SchedulerTypeOK, OnePassAtATime
<1>6. ASSUME NEW again \in BOOLEAN, PassEnds(again) PROVE SchedulerInv'
  <2>1. /\ passes = 1 /\ passes' = 0
        /\ running /\ ~running' /\ ~dirty'
        /\ timer = Off
        /\ sweep' = sweep /\ waited' = waited
    BY <1>6 DEF PassEnds, SchedulerInv, SchedulerTypeOK, OnePassAtATime
  <2>2. timer' \in {Off, Settle, ActiveSettle} /\ (dirty => timer' = Settle)
    BY <1>6, <2>1 DEF PassEnds
  <2>3. running' = FALSE /\ dirty' = FALSE
    BY <1>6 DEF PassEnds
  <2>4. SchedulerTypeOK' /\ OnePassAtATime'
    <3>1. timer' \in -1..ActiveSettle
      BY <2>2
    <3>2. OnePassAtATime'
      BY <2>1, <2>3 DEF OnePassAtATime
    <3>3. QED
      BY <2>1, <2>3, <3>1, <3>2 DEF SchedulerInv, SchedulerTypeOK
  <2>5. waited # Off => dirty /\ waited = 0
    BY <2>1 DEF SchedulerInv
  <2>6. (waited # Off => timer # Off /\ waited + timer <= ActiveSettle)'
    BY <2>1, <2>2, <2>5
  <2>7. QED
    BY <2>1, <2>3, <2>4, <2>6 DEF SchedulerInv
<1>7. CASE TimePasses
  BY <1>7 DEF TimePasses, Later, SchedulerInv, SchedulerTypeOK, OnePassAtATime
<1>8. CASE UNCHANGED schedulerVars
  BY <1>8 DEF schedulerVars, SchedulerInv, SchedulerTypeOK, OnePassAtATime
<1>9. QED
  BY <1>1, <1>2, <1>3, <1>4, <1>5, <1>6, <1>7, <1>8 DEF SchedulerNext

\* The inductive invariant of the skeleton: schedule*, the timer callback and the
\* finally block (cron.ts, kanban.ts, sessions.ts in server/src/push).
THEOREM SchedulerInvariant == SchedulerSpec => []SchedulerInv
  BY InitSchedulerInv, NextSchedulerInv, PTL DEF SchedulerSpec

\* No two passes of one sweep ever run at once.
THEOREM SchedulerOnePassAtATime == SchedulerSpec => []OnePassAtATime
<1>1. SchedulerInv => OnePassAtATime
  BY DEF SchedulerInv
<1>2. QED
  BY <1>1, SchedulerInvariant, PTL

\* No sequence of asks, intervals and passes puts an ask off for longer than the
\* longest settle delay.
THEOREM SchedulerServedInTime == SchedulerSpec => []ServedInTime
<1>1. SchedulerInv => ServedInTime
  BY SchedulerAssumption DEF SchedulerInv, SchedulerTypeOK, ServedInTime, Off
<1>2. QED
  BY <1>1, SchedulerInvariant, PTL

\* The timer and the two flags implement the contract of Coalescing.
THEOREM SchedulerCoalesces == SchedulerSpec => Contract!Spec
<1>1. SchedulerInit => Contract!Init
  BY DEF SchedulerInit, Contract!Init
<1>2. SchedulerInv /\ [SchedulerNext]_schedulerVars => [Contract!Next]_(Contract!vars)
  <2> SUFFICES ASSUME SchedulerInv, [SchedulerNext]_schedulerVars
               PROVE  Contract!Next \/ UNCHANGED Contract!vars
    OBVIOUS
  <2> USE SchedulerAssumption
      DEF SchedulerInv, SchedulerTypeOK, OnePassAtATime, Off, Contract!Next, Contract!vars
  <2>1. CASE Signal
    BY <2>1 DEF Signal, Schedule, Contract!Ask
  <2>2. CASE StartSweep
    BY <2>2 DEF StartSweep, Schedule, Contract!Start
  <2>3. CASE IntervalElapses
    BY <2>3 DEF IntervalElapses, Schedule, Contract!Ask
  <2>4. CASE StopSweep
    BY <2>4 DEF StopSweep, Contract!Stop
  <2>5. CASE TimerFires
    BY <2>5 DEF TimerFires, Contract!Begin
  <2>6. ASSUME NEW again \in BOOLEAN, PassEnds(again) PROVE Contract!Next
    BY <2>6 DEF PassEnds, Contract!End
  <2>7. CASE TimePasses
    BY <2>7 DEF TimePasses, Later
  <2>8. CASE UNCHANGED schedulerVars
    BY <2>8 DEF schedulerVars
  <2>9. QED
    BY <2>1, <2>2, <2>3, <2>4, <2>5, <2>6, <2>7, <2>8 DEF SchedulerNext
<1>3. QED
  BY <1>1, <1>2, SchedulerInvariant, PTL DEF SchedulerSpec, Contract!Spec

=============================================================================
