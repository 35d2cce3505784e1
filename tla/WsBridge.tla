------------------------------ MODULE WsBridge ------------------------------
(***************************************************************************)
(* One bridge of the proxy, server/src/routers/wsProxy.ts: the browser's   *)
(* socket (the client leg), the socket the proxy dials to Hermes for it    *)
(* (the upstream leg), and what happens to the frames of either while a    *)
(* token is looked for, the upstream leg opens, a reader stalls, a leg     *)
(* ends or its peer vanishes.                                              *)
(*                                                                         *)
(* A frame is its number and whether it is binary.  The size of a queue is *)
(* the number of its frames.                                               *)
(***************************************************************************)
EXTENDS Integers, Sequences, SequencesExt

CONSTANTS
  MaxPending,   \* MAX_PENDING_FRAMES
  MaxBuffered,  \* MAX_BUFFERED_BYTES
  Stall,        \* CLIENT_STALL_BYTES
  MaxUp,        \* bound on the frames a browser sends
  MaxDown       \* bound on the frames Hermes sends

ASSUME BridgeAssumption ==
  /\ MaxPending \in Nat \ {0} /\ MaxBuffered \in Nat /\ Stall \in 0..MaxBuffered
  /\ MaxUp \in Nat /\ MaxDown \in Nat

Frame(n) == [n |-> n, binary |-> n % 2 = 0]
Frames == {Frame(n) : n \in 1..(MaxUp + MaxDown)}
Keepalive == [n |-> 0, binary |-> FALSE]

VARIABLES
  rpc,                   \* the path is a stream of JSON, not of audio
  browser, hermes,       \* the peers: "here", "left" (it closed) or "gone"
  client, upstream,      \* readyState of the legs; "none" before the dial
  dialling,              \* openUpstream() waits for a token
  upstreamOpen, abandoned, pending, ping,
  \* queues in order of travel: to the proxy, and from it to the reader
  upIn, upOut, downIn, downOut,
  \* what the peers wrote and read
  upSent, upGot, downSent, downGot

peers == <<rpc, browser, hermes>>
legs == <<client, upstream, dialling, upstreamOpen, abandoned, ping>>
up == <<pending, upIn, upOut>>
down == <<downIn, downOut>>
ends == <<upSent, upGot, downSent, downGot>>
bridgeVars == <<peers, legs, up, down, ends>>

BridgeInit ==
  /\ rpc \in BOOLEAN
  /\ browser = "here" /\ hermes = "here"
  /\ client = "open" /\ upstream = "none" /\ dialling = TRUE
  /\ upstreamOpen = FALSE /\ abandoned = FALSE /\ ping = TRUE
  /\ pending = <<>>
  /\ upIn = <<>> /\ upOut = <<>> /\ downIn = <<>> /\ downOut = <<>>
  /\ upSent = <<>> /\ upGot = <<>> /\ downSent = <<>> /\ downGot = <<>>

-----------------------------------------------------------------------------
(* closeBoth(): a leg that is open says goodbye behind what it has queued, one *)
(* that is connecting is given up.                                             *)

Closing(leg) ==
  CASE leg = "open" -> "closing"
    [] leg = "connecting" -> "closed"
    [] OTHER -> leg

CloseBoth(c, u) ==
  /\ abandoned' = TRUE
  /\ pending' = <<>>
  /\ client' = Closing(c)
  /\ upstream' = Closing(u)

-----------------------------------------------------------------------------
(* The upstream leg opens. *)

\* Mutated: dials although the phone hung up meanwhile.
TokenArrivesBlind ==
  /\ dialling /\ dialling' = FALSE
  /\ upstream' = "connecting"
  /\ UNCHANGED <<peers, client, upstreamOpen, abandoned, ping, up, down, ends>>

\* The token is there; the phone may have hung up meanwhile.
TokenArrives ==
  /\ dialling /\ dialling' = FALSE
  /\ upstream' = IF abandoned \/ client = "closed" THEN "none" ELSE "connecting"
  /\ UNCHANGED <<peers, client, upstreamOpen, abandoned, ping, up, down, ends>>

\* Mutated: what was held goes as binary.
UpstreamOpensUntyped ==
  /\ upstream = "connecting" /\ upstream' = "open"
  /\ upstreamOpen' = TRUE
  /\ upOut' = upOut \o [i \in DOMAIN pending |-> [pending[i] EXCEPT !.binary = TRUE]]
  /\ pending' = <<>>
  /\ UNCHANGED <<peers, client, dialling, abandoned, ping, upIn, down, ends>>

\* What was held goes first.
UpstreamOpens ==
  /\ upstream = "connecting" /\ upstream' = "open"
  /\ upstreamOpen' = TRUE
  /\ upOut' = upOut \o pending
  /\ pending' = <<>>
  /\ UNCHANGED <<peers, client, dialling, abandoned, ping, upIn, down, ends>>

UpstreamRefused ==
  /\ upstream = "connecting"
  /\ CloseBoth(client, "closed")
  /\ UNCHANGED <<peers, dialling, upstreamOpen, ping, upIn, upOut, down, ends>>

-----------------------------------------------------------------------------
(* Frames. *)

BrowserSends ==
  /\ browser = "here" /\ Len(upSent) < MaxUp
  /\ LET f == Frame(Len(upSent) + 1)
     IN  upSent' = Append(upSent, f) /\ upIn' = Append(upIn, f)
  /\ UNCHANGED <<peers, legs, pending, upOut, down, upGot, downSent, downGot>>

Held(f) ==
  /\ ~upstreamOpen
  /\ IF Len(pending) >= MaxPending THEN CloseBoth(client, upstream)
     ELSE pending' = Append(pending, f) /\ UNCHANGED <<client, upstream, abandoned>>
  /\ UNCHANGED upOut

\* A leg that is closing takes nothing more.
SentOn(f) ==
  /\ upstreamOpen
  /\ IF Len(upOut) > MaxBuffered
     THEN CloseBoth(client, upstream) /\ UNCHANGED upOut
     ELSE /\ upOut' = IF upstream = "open" THEN Append(upOut, f) ELSE upOut
          /\ UNCHANGED <<client, upstream, abandoned, pending>>

ClientMessage ==
  /\ client # "closed" /\ upIn # <<>>
  /\ upIn' = Tail(upIn)
  /\ Held(Head(upIn)) \/ SentOn(Head(upIn))
  /\ UNCHANGED <<peers, dialling, upstreamOpen, ping, down, ends>>

HermesReads ==
  /\ hermes = "here" /\ upOut # <<>>
  /\ upGot' = Append(upGot, Head(upOut)) /\ upOut' = Tail(upOut)
  /\ UNCHANGED <<peers, legs, pending, upIn, down, upSent, downSent, downGot>>

HermesSends ==
  /\ hermes = "here" /\ upstream = "open" /\ Len(downSent) < MaxDown
  /\ LET f == Frame(Len(downSent) + 1)
     IN  downSent' = Append(downSent, f) /\ downIn' = Append(downIn, f)
  /\ UNCHANGED <<peers, legs, up, downOut, upSent, upGot, downGot>>

UpstreamMessage ==
  /\ upstream \in {"open", "closing"} /\ downIn # <<>>
  /\ downIn' = Tail(downIn)
  /\ IF client = "open" /\ Len(downOut) > MaxBuffered
     THEN CloseBoth(client, upstream) /\ UNCHANGED downOut
     ELSE /\ downOut' = IF client = "open" THEN Append(downOut, Head(downIn)) ELSE downOut
          /\ UNCHANGED <<client, upstream, abandoned, pending>>
  /\ UNCHANGED <<peers, dialling, upstreamOpen, ping, upIn, upOut, ends>>

\* The client of a stream of JSON skips an empty line; a stream of audio has no
\* frame a client would skip.
BrowserReads ==
  /\ browser = "here" /\ downOut # <<>>
  /\ downOut' = Tail(downOut)
  /\ downGot' = IF rpc /\ Head(downOut) = Keepalive THEN downGot
                ELSE Append(downGot, Head(downOut))
  /\ UNCHANGED <<peers, legs, up, downIn, upSent, upGot, downSent>>

-----------------------------------------------------------------------------
(* The keepalive, whose tick also finds a reader that stopped. *)

Terminate ==
  /\ ping' = FALSE
  /\ CloseBoth("closed", upstream)
  /\ upIn' = <<>> /\ downOut' = <<>>
  /\ UNCHANGED <<upOut, downIn>>

KeepaliveFrame == IF rpc THEN <<Keepalive>> ELSE <<>>

PingFires ==
  /\ ping /\ client = "open"
  /\ IF Len(downOut) > Stall THEN Terminate
     ELSE /\ Keepalive \notin ToSet(downOut)   \* a bound: one waits at a time
          /\ downOut' = downOut \o KeepaliveFrame
          /\ UNCHANGED <<client, upstream, abandoned, ping, up, downIn>>
  /\ UNCHANGED <<peers, dialling, upstreamOpen, ends>>

-----------------------------------------------------------------------------
(* The legs end. *)

\* 'close' of the client leg: its peer closed or answered a close, behind the
\* frames it had sent; or the connection was lost with what was on it.
ClientClosed(lost) ==
  /\ client # "closed"
  /\ IF lost THEN upIn' = <<>> /\ downOut' = <<>>
     ELSE /\ upIn = <<>>
          /\ browser = "left" \/ (client = "closing" /\ downOut = <<>>)
          /\ downOut' = <<>> /\ UNCHANGED upIn
  /\ ping' = FALSE
  /\ CloseBoth("closed", upstream)
  /\ UNCHANGED <<peers, dialling, upstreamOpen, upOut, downIn, ends>>

UpstreamClosed(lost) ==
  /\ upstream \in {"open", "closing"}
  /\ IF lost THEN upOut' = <<>> /\ downIn' = <<>>
     ELSE /\ downIn = <<>>
          /\ hermes = "left" \/ (upstream = "closing" /\ upOut = <<>>)
          /\ upOut' = <<>> /\ UNCHANGED downIn
  /\ CloseBoth(client, "closed")
  /\ UNCHANGED <<peers, dialling, upstreamOpen, ping, upIn, downOut, ends>>

BrowserEnds ==
  /\ browser = "here" /\ browser' \in {"left", "gone"}
  /\ UNCHANGED <<rpc, hermes, legs, up, down, ends>>

HermesEnds ==
  /\ hermes = "here" /\ upstreamOpen
  /\ hermes' = "left"
  /\ UNCHANGED <<rpc, browser, legs, up, down, ends>>

-----------------------------------------------------------------------------
BridgeNext ==
  \/ TokenArrives \/ UpstreamOpens \/ UpstreamRefused
  \/ BrowserSends \/ ClientMessage \/ HermesReads
  \/ HermesSends \/ UpstreamMessage \/ BrowserReads
  \/ PingFires
  \/ \E lost \in BOOLEAN : ClientClosed(lost) \/ UpstreamClosed(lost)
  \/ BrowserEnds \/ HermesEnds

BridgeSpec == BridgeInit /\ [][BridgeNext]_bridgeVars

\* A token is found or given up after five seconds, a dial over loopback is
\* answered, what arrived is handled and peers that are here read.  A leg told to
\* close is destroyed after ws's own time-out, and a connection whose peer is gone
\* is found out by TCP's keepalive.
BridgeFairness ==
  /\ WF_bridgeVars(TokenArrives)
  /\ WF_bridgeVars(UpstreamOpens \/ UpstreamRefused)
  /\ WF_bridgeVars(ClientMessage) /\ WF_bridgeVars(UpstreamMessage)
  /\ WF_bridgeVars(HermesReads) /\ WF_bridgeVars(BrowserReads)
  /\ WF_bridgeVars((client = "closing" \/ browser # "here") /\ \E lost \in BOOLEAN : ClientClosed(lost))
  /\ WF_bridgeVars((upstream = "closing" \/ hermes # "here") /\ \E lost \in BOOLEAN : UpstreamClosed(lost))

FairBridgeSpec == BridgeSpec /\ BridgeFairness

-----------------------------------------------------------------------------
(* Properties. *)

Broken == abandoned \/ browser # "here" \/ hermes # "here"

\* Either direction is a pipe: what the browser sends before the upstream leg is
\* up, after it, and while it is being opened reaches Hermes in order and as it
\* was, text or binary, unless the bridge comes down; a keepalive is no part of
\* what a client reads.
Up == INSTANCE Pipe WITH sent <- upSent, got <- upGot, broken <- Broken
Down == INSTANCE Pipe WITH sent <- downSent, got <- downGot, broken <- Broken

TwoPipes == Up!LiveSpec /\ Down!LiveSpec

\* Neither leg outlives the other: not when the phone hangs up while a token is
\* being found, not when the buffer overflows before there is a second leg, not
\* when a reader stalls or vanishes.
BothOver == client = "closed" /\ ~dialling /\ upstream \in {"none", "closed"}
EndTogether == (client # "open" \/ upstream \in {"closing", "closed"}) ~> BothOver

\* However slow a reader, the proxy holds no more than its limits allow.
QueuesAreBounded ==
  /\ Len(pending) <= MaxPending
  /\ Len(upOut) <= MaxBuffered + 1 + MaxPending
  /\ Len(downOut) <= MaxBuffered + 2

=============================================================================
