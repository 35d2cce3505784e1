----------------------------- MODULE SocketProofs -----------------------------
(***************************************************************************)
(* What holds at both ends of the app's stream, in two parts.              *)
(*                                                                         *)
(* The bridge of the proxy, for every limit of its queues and however much *)
(* its peers send.  The argument: frames are numbered by their writer, and *)
(* everything the bridge holds is a stretch of consecutive numbers, each   *)
(* stretch beginning where the one ahead of it ends; on the way to the     *)
(* phone, keepalives may lie in between.  A bridge that comes down leaves  *)
(* a gap, and forwards nothing from behind it.                             *)
(*                                                                         *)
(* The app's sockets and calls, for every number of sockets, of calls, of  *)
(* outages and of failures before the gate is asked.  The argument: the    *)
(* socket the client holds always exists and always has its handlers, so   *)
(* it cannot end without the client being told, and a socket the client    *)
(* lets go of is closing from that very step.                              *)
(***************************************************************************)
EXTENDS WsBridge, WsClient, SequenceTheorems, TLAPS

-----------------------------------------------------------------------------
(* The bridge. *)

FrameType == [n : Nat, binary : BOOLEAN]

\* The frames of s are those that follow the a-th.
Following(a, s) == \A i \in 1..Len(s) : s[i] = Frame(a + i)

\* The phases of the two legs.
LegsInv ==
  /\ client \in {"open", "closing", "closed"}
  /\ upstream \in {"none", "connecting", "open", "closing", "closed"}
  /\ {rpc, dialling, upstreamOpen, abandoned, ping} \subseteq BOOLEAN
  /\ abandoned => client # "open" /\ upstream \notin {"connecting", "open"}
  /\ ~abandoned => client = "open" /\ upstream \in {"none", "connecting", "open"}
  /\ upstreamOpen => upstream \in {"open", "closing", "closed"}
  /\ ~upstreamOpen => upstream # "open"
  /\ dialling => upstream = "none"

\* What is on its way to Hermes.
UpInv ==
  /\ {upSent, upGot, upOut, upIn, pending} \subseteq Seq(FrameType)
  /\ Following(0, upSent) /\ Following(0, upGot)
  /\ Following(Len(upGot), upOut)
  /\ Following(Len(upSent) - Len(upIn), upIn)
  /\ Len(upIn) <= Len(upSent)
  /\ Len(upGot) + Len(upOut) <= Len(upSent)
  /\ ~abandoned =>
       /\ Following(Len(upGot) + Len(upOut), pending)
       /\ Len(upGot) + Len(upOut) + Len(pending) + Len(upIn) = Len(upSent)

\* What the proxy holds of it.
HeldInv ==
  /\ upstreamOpen => pending = <<>>
  /\ ~upstreamOpen => upOut = <<>>
  /\ QueuesAreBounded
  /\ {downSent, downGot, downIn, downOut} \subseteq Seq(FrameType)

-----------------------------------------------------------------------------

LEMMA FrameFacts ==
  ASSUME NEW n \in Nat \ {0}
  PROVE  Frame(n) \in FrameType /\ Frame(n) # Keepalive
BY DEF Frame, FrameType, Keepalive

LEMMA LegsInit == BridgeInit => LegsInv
BY DEF BridgeInit, LegsInv

LEMMA LegsNext == LegsInv /\ [BridgeNext]_bridgeVars => LegsInv'
<1> SUFFICES ASSUME LegsInv, [BridgeNext]_bridgeVars PROVE LegsInv'
  OBVIOUS
<1>1. ASSUME NEW c \in {client, "closed"}, NEW u \in {upstream, "closed"}, CloseBoth(c, u),
             UNCHANGED <<rpc, dialling, upstreamOpen>>, ping' \in BOOLEAN,
             u = "closed" => ~dialling
      PROVE  LegsInv'
  BY <1>1 DEF LegsInv, CloseBoth, Closing
<1>2. CASE UNCHANGED <<rpc, legs>>
  BY <1>2 DEF LegsInv, legs
<1>3. CASE TokenArrives
  BY <1>3 DEF LegsInv, TokenArrives, peers
<1>4. CASE UpstreamOpens
  BY <1>4 DEF LegsInv, UpstreamOpens, peers
<1>5. CASE UpstreamRefused
  BY <1>1, <1>5 DEF LegsInv, UpstreamRefused, peers
<1>6. CASE ClientMessage
  BY <1>1, <1>2, <1>6 DEF LegsInv, ClientMessage, Held, SentOn, peers, legs
<1>7. CASE UpstreamMessage
  BY <1>1, <1>2, <1>7 DEF LegsInv, UpstreamMessage, peers, legs
<1>8. CASE PingFires
  BY <1>1, <1>2, <1>8 DEF LegsInv, PingFires, Terminate, peers, legs
<1>9. ASSUME NEW lost \in BOOLEAN, ClientClosed(lost)
      PROVE  LegsInv'
  BY <1>1, <1>9 DEF LegsInv, ClientClosed, peers
<1>10. ASSUME NEW lost \in BOOLEAN, UpstreamClosed(lost)
       PROVE  LegsInv'
  BY <1>1, <1>10 DEF LegsInv, UpstreamClosed, peers
<1>11. CASE BrowserSends \/ HermesReads \/ HermesSends \/ BrowserReads
  BY <1>2, <1>11 DEF BrowserSends, HermesReads, HermesSends, BrowserReads, peers
<1>12. CASE BrowserEnds \/ HermesEnds
  BY <1>2, <1>12 DEF BrowserEnds, HermesEnds
<1>13. CASE UNCHANGED bridgeVars
  BY <1>2, <1>13 DEF bridgeVars, peers
<1>14. QED
  BY <1>3, <1>4, <1>5, <1>6, <1>7, <1>8, <1>9, <1>10, <1>11, <1>12, <1>13 DEF BridgeNext

LEMMA LegsInvariant == BridgeSpec => []LegsInv
BY LegsInit, LegsNext, PTL DEF BridgeSpec

-----------------------------------------------------------------------------
(* Stretches of frames. *)

LEMMA FollowingAppend ==
  ASSUME NEW a \in Nat, NEW s \in Seq(FrameType), Following(a, s)
  PROVE  /\ Append(s, Frame(a + Len(s) + 1)) \in Seq(FrameType)
         /\ Following(a, Append(s, Frame(a + Len(s) + 1)))
         /\ Len(Append(s, Frame(a + Len(s) + 1))) = Len(s) + 1
<1> DEFINE f == Frame(a + Len(s) + 1)
<1>1. f \in FrameType /\ Len(s) \in Nat
  BY FrameFacts
<1>2. f = Frame(a + (Len(s) + 1))
  BY <1>1
<1> HIDE DEF f
<1>3. /\ Append(s, f) \in Seq(FrameType) /\ Len(Append(s, f)) = Len(s) + 1
      /\ \A i \in 1..Len(s) : Append(s, f)[i] = s[i]
      /\ Append(s, f)[Len(s) + 1] = f
  BY <1>1, AppendProperties
<1>4. Following(a, Append(s, f))
  BY <1>1, <1>2, <1>3 DEF Following
<1>5. QED
  BY <1>3, <1>4 DEF f

LEMMA FollowingTail ==
  ASSUME NEW a \in Nat, NEW s \in Seq(FrameType), Following(a, s), s # <<>>
  PROVE  /\ Tail(s) \in Seq(FrameType) /\ Len(Tail(s)) = Len(s) - 1 /\ Len(s) \in Nat \ {0}
         /\ Following(a + 1, Tail(s))
         /\ Head(s) = Frame(a + 1) /\ Head(s) \in FrameType
<1>1. /\ Tail(s) \in Seq(FrameType) /\ Len(Tail(s)) = Len(s) - 1 /\ Head(s) \in FrameType
      /\ \A i \in 1..Len(Tail(s)) : Tail(s)[i] = s[i + 1]
  BY HeadTailProperties
<1>2. Len(s) \in Nat \ {0} /\ Head(s) = s[1]
  BY EmptySeq
<1>3. Head(s) = Frame(a + 1)
  BY <1>2 DEF Following
<1>4. ASSUME NEW i \in 1..Len(Tail(s)) PROVE Tail(s)[i] = Frame(a + 1 + i)
  <2>1. i + 1 \in 1..Len(s) /\ a + (i + 1) = a + 1 + i
    BY <1>1, <1>2
  <2>2. QED
    BY <1>1, <2>1 DEF Following
<1>5. QED
  BY <1>1, <1>2, <1>3, <1>4 DEF Following

LEMMA FollowingConcat ==
  ASSUME NEW a \in Nat, NEW s \in Seq(FrameType), NEW t \in Seq(FrameType),
         Following(a, s), Following(a + Len(s), t)
  PROVE  /\ s \o t \in Seq(FrameType) /\ Len(s \o t) = Len(s) + Len(t)
         /\ Following(a, s \o t)
<1>1. /\ s \o t \in Seq(FrameType) /\ Len(s \o t) = Len(s) + Len(t)
      /\ \A i \in 1 .. Len(s) + Len(t) :
           (s \o t)[i] = IF i <= Len(s) THEN s[i] ELSE t[i - Len(s)]
  BY ConcatProperties
<1>2. Len(s) \in Nat /\ Len(t) \in Nat
  OBVIOUS
<1>3. ASSUME NEW i \in 1..Len(s \o t) PROVE (s \o t)[i] = Frame(a + i)
  <2>1. CASE i <= Len(s)
    BY <1>1, <1>2, <2>1 DEF Following
  <2>2. CASE ~(i <= Len(s))
    <3>1. i - Len(s) \in 1..Len(t) /\ a + Len(s) + (i - Len(s)) = a + i
      BY <1>1, <1>2, <2>2
    <3>2. QED
      BY <1>1, <1>2, <2>2, <3>1 DEF Following
  <2>3. QED
    BY <2>1, <2>2
<1>4. QED
  BY <1>1, <1>3 DEF Following

LEMMA FollowingNothing ==
  ASSUME NEW a
  PROVE  Following(a, <<>>) /\ <<>> \in Seq(FrameType) /\ Len(<<>>) = 0
BY DEF Following

-----------------------------------------------------------------------------
(* To Hermes. *)

LEMMA UpInit == BridgeInit => UpInv
<1> SUFFICES ASSUME BridgeInit PROVE UpInv
  OBVIOUS
<1>1. /\ upSent = <<>> /\ upGot = <<>> /\ upOut = <<>> /\ upIn = <<>> /\ pending = <<>>
      /\ Len(<<>>) = 0
  BY DEF BridgeInit
<1>2. Following(0, <<>>) /\ <<>> \in Seq(FrameType)
  BY FollowingNothing
<1>3. 0 - 0 = 0 /\ 0 + 0 = 0
  OBVIOUS
<1>4. QED
  BY <1>1, <1>2, <1>3 DEF UpInv

LEMMA UpLengths ==
  ASSUME UpInv
  PROVE  /\ Len(upSent) \in Nat /\ Len(upGot) \in Nat /\ Len(upOut) \in Nat
         /\ Len(upIn) \in Nat /\ Len(pending) \in Nat
         /\ Len(upSent) - Len(upIn) \in Nat
BY DEF UpInv

\* A bridge that is down, or comes down, may lose what it holds; nothing more
\* is sent on.
LEMMA UpLoses ==
  ASSUME UpInv, abandoned', UNCHANGED <<upSent, upGot>>,
         upOut' = upOut \/ upOut' = <<>>,
         upIn' = upIn \/ upIn' = <<>> \/ (upIn # <<>> /\ upIn' = Tail(upIn)),
         pending' \in Seq(FrameType)
  PROVE  UpInv'
<1>1. /\ Len(<<>>) = 0 /\ <<>> \in Seq(FrameType) /\ \A a : Following(a, <<>>)
  BY FollowingNothing
<1>2. /\ upOut' \in Seq(FrameType) /\ Following(Len(upGot), upOut')
      /\ Len(upGot) + Len(upOut') <= Len(upSent)
  <2>1. CASE upOut' = upOut
    BY <2>1 DEF UpInv
  <2>2. CASE upOut' = <<>>
    <3>1. Len(upOut') = 0 /\ upOut' \in Seq(FrameType) /\ Following(Len(upGot), upOut')
      BY <1>1, <2>2
    <3>2. Len(upGot) + 0 <= Len(upSent)
      BY UpLengths DEF UpInv
    <3>3. QED
      BY <3>1, <3>2
  <2>3. QED
    BY <2>1, <2>2
<1>3. /\ upIn' \in Seq(FrameType) /\ Following(Len(upSent) - Len(upIn'), upIn')
      /\ Len(upIn') <= Len(upSent)
  <2>1. CASE upIn' = upIn
    BY <2>1 DEF UpInv
  <2>2. CASE upIn' = <<>>
    BY <1>1, <2>2, UpLengths DEF UpInv
  <2>3. CASE upIn # <<>> /\ upIn' = Tail(upIn)
    <3> DEFINE a == Len(upSent) - Len(upIn)
    <3>1. a \in Nat /\ upIn \in Seq(FrameType) /\ Following(a, upIn)
      BY UpLengths DEF UpInv
    <3>2. /\ Tail(upIn) \in Seq(FrameType) /\ Len(Tail(upIn)) = Len(upIn) - 1
          /\ Following(a + 1, Tail(upIn))
      BY <2>3, <3>1, FollowingTail
    <3>3. a + 1 = Len(upSent) - (Len(upIn) - 1) /\ Len(upIn) - 1 <= Len(upSent)
      BY UpLengths DEF UpInv
    <3>4. QED
      BY <2>3, <3>2, <3>3
  <2>4. QED
    BY <2>1, <2>2, <2>3
<1>4. QED
  BY <1>2, <1>3 DEF UpInv

LEMMA UpKeeps ==
  ASSUME UpInv, UNCHANGED <<upSent, upGot, upOut, upIn, pending, abandoned>>
  PROVE  UpInv'
BY DEF UpInv

LEMMA BrowserSendsKeeps ==
  ASSUME UpInv, BrowserSends
  PROVE  UpInv'
<1> DEFINE f == Frame(Len(upSent) + 1)
           a == Len(upSent) - Len(upIn)
<1>1. /\ upSent' = Append(upSent, f) /\ upIn' = Append(upIn, f)
      /\ UNCHANGED <<upGot, upOut, pending, abandoned>>
  BY DEF BrowserSends, legs
<1>2. upSent \in Seq(FrameType) /\ upIn \in Seq(FrameType) /\ a \in Nat /\ Following(a, upIn)
  BY UpLengths DEF UpInv
<1>3. a + Len(upIn) + 1 = Len(upSent) + 1 /\ 0 + Len(upSent) + 1 = Len(upSent) + 1
  BY UpLengths
<1>4. upSent' \in Seq(FrameType) /\ Following(0, upSent') /\ Len(upSent') = Len(upSent) + 1
  BY <1>1, <1>2, <1>3, FollowingAppend DEF UpInv
<1>5. upIn' \in Seq(FrameType) /\ Following(a, upIn') /\ Len(upIn') = Len(upIn) + 1
  BY <1>1, <1>2, <1>3, FollowingAppend
<1>6. /\ Len(upSent') - Len(upIn') = a /\ Len(upIn') <= Len(upSent')
      /\ Len(upGot) + Len(upOut) <= Len(upSent')
      /\ ~abandoned => Len(upGot) + Len(upOut) + Len(pending) + Len(upIn') = Len(upSent')
  BY <1>4, <1>5, UpLengths DEF UpInv
<1> HIDE DEF f, a
<1>7. QED
  BY <1>1, <1>4, <1>5, <1>6 DEF UpInv

LEMMA UpCount ==
  ASSUME UpInv, ~abandoned
  PROVE  /\ Following(Len(upGot) + Len(upOut), pending)
         /\ Len(upGot) + Len(upOut) + Len(pending) + Len(upIn) = Len(upSent)
BY DEF UpInv

LEMMA ClientMessageKeeps ==
  ASSUME LegsInv, UpInv, HeldInv, ClientMessage
  PROVE  UpInv'
<1> DEFINE f == Head(upIn)
           a == Len(upSent) - Len(upIn)
           b == Len(upGot) + Len(upOut)
<1>1. /\ upIn # <<>> /\ upIn' = Tail(upIn) /\ UNCHANGED <<upSent, upGot>>
      /\ Held(f) \/ SentOn(f)
  BY DEF ClientMessage, ends
<1>2. upIn \in Seq(FrameType) /\ a \in Nat /\ Following(a, upIn)
  BY UpLengths DEF UpInv
<1>3. /\ upIn' \in Seq(FrameType) /\ Len(upIn') = Len(upIn) - 1 /\ Len(upIn) \in Nat \ {0}
      /\ Following(a + 1, upIn') /\ f = Frame(a + 1) /\ f \in FrameType
  BY <1>1, <1>2, FollowingTail
<1>4. a + 1 = Len(upSent) - Len(upIn') /\ Len(upIn') <= Len(upSent)
  BY <1>3, UpLengths DEF UpInv
<1>5. b \in Nat /\ pending \in Seq(FrameType) /\ upOut \in Seq(FrameType) /\ Len(pending) \in Nat
  BY UpLengths DEF UpInv
<1> HIDE DEF f
<1>6. CASE abandoned'
  <2>1. CASE CloseBoth(client, upstream) /\ upOut' = upOut
    <3>1. pending' \in Seq(FrameType)
      BY <2>1, FollowingNothing DEF CloseBoth
    <3>2. QED
      BY <1>1, <1>6, <2>1, <3>1, UpLoses
  <2>2. CASE Held(f) /\ pending' = Append(pending, f)
    <3>1. pending' \in Seq(FrameType)
      BY <1>3, <1>5, <2>2, AppendProperties
    <3>2. upOut' = upOut
      BY <2>2 DEF Held
    <3>3. QED
      BY <1>1, <1>6, <3>1, <3>2, UpLoses
  <2>3. CASE SentOn(f) /\ pending' = pending /\ abandoned' = abandoned
    <3>1. upOut' = upOut
      BY <1>6, <2>3 DEF SentOn, LegsInv, CloseBoth
    <3>2. QED
      BY <1>1, <1>5, <1>6, <2>3, <3>1, UpLoses
  <2>4. QED
    BY <1>1, <2>1, <2>2, <2>3 DEF Held, SentOn
<1>7. CASE ~abandoned' /\ Held(f)
  <2>1. ~abandoned /\ pending' = Append(pending, f) /\ upOut' = upOut
    BY <1>7 DEF Held, CloseBoth
  <2>2. Following(b, pending) /\ b + Len(pending) + Len(upIn) = Len(upSent)
    BY <2>1, UpCount
  <2>3. b + Len(pending) + 1 = a + 1
    BY <1>5, <2>2, UpLengths
  <2> HIDE DEF a, b
  <2>4. f = Frame(b + Len(pending) + 1)
    BY <1>3, <2>3
  <2>5. pending' \in Seq(FrameType) /\ Following(b, pending') /\ Len(pending') = Len(pending) + 1
    BY <1>5, <2>1, <2>2, <2>4, FollowingAppend
  <2>6. b + Len(pending') + Len(upIn') = Len(upSent)
    <3>1. b \in Nat /\ Len(pending) \in Nat /\ Len(upIn) \in Nat
      BY <1>5, UpLengths
    <3>2. b + (Len(pending) + 1) + (Len(upIn) - 1) = Len(upSent)
      BY <2>2, <3>1
    <3>3. QED
      BY <1>3, <2>5, <3>2
  <2>7. Following(Len(upSent) - Len(upIn'), upIn')
    BY <1>3, <1>4
  <2>8. QED
    BY <1>1, <1>3, <1>4, <2>1, <2>5, <2>6, <2>7 DEF UpInv, b
<1>8. CASE ~abandoned' /\ SentOn(f)
  <2>1. /\ ~abandoned /\ upstream = "open" /\ upOut' = Append(upOut, f) /\ pending' = pending
        /\ pending = <<>>
    BY <1>8 DEF SentOn, CloseBoth, LegsInv, HeldInv
  <2>2. Len(pending) = 0 /\ b + Len(pending) + Len(upIn) = Len(upSent)
    BY <2>1, UpCount, FollowingNothing
  <2>3. Len(upGot) + Len(upOut) + 1 = a + 1
    BY <1>5, <2>2, UpLengths
  <2>4. f = Frame(Len(upGot) + Len(upOut) + 1)
    BY <1>3, <2>3
  <2>5. /\ upOut' \in Seq(FrameType) /\ Following(Len(upGot), upOut')
        /\ Len(upOut') = Len(upOut) + 1
    <3>1. Following(Len(upGot), upOut) /\ Len(upGot) \in Nat
      BY UpLengths DEF UpInv
    <3>2. QED
      BY <1>5, <2>1, <2>4, <3>1, FollowingAppend
  <2>6. /\ Len(upGot) + Len(upOut') + Len(pending) + Len(upIn') = Len(upSent)
        /\ Len(upGot) + Len(upOut') <= Len(upSent)
    BY <1>3, <2>2, <2>5, UpLengths
  <2>7. Following(Len(upGot) + Len(upOut'), pending')
    BY <2>1, FollowingNothing
  <2>8. Following(Len(upSent) - Len(upIn'), upIn')
    BY <1>3, <1>4
  <2> HIDE DEF a, b
  <2>9. QED
    BY <1>1, <1>3, <1>4, <1>5, <2>1, <2>5, <2>6, <2>7, <2>8 DEF UpInv
<1>9. QED
  BY <1>1, <1>6, <1>7, <1>8

LEMMA UpstreamOpensKeeps ==
  ASSUME LegsInv, UpInv, UpstreamOpens
  PROVE  UpInv'
<1>1. /\ ~abandoned /\ upOut' = upOut \o pending /\ pending' = <<>>
      /\ UNCHANGED <<upSent, upGot, upIn, abandoned>>
  BY DEF UpstreamOpens, LegsInv, ends
<1>2. /\ upOut' \in Seq(FrameType) /\ Len(upOut') = Len(upOut) + Len(pending)
      /\ Following(Len(upGot), upOut')
  BY <1>1, UpLengths, FollowingConcat DEF UpInv
<1>3. /\ pending' \in Seq(FrameType) /\ Len(pending') = 0
      /\ Following(Len(upGot') + Len(upOut'), pending')
  BY <1>1, FollowingNothing
<1>4. /\ Len(upGot) + Len(upOut') <= Len(upSent)
      /\ Len(upGot) + Len(upOut') + 0 + Len(upIn) = Len(upSent)
  BY <1>1, <1>2, UpLengths DEF UpInv
<1>5. QED
  BY <1>1, <1>2, <1>3, <1>4 DEF UpInv

LEMMA HermesReadsKeeps ==
  ASSUME UpInv, HermesReads
  PROVE  /\ UpInv'
         /\ Len(upGot) < Len(upSent) /\ upGot' = Append(upGot, upSent[Len(upGot) + 1])
<1>1. /\ upOut # <<>> /\ upGot' = Append(upGot, Head(upOut)) /\ upOut' = Tail(upOut)
      /\ UNCHANGED <<upSent, upIn, pending, abandoned>>
  BY DEF HermesReads, legs
<1>2. /\ upOut' \in Seq(FrameType) /\ Len(upOut') = Len(upOut) - 1 /\ Len(upOut) \in Nat \ {0}
      /\ Following(Len(upGot) + 1, upOut') /\ Head(upOut) = Frame(Len(upGot) + 1)
  BY <1>1, UpLengths, FollowingTail DEF UpInv
<1>3. upGot' \in Seq(FrameType) /\ Following(0, upGot') /\ Len(upGot') = Len(upGot) + 1
  <2>1. 0 + Len(upGot) + 1 = Len(upGot) + 1
    BY UpLengths
  <2>2. QED
    BY <1>1, <1>2, <2>1, FollowingAppend DEF UpInv
<1>4. Len(upGot') + Len(upOut') = Len(upGot) + Len(upOut) /\ Len(upGot) < Len(upSent)
  BY <1>2, <1>3, UpLengths DEF UpInv
<1>5. UpInv'
  BY <1>1, <1>2, <1>3, <1>4 DEF UpInv
<1>6. Len(upGot) + 1 \in 1..Len(upSent) /\ 0 + (Len(upGot) + 1) = Len(upGot) + 1
  BY <1>4, UpLengths
<1>7. upSent[Len(upGot) + 1] = Frame(Len(upGot) + 1)
  BY <1>6 DEF UpInv, Following
<1>8. QED
  BY <1>1, <1>2, <1>4, <1>5, <1>7

-----------------------------------------------------------------------------
(* The bridge is a pipe to Hermes. *)

LEMMA HeldInit == BridgeInit => HeldInv
BY FollowingNothing, BridgeAssumption DEF BridgeInit, HeldInv, QueuesAreBounded

\* What is taken off a queue, or lost with it, leaves it as short as it was.
LEMMA Shorter ==
  ASSUME NEW s \in Seq(FrameType), NEW t, t = s \/ t = <<>> \/ (s # <<>> /\ t = Tail(s)),
         NEW m \in Nat, Len(s) <= m
  PROVE  t \in Seq(FrameType) /\ Len(t) <= m
<1>1. CASE t = s
  BY <1>1
<1>2. CASE t = <<>>
  BY <1>2, FollowingNothing
<1>3. CASE s # <<>> /\ t = Tail(s)
  BY <1>3, HeadTailProperties
<1>4. QED
  BY <1>1, <1>2, <1>3

\* What is put on one makes it longer by one.
LEMMA Longer ==
  ASSUME NEW s \in Seq(FrameType), NEW f \in FrameType, NEW m \in Nat, Len(s) <= m
  PROVE  Append(s, f) \in Seq(FrameType) /\ Len(Append(s, f)) <= m + 1
BY AppendProperties

HeldUp ==
  /\ upstreamOpen => pending = <<>>
  /\ ~upstreamOpen => upOut = <<>>
  /\ Len(pending) <= MaxPending /\ Len(upOut) <= MaxBuffered + 1 + MaxPending

HeldDown ==
  /\ Len(downOut) <= MaxBuffered + 2
  /\ {downSent, downGot, downIn, downOut} \subseteq Seq(FrameType)

LEMMA HeldParts == HeldInv <=> HeldUp /\ HeldDown
BY DEF HeldInv, HeldUp, HeldDown, QueuesAreBounded

LEMMA HeldUpNext ==
  ASSUME LegsInv, UpInv, HeldUp, [BridgeNext]_bridgeVars
  PROVE  HeldUp'
<1>1. /\ pending \in Seq(FrameType) /\ upOut \in Seq(FrameType) /\ upIn \in Seq(FrameType)
      /\ MaxPending \in Nat /\ MaxBuffered \in Nat /\ MaxBuffered + 1 + MaxPending \in Nat
  BY BridgeAssumption DEF UpInv
<1>2. ASSUME UNCHANGED upstreamOpen, pending' = pending \/ pending' = <<>>,
             upOut' = upOut \/ upOut' = <<>> \/ (upOut # <<>> /\ upOut' = Tail(upOut))
      PROVE  HeldUp'
  <2>1. Len(pending') <= MaxPending
    BY <1>1, <1>2, Shorter DEF HeldUp
  <2>2. Len(upOut') <= MaxBuffered + 1 + MaxPending
    BY <1>1, <1>2, Shorter DEF HeldUp
  <2>3. QED
    BY <1>2, <2>1, <2>2 DEF HeldUp
<1>3. CASE UpstreamOpens
  <2>1. ~upstreamOpen /\ upstreamOpen' /\ upOut' = <<>> \o pending /\ pending' = <<>>
    BY <1>3 DEF UpstreamOpens, LegsInv, HeldUp
  <2>2. <<>> \o pending = pending /\ Len(pending') = 0
    BY <1>1, <2>1, ConcatEmptySeq, FollowingNothing
  <2>3. Len(pending) \in Nat /\ Len(pending) <= MaxBuffered + 1 + MaxPending
    BY <1>1 DEF HeldUp
  <2>4. QED
    BY <1>1, <2>1, <2>2, <2>3 DEF HeldUp
<1>4. CASE ClientMessage
  <2> DEFINE f == Head(upIn)
  <2>1. f \in FrameType /\ UNCHANGED upstreamOpen /\ (Held(f) \/ SentOn(f))
    BY <1>1, <1>4, HeadTailProperties DEF ClientMessage
  <2> HIDE DEF f
  <2>2. CASE CloseBoth(client, upstream) /\ upOut' = upOut
    BY <1>2, <2>1, <2>2 DEF CloseBoth
  <2>3. CASE ~upstreamOpen /\ upOut' = upOut /\ ~(Len(pending) >= MaxPending)
             /\ pending' = Append(pending, f)
    <3>1. Len(pending') = Len(pending) + 1 /\ Len(pending) \in Nat
      BY <1>1, <2>1, <2>3, AppendProperties
    <3>2. Len(pending') <= MaxPending
      BY <1>1, <2>3, <3>1
    <3>3. QED
      BY <2>1, <2>3, <3>2 DEF HeldUp
  <2>4. CASE upstreamOpen /\ ~(Len(upOut) > MaxBuffered) /\ pending' = pending
             /\ upOut' = Append(upOut, f)
    <3>1. Len(upOut') = Len(upOut) + 1 /\ Len(upOut) \in Nat
      BY <1>1, <2>1, <2>4, AppendProperties
    <3>2. Len(upOut') <= MaxBuffered + 1 + MaxPending
      BY <1>1, <2>4, <3>1
    <3>3. QED
      BY <2>1, <2>4, <3>2 DEF HeldUp
  <2>5. CASE upOut' = upOut /\ pending' = pending
    BY <1>2, <2>1, <2>5
  <2>6. QED
    BY <2>1, <2>2, <2>3, <2>4, <2>5 DEF Held, SentOn
<1>5. CASE HermesReads
  BY <1>2, <1>5 DEF HermesReads, legs
<1>6. ASSUME NEW c, NEW u, CloseBoth(c, u), UNCHANGED upstreamOpen, upOut' = upOut \/ upOut' = <<>>
      PROVE  HeldUp'
  BY <1>2, <1>6 DEF CloseBoth
<1>7. CASE UNCHANGED <<upstreamOpen, pending, upOut>>
  BY <1>2, <1>7
<1>8. CASE TokenArrives \/ BrowserSends \/ HermesSends \/ BrowserReads \/ BrowserEnds \/ HermesEnds
  BY <1>7, <1>8 DEF TokenArrives, BrowserSends, HermesSends, BrowserReads, BrowserEnds, HermesEnds,
    legs, up
<1>9. CASE UpstreamRefused
  BY <1>6, <1>9 DEF UpstreamRefused
<1>10. CASE UpstreamMessage
  BY <1>6, <1>7, <1>10 DEF UpstreamMessage
<1>11. CASE PingFires
  BY <1>6, <1>7, <1>11 DEF PingFires, Terminate, up
<1>12. ASSUME NEW lost \in BOOLEAN, ClientClosed(lost) PROVE HeldUp'
  BY <1>6, <1>12 DEF ClientClosed
<1>13. ASSUME NEW lost \in BOOLEAN, UpstreamClosed(lost) PROVE HeldUp'
  BY <1>6, <1>13 DEF UpstreamClosed
<1>14. CASE UNCHANGED bridgeVars
  BY <1>7, <1>14 DEF bridgeVars, legs, up
<1>15. QED
  BY <1>3, <1>4, <1>5, <1>8, <1>9, <1>10, <1>11, <1>12, <1>13, <1>14 DEF BridgeNext

LEMMA HeldDownNext ==
  ASSUME LegsInv, HeldDown, [BridgeNext]_bridgeVars
  PROVE  HeldDown'
<1>1. /\ downOut \in Seq(FrameType) /\ downIn \in Seq(FrameType)
      /\ downSent \in Seq(FrameType) /\ downGot \in Seq(FrameType)
      /\ MaxBuffered \in Nat /\ Stall \in Nat /\ Stall <= MaxBuffered /\ MaxBuffered + 2 \in Nat
      /\ Len(downOut) <= MaxBuffered + 2 /\ Len(downOut) \in Nat
      /\ Len(downIn) \in Nat /\ Len(downIn) <= Len(downIn)
  BY BridgeAssumption DEF HeldDown
<1>2. ASSUME UNCHANGED <<downSent, downGot>>,
             downOut' = downOut \/ downOut' = <<>>,
             downIn' = downIn \/ downIn' = <<>> \/ (downIn # <<>> /\ downIn' = Tail(downIn))
      PROVE  HeldDown'
  <2>1. downOut' \in Seq(FrameType) /\ Len(downOut') <= MaxBuffered + 2
    BY <1>1, <1>2, Shorter
  <2>2. downIn' \in Seq(FrameType)
    BY <1>1, <1>2, Shorter
  <2>3. QED
    BY <1>1, <1>2, <2>1, <2>2 DEF HeldDown
<1>3. CASE UpstreamMessage
  <2> DEFINE f == Head(downIn)
  <2>1. /\ f \in FrameType /\ downIn # <<>> /\ downIn' = Tail(downIn)
        /\ UNCHANGED <<downSent, downGot>>
    BY <1>1, <1>3, HeadTailProperties DEF UpstreamMessage, ends
  <2>2. downIn' \in Seq(FrameType)
    BY <1>1, <2>1, Shorter
  <2> HIDE DEF f
  <2>3. CASE downOut' = downOut
    BY <1>2, <2>1, <2>3
  <2>4. CASE Len(downOut) <= MaxBuffered /\ downOut' = Append(downOut, f)
    <3>1. /\ downOut' \in Seq(FrameType) /\ Len(downOut') <= MaxBuffered + 1
      BY <1>1, <2>1, <2>4, Longer
    <3>2. Len(downOut') \in Nat
      BY <3>1
    <3>3. Len(downOut') <= MaxBuffered + 2
      BY <1>1, <3>1, <3>2
    <3>4. QED
      BY <1>1, <2>1, <2>2, <3>1, <3>3 DEF HeldDown
  <2>5. downOut' = downOut \/ (Len(downOut) <= MaxBuffered /\ downOut' = Append(downOut, f))
    BY <1>1, <1>3 DEF UpstreamMessage, f
  <2>6. QED
    BY <2>3, <2>4, <2>5
<1>4. CASE HermesSends
  <2>1. /\ downSent' = Append(downSent, Frame(Len(downSent) + 1))
        /\ downIn' = Append(downIn, Frame(Len(downSent) + 1))
        /\ UNCHANGED <<downOut, downGot>>
    BY <1>4 DEF HermesSends
  <2>2. Frame(Len(downSent) + 1) \in FrameType
    BY <1>1, FrameFacts
  <2>3. downSent' \in Seq(FrameType) /\ downIn' \in Seq(FrameType)
    BY <1>1, <2>1, <2>2, AppendProperties
  <2>4. QED
    BY <1>1, <2>1, <2>3 DEF HeldDown
<1>5. CASE BrowserReads
  <2>1. /\ downOut # <<>> /\ downOut' = Tail(downOut) /\ UNCHANGED <<downSent, downIn>>
        /\ downGot' = downGot \/ downGot' = Append(downGot, Head(downOut))
    BY <1>5 DEF BrowserReads
  <2>2. Head(downOut) \in FrameType
    BY <1>1, <2>1, HeadTailProperties
  <2>3. downGot' \in Seq(FrameType)
    <3>1. Append(downGot, Head(downOut)) \in Seq(FrameType)
      BY <1>1, <2>2, AppendProperties
    <3>2. QED
      BY <1>1, <2>1, <3>1
  <2>4. downOut' \in Seq(FrameType) /\ Len(downOut') <= MaxBuffered + 2
    BY <1>1, <2>1, Shorter
  <2>5. QED
    BY <1>1, <2>1, <2>3, <2>4 DEF HeldDown
<1>6. CASE PingFires
  <2>1. UNCHANGED <<downSent, downGot, downIn>>
    BY <1>6 DEF PingFires, Terminate, ends
  <2>2. CASE downOut' = downOut \/ downOut' = <<>>
    BY <1>2, <2>1, <2>2
  <2>3. CASE Len(downOut) <= Stall /\ downOut' = downOut \o <<Keepalive>>
    <3>1. Keepalive \in FrameType
      BY DEF Keepalive, FrameType
    <3>2. <<Keepalive>> \in Seq(FrameType) /\ Len(<<Keepalive>>) = 1
      BY <3>1
    <3>3. downOut' \in Seq(FrameType) /\ Len(downOut') = Len(downOut) + 1
      BY <1>1, <2>3, <3>2, ConcatProperties
    <3>4. Len(downOut') <= MaxBuffered + 2
      BY <1>1, <2>3, <3>3
    <3>5. QED
      BY <1>1, <2>1, <3>3, <3>4 DEF HeldDown
  <2>4. \/ downOut' = <<>>
        \/ ~(Len(downOut) > Stall) /\ downOut' = downOut \o <<>>
        \/ ~(Len(downOut) > Stall) /\ downOut' = downOut \o <<Keepalive>>
    BY <1>6 DEF PingFires, Terminate, KeepaliveFrame
  <2>5. downOut \o <<>> = downOut /\ (~(Len(downOut) > Stall) => Len(downOut) <= Stall)
    BY <1>1, ConcatEmptySeq
  <2>6. QED
    BY <2>2, <2>3, <2>4, <2>5
<1>7. CASE UNCHANGED <<downSent, downGot, downIn, downOut>>
  BY <1>2, <1>7
<1>8. CASE \/ TokenArrives \/ UpstreamOpens \/ UpstreamRefused \/ BrowserSends \/ ClientMessage
           \/ HermesReads \/ BrowserEnds \/ HermesEnds
  BY <1>7, <1>8 DEF TokenArrives, UpstreamOpens, UpstreamRefused, BrowserSends, ClientMessage,
    HermesReads, BrowserEnds, HermesEnds, down, ends
<1>9. ASSUME NEW lost \in BOOLEAN, ClientClosed(lost) PROVE HeldDown'
  BY <1>2, <1>9 DEF ClientClosed, ends
<1>10. ASSUME NEW lost \in BOOLEAN, UpstreamClosed(lost) PROVE HeldDown'
  BY <1>2, <1>10 DEF UpstreamClosed, ends
<1>11. CASE UNCHANGED bridgeVars
  BY <1>7, <1>11 DEF bridgeVars, down, ends
<1>12. QED
  BY <1>3, <1>4, <1>5, <1>6, <1>8, <1>9, <1>10, <1>11 DEF BridgeNext

LEMMA UpNext ==
  ASSUME LegsInv, UpInv, HeldInv, [BridgeNext]_bridgeVars
  PROVE  UpInv'
<1>1. <<>> \in Seq(FrameType)
  BY FollowingNothing
<1>2. CASE UNCHANGED <<upSent, upGot, upOut, upIn, pending, abandoned>>
  BY <1>2, UpKeeps
<1>3. CASE \/ TokenArrives \/ HermesSends \/ BrowserReads \/ BrowserEnds \/ HermesEnds
           \/ UNCHANGED bridgeVars
  BY <1>2, <1>3 DEF TokenArrives, HermesSends, BrowserReads, BrowserEnds, HermesEnds, bridgeVars, legs, up,
    ends
<1>4. ASSUME NEW c, NEW u, CloseBoth(c, u), UNCHANGED <<upSent, upGot>>,
             upOut' = upOut \/ upOut' = <<>>, upIn' = upIn \/ upIn' = <<>>
      PROVE  UpInv'
  BY <1>1, <1>4, UpLoses DEF CloseBoth
<1>5. CASE UpstreamRefused
  BY <1>4, <1>5 DEF UpstreamRefused, ends
<1>6. CASE UpstreamMessage
  <2>1. UNCHANGED <<upSent, upGot, upOut, upIn>>
    BY <1>6 DEF UpstreamMessage, ends
  <2>2. QED
    BY <1>2, <1>4, <1>6, <2>1 DEF UpstreamMessage
<1>7. CASE PingFires
  BY <1>2, <1>4, <1>7 DEF PingFires, Terminate, ends, up
<1>8. ASSUME NEW lost \in BOOLEAN, ClientClosed(lost) PROVE UpInv'
  BY <1>4, <1>8 DEF ClientClosed, ends
<1>9. ASSUME NEW lost \in BOOLEAN, UpstreamClosed(lost) PROVE UpInv'
  BY <1>4, <1>9 DEF UpstreamClosed, ends
<1>10. QED
  BY <1>3, <1>5, <1>6, <1>7, <1>8, <1>9, BrowserSendsKeeps, ClientMessageKeeps, UpstreamOpensKeeps,
     HermesReadsKeeps DEF BridgeNext

LEMMA FrameSent ==
  ASSUME UpInv, BrowserSends
  PROVE  Frame(Len(upSent) + 1) \in Frames
<1>1. Len(upSent) + 1 \in 1..(MaxUp + MaxDown)
  BY UpLengths, BridgeAssumption DEF BrowserSends
<1>2. QED
  BY <1>1 DEF Frames

LEMMA BreaksOnce ==
  ASSUME LegsInv, [BridgeNext]_bridgeVars, Broken
  PROVE  Broken'
BY DEF LegsInv, Broken, BridgeNext, bridgeVars, peers, legs, TokenArrives, UpstreamOpens, UpstreamRefused,
  BrowserSends, ClientMessage, Held, SentOn, HermesReads, HermesSends, UpstreamMessage,
  BrowserReads, PingFires, Terminate, ClientClosed, UpstreamClosed, BrowserEnds, HermesEnds,
  CloseBoth

BridgeInv == LegsInv /\ UpInv /\ HeldInv

LEMMA BridgeInvariant == BridgeSpec => []BridgeInv
<1>1. BridgeInit => BridgeInv
  BY LegsInit, UpInit, HeldInit DEF BridgeInv
<1>2. BridgeInv /\ [BridgeNext]_bridgeVars => BridgeInv'
  <2> SUFFICES ASSUME BridgeInv, [BridgeNext]_bridgeVars PROVE BridgeInv'
    OBVIOUS
  <2>1. LegsInv'
    BY LegsNext DEF BridgeInv
  <2>2. UpInv'
    BY UpNext DEF BridgeInv
  <2>3. HeldInv'
    <3>1. HeldUp' /\ HeldDown'
      BY HeldParts, HeldUpNext, HeldDownNext DEF BridgeInv
    <3>2. HeldUp' /\ HeldDown' => HeldInv'
      BY DEF HeldInv, HeldUp, HeldDown, QueuesAreBounded
    <3>3. QED
      BY <3>1, <3>2
  <2>4. QED
    BY <2>1, <2>2, <2>3 DEF BridgeInv
<1>3. QED
  BY <1>1, <1>2, PTL DEF BridgeSpec

\* However slow a reader, and whatever the limits, what the proxy holds for it is
\* bounded by them: the frames kept while the upstream leg opens, and the queue of
\* either leg (wsProxy.ts, MAX_PENDING_FRAMES and MAX_BUFFERED_BYTES).
THEOREM BridgeQueuesAreBounded == BridgeSpec => []QueuesAreBounded
<1>1. BridgeInv => QueuesAreBounded
  BY DEF BridgeInv, HeldInv
<1>2. QED
  BY <1>1, BridgeInvariant, PTL

\* A phone whose leg is over has no leg to Hermes that is open or being opened: not
\* when it hung up while the token was looked for, nor when its buffer overflowed
\* (closeBoth and openUpstream's look at `abandoned`).
NoOrphanLeg == client # "open" => upstream \notin {"connecting", "open"}

THEOREM BridgeNoOrphanLeg == BridgeSpec => []NoOrphanLeg
<1>1. LegsInv => NoOrphanLeg
  BY DEF LegsInv, NoOrphanLeg
<1>2. QED
  BY <1>1, LegsInvariant, PTL

LEMMA UpStep ==
  ASSUME BridgeInv, [BridgeNext]_bridgeVars
  PROVE  [Up!Next]_Up!vars
<1>1. LegsInv /\ UpInv
  BY DEF BridgeInv
<1>2. CASE BrowserSends
  <2>1. Frame(Len(upSent) + 1) \in Frames
    BY <1>1, <1>2, FrameSent
  <2>2. /\ upSent' = Append(upSent, Frame(Len(upSent) + 1))
        /\ UNCHANGED <<upGot, Broken>>
    BY <1>2 DEF BrowserSends, peers, legs, Broken
  <2>3. Up!Send
    BY <2>1, <2>2 DEF Up!Send
  <2>4. QED
    BY <2>3 DEF Up!Next
<1>3. CASE HermesReads
  <2>1. Len(upGot) < Len(upSent) /\ upGot' = Append(upGot, upSent[Len(upGot) + 1])
    BY <1>1, <1>3, HermesReadsKeeps
  <2>2. UNCHANGED <<upSent, Broken>>
    BY <1>3 DEF HermesReads, peers, legs, Broken
  <2>3. Up!Deliver
    BY <2>1, <2>2 DEF Up!Deliver
  <2>4. QED
    BY <2>3 DEF Up!Next
<1>4. CASE UNCHANGED <<upSent, upGot>>
  <2>1. Broken => Broken'
    BY <1>1, BreaksOnce
  <2>2. Broken \in BOOLEAN /\ Broken' \in BOOLEAN
    BY DEF Broken
  <2>3. CASE Broken' = Broken
    BY <1>4, <2>3 DEF Up!vars
  <2>4. CASE ~Broken /\ Broken'
    BY <1>4, <2>4 DEF Up!Next, Up!Break
  <2>5. QED
    BY <2>1, <2>2, <2>3, <2>4
<1>5. CASE \/ TokenArrives \/ UpstreamOpens \/ UpstreamRefused \/ ClientMessage
           \/ HermesSends \/ UpstreamMessage \/ BrowserReads \/ PingFires
           \/ BrowserEnds \/ HermesEnds \/ UNCHANGED bridgeVars
  BY <1>4, <1>5 DEF TokenArrives, UpstreamOpens, UpstreamRefused, ClientMessage, HermesSends,
    UpstreamMessage, BrowserReads, PingFires, BrowserEnds, HermesEnds, bridgeVars, ends
<1>6. ASSUME NEW lost \in BOOLEAN, ClientClosed(lost) \/ UpstreamClosed(lost)
      PROVE  UNCHANGED <<upSent, upGot>>
  BY <1>6 DEF ClientClosed, UpstreamClosed, ends
<1>7. QED
  BY <1>2, <1>3, <1>4, <1>5, <1>6 DEF BridgeNext

\* However the legs open, stall, end or are lost, what Hermes reads of what the
\* browser wrote is its frames in order, each once and of its own type (the frames
\* held in `pending`, their flush in 'open', and relay afterwards).
THEOREM BridgeUpIsAPipe == BridgeSpec => Up!Spec
<1>1. BridgeInit => Up!Init
  BY DEF BridgeInit, Up!Init, Broken
<1>2. BridgeInv /\ [BridgeNext]_bridgeVars => [Up!Next]_Up!vars
  BY UpStep
<1>3. QED
  BY <1>1, <1>2, BridgeInvariant, PTL DEF BridgeSpec, Up!Spec

-----------------------------------------------------------------------------
(* To the phone, where keepalives go between the frames. *)

\* s takes a reader who has read a frames to b, one by one; one who skips them
\* meets keepalives between the frames.
Relayed(skip, a, s, b) ==
  \E read \in [0..Len(s) -> 0..b] :
    /\ read[0] = a /\ read[Len(s)] = b
    /\ \A i \in 1..Len(s) :
         \/ s[i] = Frame(read[i - 1] + 1) /\ read[i] = read[i - 1] + 1
         \/ skip /\ s[i] = Keepalive /\ read[i] = read[i - 1]

\* The frames that are on the client leg, or were, go to b.
GoesTo(b) ==
  /\ Relayed(rpc, Len(downGot), downOut, b) /\ b <= Len(downSent)
  /\ ~abandoned => b + Len(downIn) = Len(downSent)

DownInv ==
  /\ {downSent, downGot, downOut, downIn} \subseteq Seq(FrameType)
  /\ Following(0, downSent) /\ Following(0, downGot)
  /\ Following(Len(downSent) - Len(downIn), downIn)
  /\ Len(downIn) <= Len(downSent)
  /\ \E b \in Nat : GoesTo(b)

LEMMA RelayedNothing ==
  ASSUME NEW skip, NEW a \in Nat
  PROVE  Relayed(skip, a, <<>>, a)
<1> DEFINE read == [i \in 0..0 |-> a]
<1>1. /\ read \in [0..0 -> 0..a] /\ read[0] = a /\ Len(<<>>) = 0 /\ 1..0 = {}
  OBVIOUS
<1> HIDE DEF read
<1>2. /\ read \in [0..Len(<<>>) -> 0..a] /\ read[0] = a /\ read[Len(<<>>)] = a
      /\ 1..Len(<<>>) = {}
  BY <1>1
<1>3. QED
  BY <1>2 DEF Relayed

\* One more at the end.
LEMMA RelayedAppend ==
  ASSUME NEW skip, NEW a \in Nat, NEW s \in Seq(FrameType), NEW b \in Nat, Relayed(skip, a, s, b),
         NEW f \in FrameType, NEW c \in Nat,
         \/ f = Frame(b + 1) /\ c = b + 1
         \/ skip /\ f = Keepalive /\ c = b
  PROVE  Relayed(skip, a, Append(s, f), c)
<1>1. PICK read \in [0..Len(s) -> 0..b] :
        /\ read[0] = a /\ read[Len(s)] = b
        /\ \A i \in 1..Len(s) :
             \/ s[i] = Frame(read[i - 1] + 1) /\ read[i] = read[i - 1] + 1
             \/ skip /\ s[i] = Keepalive /\ read[i] = read[i - 1]
  BY DEF Relayed
<1> DEFINE t == Append(s, f)
           n == Len(s)
           more == [i \in 0..(n + 1) |-> IF i = n + 1 THEN c ELSE read[i]]
<1>2. /\ n \in Nat /\ Len(t) = n + 1 /\ t[n + 1] = f
      /\ \A i \in 1..n : t[i] = s[i]
  BY AppendProperties
<1>3. b <= c /\ more \in [0..(n + 1) -> 0..c] /\ more[n + 1] = c /\ \A i \in 0..n : more[i] = read[i]
  BY <1>2
<1> HIDE DEF t, n, more
<1>4. ASSUME NEW i \in 1..(n + 1)
      PROVE  \/ t[i] = Frame(more[i - 1] + 1) /\ more[i] = more[i - 1] + 1
             \/ skip /\ t[i] = Keepalive /\ more[i] = more[i - 1]
  <2>1. CASE i \in 1..n
    <3>1. i - 1 \in 0..n /\ i \in 0..n
      BY <1>2, <2>1
    <3>2. t[i] = s[i] /\ more[i] = read[i] /\ more[i - 1] = read[i - 1]
      BY <1>2, <1>3, <2>1, <3>1
    <3>3. \/ s[i] = Frame(read[i - 1] + 1) /\ read[i] = read[i - 1] + 1
          \/ skip /\ s[i] = Keepalive /\ read[i] = read[i - 1]
      BY <1>1, <2>1 DEF n
    <3>4. QED
      BY <3>2, <3>3
  <2>2. CASE i = n + 1
    <3>1. i - 1 = n /\ n \in 0..n
      BY <1>2, <2>2
    <3>2. more[i - 1] = b
      BY <1>1, <1>3, <3>1 DEF n
    <3>3. more[i] = c /\ t[i] = f
      BY <1>2, <1>3, <2>2
    <3>4. CASE f = Frame(b + 1) /\ c = b + 1
      BY <3>2, <3>3, <3>4
    <3>5. CASE skip /\ f = Keepalive /\ c = b
      BY <3>2, <3>3, <3>5
    <3>6. QED
      BY <3>4, <3>5
  <2>3. QED
    BY <1>2, <2>1, <2>2
<1>5. more[0] = a
  BY <1>1, <1>2, <1>3
<1>6. Relayed(skip, a, t, c)
  BY <1>2, <1>3, <1>4, <1>5 DEF Relayed
<1>7. QED
  BY <1>6 DEF t

\* The first one read.
LEMMA RelayedTail ==
  ASSUME NEW skip, NEW a \in Nat, NEW s \in Seq(FrameType), NEW b \in Nat, Relayed(skip, a, s, b), s # <<>>
  PROVE  /\ Tail(s) \in Seq(FrameType)
         /\ \/ Head(s) = Frame(a + 1) /\ a + 1 <= b /\ Relayed(skip, a + 1, Tail(s), b)
            \/ skip /\ Head(s) = Keepalive /\ Relayed(skip, a, Tail(s), b)
<1>1. PICK read \in [0..Len(s) -> 0..b] :
        /\ read[0] = a /\ read[Len(s)] = b
        /\ \A i \in 1..Len(s) :
             \/ s[i] = Frame(read[i - 1] + 1) /\ read[i] = read[i - 1] + 1
             \/ skip /\ s[i] = Keepalive /\ read[i] = read[i - 1]
  BY DEF Relayed
<1> DEFINE t == Tail(s)
           n == Len(s)
           rest == [i \in 0..(n - 1) |-> read[i + 1]]
<1>2. n \in Nat \ {0} /\ Head(s) = s[1]
  BY EmptySeq
<1>3. t \in Seq(FrameType) /\ Len(t) = n - 1 /\ \A i \in 1..Len(t) : t[i] = s[i + 1]
  BY HeadTailProperties
<1>4. rest \in [0..(n - 1) -> 0..b] /\ \A i \in 0..(n - 1) : rest[i] = read[i + 1]
  BY <1>2
<1> HIDE DEF t, n, rest
<1>5. ASSUME NEW i \in 1..(n - 1)
      PROVE  \/ t[i] = Frame(rest[i - 1] + 1) /\ rest[i] = rest[i - 1] + 1
             \/ skip /\ t[i] = Keepalive /\ rest[i] = rest[i - 1]
  <2>1. i - 1 \in 0..(n - 1) /\ i \in 0..(n - 1) /\ i + 1 \in 1..n /\ i - 1 + 1 = i /\ i + 1 - 1 = i
    BY <1>2
  <2>2. rest[i - 1] = read[i] /\ rest[i] = read[i + 1] /\ t[i] = s[i + 1]
    BY <1>3, <1>4, <2>1
  <2>3. \/ s[i + 1] = Frame(read[i] + 1) /\ read[i + 1] = read[i] + 1
        \/ skip /\ s[i + 1] = Keepalive /\ read[i + 1] = read[i]
    BY <1>1, <2>1 DEF n
  <2>4. QED
    BY <2>2, <2>3
<1>6. rest[0] = read[1] /\ rest[n - 1] = b
  <2>1. 0 \in 0..(n - 1) /\ n - 1 \in 0..(n - 1) /\ n - 1 + 1 = n
    BY <1>2
  <2>2. QED
    BY <1>1, <1>4, <2>1 DEF n
<1>7. Relayed(skip, read[1], t, b)
  BY <1>3, <1>4, <1>5, <1>6 DEF Relayed
<1>8. \/ s[1] = Frame(a + 1) /\ read[1] = a + 1 /\ a + 1 <= b
      \/ skip /\ s[1] = Keepalive /\ read[1] = a
  <2>1. 1 \in 1..n /\ 1 - 1 = 0
    BY <1>2
  <2>2. QED
    BY <1>1, <2>1 DEF n
<1>9. QED
  BY <1>2, <1>3, <1>7, <1>8 DEF t

LEMMA DownInit == BridgeInit => DownInv
<1> SUFFICES ASSUME BridgeInit PROVE DownInv
  OBVIOUS
<1>1. /\ downSent = <<>> /\ downGot = <<>> /\ downOut = <<>> /\ downIn = <<>>
      /\ Len(<<>>) = 0
  BY DEF BridgeInit
<1>2. Following(0, <<>>) /\ <<>> \in Seq(FrameType) /\ Relayed(rpc, 0, <<>>, 0)
  BY FollowingNothing, RelayedNothing
<1>3. 0 - 0 = 0 /\ 0 + 0 = 0 /\ 0 \in Nat /\ 0 <= 0
  OBVIOUS
<1>4. GoesTo(0)
  BY <1>1, <1>2, <1>3 DEF GoesTo
<1>5. QED
  BY <1>1, <1>2, <1>3, <1>4 DEF DownInv

LEMMA DownLengths ==
  ASSUME DownInv
  PROVE  /\ Len(downSent) \in Nat /\ Len(downGot) \in Nat /\ Len(downOut) \in Nat
         /\ Len(downIn) \in Nat /\ Len(downSent) - Len(downIn) \in Nat
BY DEF DownInv

LEMMA RelayedGrows ==
  ASSUME NEW skip, NEW a \in Nat, NEW s \in Seq(FrameType), NEW b \in Nat, Relayed(skip, a, s, b)
  PROVE  a <= b
<1>1. PICK read \in [0..Len(s) -> 0..b] : read[0] = a
  BY DEF Relayed
<1>2. 0 \in 0..Len(s)
  OBVIOUS
<1>3. read[0] \in 0..b
  BY <1>1, <1>2
<1>4. QED
  BY <1>1, <1>3

\* A bridge that is down, or comes down, may lose what it holds.
LEMMA DownLoses ==
  ASSUME DownInv, abandoned', UNCHANGED <<rpc, downSent, downGot>>,
         downOut' = downOut \/ downOut' = <<>>,
         downIn' = downIn \/ downIn' = <<>> \/ (downIn # <<>> /\ downIn' = Tail(downIn))
  PROVE  DownInv'
<1>1. /\ Len(<<>>) = 0 /\ <<>> \in Seq(FrameType) /\ \A a : Following(a, <<>>)
  BY FollowingNothing
<1>2. /\ downOut' \in Seq(FrameType)
      /\ \E b \in Nat : Relayed(rpc, Len(downGot), downOut', b) /\ b <= Len(downSent)
  <2>0. PICK b \in Nat : GoesTo(b)
    BY DEF DownInv
  <2>1. Relayed(rpc, Len(downGot), downOut, b) /\ b <= Len(downSent)
    BY <2>0 DEF GoesTo
  <2>2. CASE downOut' = downOut
    <3>1. downOut' \in Seq(FrameType)
      BY <2>2 DEF DownInv
    <3>2. QED
      BY <2>1, <2>2, <3>1
  <2>3. CASE downOut' = <<>>
    <3>1. Len(downGot) <= b
      BY <2>1, DownLengths, RelayedGrows DEF DownInv
    <3>2. Relayed(rpc, Len(downGot), <<>>, Len(downGot)) /\ Len(downGot) <= Len(downSent)
      BY <2>1, <3>1, DownLengths, RelayedNothing
    <3>3. QED
      BY <1>1, <2>3, <3>2, DownLengths
  <2>4. QED
    BY <2>2, <2>3
<1>3. /\ downIn' \in Seq(FrameType) /\ Following(Len(downSent) - Len(downIn'), downIn')
      /\ Len(downIn') <= Len(downSent)
  <2>1. CASE downIn' = downIn
    BY <2>1 DEF DownInv
  <2>2. CASE downIn' = <<>>
    BY <1>1, <2>2, DownLengths DEF DownInv
  <2>3. CASE downIn # <<>> /\ downIn' = Tail(downIn)
    <3> DEFINE a == Len(downSent) - Len(downIn)
    <3>1. a \in Nat /\ downIn \in Seq(FrameType) /\ Following(a, downIn)
      BY DownLengths DEF DownInv
    <3>2. /\ Tail(downIn) \in Seq(FrameType) /\ Len(Tail(downIn)) = Len(downIn) - 1
          /\ Following(a + 1, Tail(downIn))
      BY <2>3, <3>1, FollowingTail
    <3>3. a + 1 = Len(downSent) - (Len(downIn) - 1) /\ Len(downIn) - 1 <= Len(downSent)
      BY DownLengths DEF DownInv
    <3>4. QED
      BY <2>3, <3>2, <3>3
  <2>4. QED
    BY <2>1, <2>2, <2>3
<1>4. \E b \in Nat : GoesTo(b)'
  <2>1. PICK b \in Nat : Relayed(rpc, Len(downGot), downOut', b) /\ b <= Len(downSent)
    BY <1>2
  <2>2. GoesTo(b)'
    BY <2>1 DEF GoesTo
  <2>3. QED
    BY <2>2
<1>5. downSent \in Seq(FrameType) /\ downGot \in Seq(FrameType)
      /\ Following(0, downSent) /\ Following(0, downGot)
  BY DEF DownInv
<1>6. QED
  BY <1>2, <1>3, <1>4, <1>5 DEF DownInv

LEMMA DownKeeps ==
  ASSUME DownInv, UNCHANGED <<rpc, downSent, downGot, downOut, downIn, abandoned>>
  PROVE  DownInv'
BY DEF DownInv, GoesTo

LEMMA HermesSendsKeeps ==
  ASSUME LegsInv, DownInv, HermesSends
  PROVE  DownInv'
<1> DEFINE f == Frame(Len(downSent) + 1)
           a == Len(downSent) - Len(downIn)
<1>1. /\ downSent' = Append(downSent, f) /\ downIn' = Append(downIn, f) /\ ~abandoned
      /\ UNCHANGED <<rpc, downGot, downOut, abandoned>>
  BY DEF HermesSends, peers, legs, LegsInv
<1>2. downSent \in Seq(FrameType) /\ downIn \in Seq(FrameType) /\ a \in Nat /\ Following(a, downIn)
  BY DownLengths DEF DownInv
<1>3. a + Len(downIn) + 1 = Len(downSent) + 1 /\ 0 + Len(downSent) + 1 = Len(downSent) + 1
  BY DownLengths
<1>4. downSent' \in Seq(FrameType) /\ Following(0, downSent') /\ Len(downSent') = Len(downSent) + 1
  BY <1>1, <1>2, <1>3, FollowingAppend DEF DownInv
<1>5. downIn' \in Seq(FrameType) /\ Following(a, downIn') /\ Len(downIn') = Len(downIn) + 1
  BY <1>1, <1>2, <1>3, FollowingAppend
<1>6. Len(downSent') - Len(downIn') = a /\ Len(downIn') <= Len(downSent')
  BY <1>4, <1>5, DownLengths DEF DownInv
<1>7. PICK b \in Nat : GoesTo(b)
  BY DEF DownInv
<1>8. GoesTo(b)'
  <2>1. Relayed(rpc, Len(downGot), downOut, b) /\ b <= Len(downSent) /\ b + Len(downIn) = Len(downSent)
    BY <1>1, <1>7 DEF GoesTo
  <2>2. b + Len(downIn') = Len(downSent') /\ b <= Len(downSent')
    BY <1>4, <1>5, <2>1, DownLengths
  <2>3. QED
    BY <1>1, <2>1, <2>2 DEF GoesTo
<1>9. downGot \in Seq(FrameType) /\ downOut \in Seq(FrameType) /\ Following(0, downGot)
  BY DEF DownInv
<1> HIDE DEF f, a
<1>10. QED
  BY <1>1, <1>4, <1>5, <1>6, <1>8, <1>9 DEF DownInv

LEMMA UpstreamMessageKeeps ==
  ASSUME LegsInv, DownInv, UpstreamMessage
  PROVE  DownInv'
<1> DEFINE a == Len(downSent) - Len(downIn)
<1>1. /\ downIn # <<>> /\ downIn' = Tail(downIn) /\ UNCHANGED <<rpc, downSent, downGot>>
      /\ \/ CloseBoth(client, upstream) /\ downOut' = downOut
         \/ downOut' = downOut /\ abandoned' = abandoned /\ client # "open"
         \/ downOut' = Append(downOut, Head(downIn)) /\ abandoned' = abandoned /\ client = "open"
  BY DEF UpstreamMessage, peers, ends
<1>2. CASE abandoned' /\ downOut' = downOut
  BY <1>1, <1>2, DownLoses
<1>3. CASE downOut' = Append(downOut, Head(downIn)) /\ abandoned' = abandoned /\ client = "open"
  <2>1. ~abandoned
    BY <1>3 DEF LegsInv
  <2>2. a \in Nat /\ downIn \in Seq(FrameType) /\ Following(a, downIn)
    BY DownLengths DEF DownInv
  <2>3. /\ Tail(downIn) \in Seq(FrameType) /\ Len(Tail(downIn)) = Len(downIn) - 1
        /\ Following(a + 1, Tail(downIn))
        /\ Head(downIn) = Frame(a + 1) /\ Head(downIn) \in FrameType /\ Len(downIn) \in Nat \ {0}
    BY <1>1, <2>2, FollowingTail
  <2>4. /\ a + 1 = Len(downSent) - (Len(downIn) - 1) /\ Len(downIn) - 1 <= Len(downSent)
        /\ a + 1 <= Len(downSent) /\ a + 1 + (Len(downIn) - 1) = Len(downSent)
    BY <2>3, DownLengths DEF DownInv
  <2>5. PICK b \in Nat : GoesTo(b)
    BY DEF DownInv
  <2>6. Relayed(rpc, Len(downGot), downOut, b) /\ b + Len(downIn) = Len(downSent) /\ b = a
    BY <2>1, <2>5, DownLengths DEF GoesTo
  <2> HIDE DEF a
  <2>7. downOut \in Seq(FrameType) /\ Len(downGot) \in Nat /\ a + 1 \in Nat
    BY <2>2, DownLengths DEF DownInv
  <2>8. Relayed(rpc, Len(downGot), downOut', a + 1)
    BY <1>3, <2>2, <2>3, <2>6, <2>7, RelayedAppend
  <2>9. downOut' \in Seq(FrameType)
    BY <1>3, <2>3, <2>7, AppendProperties
  <2>10. /\ downSent \in Seq(FrameType) /\ downGot \in Seq(FrameType)
         /\ Following(0, downSent) /\ Following(0, downGot)
    BY DEF DownInv
  <2>11. PICK c \in Nat : c = a + 1
    BY <2>7
  <2>12. c <= Len(downSent) /\ c + Len(downIn') = Len(downSent) /\ Relayed(rpc, Len(downGot), downOut', c)
    BY <1>1, <2>3, <2>4, <2>8, <2>11
  <2>13. GoesTo(c)'
    BY <1>1, <2>12 DEF GoesTo
  <2>14. Following(Len(downSent') - Len(downIn'), downIn') /\ Len(downIn') <= Len(downSent')
    BY <1>1, <2>3, <2>4
  <2>15. QED
    BY <1>1, <2>3, <2>9, <2>10, <2>13, <2>14 DEF DownInv
<1>4. QED
  BY <1>1, <1>2, <1>3 DEF LegsInv, CloseBoth

LEMMA PingFiresKeeps ==
  ASSUME DownInv, PingFires
  PROVE  DownInv'
<1>1. UNCHANGED <<rpc, downSent, downGot>>
  BY DEF PingFires, peers, ends
<1>2. CASE Terminate
  <2>1. abandoned' /\ downOut' = <<>> /\ downIn' = downIn
    BY <1>2 DEF Terminate, CloseBoth
  <2>2. QED
    BY <1>1, <2>1, DownLoses
<1>3. CASE downOut' = downOut \o KeepaliveFrame /\ UNCHANGED <<downIn, abandoned>>
  <2>1. downOut \in Seq(FrameType) /\ Len(downGot) \in Nat
    BY DownLengths DEF DownInv
  <2>2. CASE ~rpc
    <3>1. downOut' = downOut
      BY <1>3, <2>1, <2>2, ConcatEmptySeq DEF KeepaliveFrame
    <3>2. QED
      BY <1>1, <1>3, <3>1, DownKeeps
  <2>3. CASE rpc
    <3>1. Keepalive \in FrameType
      BY DEF Keepalive, FrameType
    <3>2. downOut' = Append(downOut, Keepalive)
      BY <1>3, <2>1, <2>3, <3>1, AppendIsConcat DEF KeepaliveFrame
    <3>3. downOut' \in Seq(FrameType)
      BY <2>1, <3>1, <3>2, AppendProperties
    <3>4. PICK b \in Nat : GoesTo(b)
      BY DEF DownInv
    <3>5. Relayed(rpc, Len(downGot), downOut, b)
      BY <3>4 DEF GoesTo
    <3>6. Relayed(rpc, Len(downGot), downOut', b)
      BY <2>1, <2>3, <3>1, <3>2, <3>5, RelayedAppend
    <3>7. GoesTo(b)'
      BY <1>1, <1>3, <3>4, <3>6 DEF GoesTo
    <3>8. QED
      BY <1>1, <1>3, <3>3, <3>7 DEF DownInv
  <2>4. QED
    BY <2>2, <2>3
<1>4. QED
  BY <1>2, <1>3 DEF PingFires

\* A frame that is no keepalive is the next one of those sent.
LEMMA BrowserReadsKeeps ==
  ASSUME DownInv, BrowserReads
  PROVE  /\ DownInv'
         /\ \/ downGot' = downGot
            \/ Len(downGot) < Len(downSent) /\ downGot' = Append(downGot, downSent[Len(downGot) + 1])
<1> DEFINE a == Len(downGot)
<1>1. /\ downOut # <<>> /\ downOut' = Tail(downOut)
      /\ downGot' = IF rpc /\ Head(downOut) = Keepalive THEN downGot
                    ELSE Append(downGot, Head(downOut))
      /\ UNCHANGED <<rpc, downSent, downIn, abandoned>>
  BY DEF BrowserReads, peers, legs
<1>2. downOut \in Seq(FrameType) /\ a \in Nat /\ downGot \in Seq(FrameType) /\ Following(0, downGot)
  BY DownLengths DEF DownInv
<1>3. PICK b \in Nat : GoesTo(b)
  BY DEF DownInv
<1>8. Relayed(rpc, a, downOut, b) /\ b <= Len(downSent)
  BY <1>3 DEF GoesTo
<1> HIDE DEF a
<1>4. /\ Tail(downOut) \in Seq(FrameType)
      /\ \/ Head(downOut) = Frame(a + 1) /\ a + 1 <= b /\ Relayed(rpc, a + 1, Tail(downOut), b)
         \/ rpc /\ Head(downOut) = Keepalive /\ Relayed(rpc, a, Tail(downOut), b)
  BY <1>1, <1>2, <1>8, RelayedTail
<1>5. CASE rpc /\ Head(downOut) = Keepalive /\ Relayed(rpc, a, Tail(downOut), b)
  <2>1. downGot' = downGot
    BY <1>1, <1>5
  <2>2. GoesTo(b)'
    BY <1>1, <1>3, <1>5, <2>1 DEF GoesTo, a
  <2>3. DownInv'
    BY <1>1, <1>4, <2>1, <2>2 DEF DownInv
  <2>4. QED
    BY <2>1, <2>3
<1>6. CASE Head(downOut) = Frame(a + 1) /\ a + 1 <= b /\ Relayed(rpc, a + 1, Tail(downOut), b)
  <2>1. a + 1 \in Nat \ {0} /\ 0 + a + 1 = a + 1
    BY <1>2
  <2>2. Head(downOut) # Keepalive
    BY <1>6, <2>1, FrameFacts
  <2>3. downGot' = Append(downGot, Frame(a + 1))
    BY <1>1, <1>6, <2>2
  <2>4. downGot' \in Seq(FrameType) /\ Following(0, downGot') /\ Len(downGot') = a + 1
    BY <1>2, <2>1, <2>3, FollowingAppend DEF a
  <2>5. DownInv'
    <3>1. GoesTo(b)'
      BY <1>1, <1>3, <1>6, <2>4 DEF GoesTo
    <3>2. QED
      BY <1>1, <1>4, <2>4, <3>1 DEF DownInv
  <2>6. a + 1 \in 1..Len(downSent) /\ 0 + (a + 1) = a + 1 /\ a < Len(downSent)
    BY <1>2, <1>8, <1>6, DownLengths
  <2>7. downSent[a + 1] = Frame(a + 1)
    BY <2>6 DEF DownInv, Following
  <2>8. QED
    BY <2>3, <2>5, <2>6, <2>7 DEF a
<1>7. QED
  BY <1>4, <1>5, <1>6

LEMMA DownNext ==
  ASSUME LegsInv, DownInv, [BridgeNext]_bridgeVars
  PROVE  DownInv'
<1>1. CASE UNCHANGED <<rpc, downSent, downGot, downOut, downIn, abandoned>>
  BY <1>1, DownKeeps
<1>2. CASE \/ TokenArrives \/ UpstreamOpens \/ BrowserSends \/ HermesReads \/ BrowserEnds
           \/ HermesEnds \/ UNCHANGED bridgeVars
  BY <1>1, <1>2 DEF TokenArrives, UpstreamOpens, BrowserSends, HermesReads, BrowserEnds, HermesEnds,
    bridgeVars, peers, legs, down, ends
<1>3. ASSUME NEW c, NEW u, CloseBoth(c, u), UNCHANGED <<rpc, downSent, downGot>>,
             downOut' = downOut \/ downOut' = <<>>, downIn' = downIn \/ downIn' = <<>>
      PROVE  DownInv'
  BY <1>3, DownLoses DEF CloseBoth
<1>4. CASE UpstreamRefused
  BY <1>3, <1>4 DEF UpstreamRefused, peers, down, ends
<1>5. CASE ClientMessage
  <2>1. UNCHANGED <<rpc, downSent, downGot, downOut, downIn>>
    BY <1>5 DEF ClientMessage, peers, down, ends
  <2>2. QED
    BY <1>1, <1>3, <1>5, <2>1 DEF ClientMessage, Held, SentOn
<1>6. ASSUME NEW lost \in BOOLEAN, ClientClosed(lost) PROVE DownInv'
  BY <1>3, <1>6 DEF ClientClosed, peers, ends
<1>7. ASSUME NEW lost \in BOOLEAN, UpstreamClosed(lost) PROVE DownInv'
  BY <1>3, <1>7 DEF UpstreamClosed, peers, ends
<1>8. QED
  BY <1>2, <1>4, <1>5, <1>6, <1>7, HermesSendsKeeps, UpstreamMessageKeeps, PingFiresKeeps,
     BrowserReadsKeeps DEF BridgeNext

LEMMA DownInvariant == BridgeSpec => [](LegsInv /\ DownInv)
<1>1. BridgeInit => LegsInv /\ DownInv
  BY LegsInit, DownInit
<1>2. LegsInv /\ DownInv /\ [BridgeNext]_bridgeVars => (LegsInv /\ DownInv)'
  BY LegsNext, DownNext
<1>3. QED
  BY <1>1, <1>2, PTL DEF BridgeSpec

LEMMA DownStep ==
  ASSUME LegsInv, DownInv, [BridgeNext]_bridgeVars
  PROVE  [Down!Next]_Down!vars
<1>1. CASE HermesSends
  <2>1. Len(downSent) + 1 \in 1..(MaxUp + MaxDown)
    BY <1>1, DownLengths, BridgeAssumption DEF HermesSends
  <2>2. Frame(Len(downSent) + 1) \in Frames
    BY <2>1 DEF Frames
  <2>3. /\ downSent' = Append(downSent, Frame(Len(downSent) + 1))
        /\ UNCHANGED <<downGot, Broken>>
    BY <1>1 DEF HermesSends, peers, legs, Broken
  <2>4. Down!Send
    BY <2>2, <2>3 DEF Down!Send
  <2>5. QED
    BY <2>4 DEF Down!Next
<1>2. CASE UNCHANGED <<downSent, downGot>>
  <2>1. Broken => Broken'
    BY BreaksOnce
  <2>2. Broken \in BOOLEAN /\ Broken' \in BOOLEAN
    BY DEF Broken
  <2>3. CASE Broken' = Broken
    BY <1>2, <2>3 DEF Down!vars
  <2>4. CASE ~Broken /\ Broken'
    BY <1>2, <2>4 DEF Down!Next, Down!Break
  <2>5. QED
    BY <2>1, <2>2, <2>3, <2>4
<1>3. CASE BrowserReads
  <2>1. UNCHANGED <<downSent, Broken>>
    BY <1>3 DEF BrowserReads, peers, legs, Broken
  <2>2. CASE downGot' = downGot
    BY <1>2, <2>1, <2>2
  <2>3. CASE Len(downGot) < Len(downSent) /\ downGot' = Append(downGot, downSent[Len(downGot) + 1])
    <3>1. Down!Deliver
      BY <2>1, <2>3 DEF Down!Deliver
    <3>2. QED
      BY <3>1 DEF Down!Next
  <2>4. QED
    BY <1>3, <2>2, <2>3, BrowserReadsKeeps
<1>4. CASE \/ TokenArrives \/ UpstreamOpens \/ UpstreamRefused \/ ClientMessage
           \/ BrowserSends \/ UpstreamMessage \/ HermesReads \/ PingFires
           \/ BrowserEnds \/ HermesEnds \/ UNCHANGED bridgeVars
  BY <1>2, <1>4 DEF TokenArrives, UpstreamOpens, UpstreamRefused, ClientMessage, BrowserSends,
    UpstreamMessage, HermesReads, PingFires, BrowserEnds, HermesEnds, bridgeVars, ends
<1>5. ASSUME NEW lost \in BOOLEAN, ClientClosed(lost) \/ UpstreamClosed(lost)
      PROVE  UNCHANGED <<downSent, downGot>>
  BY <1>5 DEF ClientClosed, UpstreamClosed, ends
<1>6. QED
  BY <1>1, <1>2, <1>3, <1>4, <1>5 DEF BridgeNext

\* What the phone reads of what Hermes wrote is its frames in order, each once and of
\* its own type, wherever the keepalive's empty lines fall between them and however
\* the bridge is torn down (relay, and the keepalive that only a stream of JSON gets).
THEOREM BridgeDownIsAPipe == BridgeSpec => Down!Spec
<1>1. BridgeInit => Down!Init
  BY DEF BridgeInit, Down!Init, Broken
<1>2. LegsInv /\ DownInv /\ [BridgeNext]_bridgeVars => [Down!Next]_Down!vars
  BY DownStep
<1>3. QED
  BY <1>1, <1>2, DownInvariant, PTL DEF BridgeSpec, Down!Spec

-----------------------------------------------------------------------------
(* The app's client. *)

\* The client's socket exists and reports to it; only a handshake is suspended
\* on it.
HoldsItsSocket ==
  ws # NoSocket =>
    /\ ws \in attached
    /\ readyState[ws] # "none"
    /\ ws \in suspended => readyState[ws] = "CONNECTING"

ClientInv ==
  /\ TypeOK
  /\ HoldsItsSocket
  /\ OneLiveSocket
  /\ StateIsTrue
  /\ NoSocketNoCalls

-----------------------------------------------------------------------------
(* The Access session. *)

LEMMA AccessKeepsType ==
  ASSUME NEW a \in AccessType, NEW bounced \in BOOLEAN
  PROVE  /\ MarkHostReached(a) \in AccessType
         /\ MarkExpired(a) \in AccessType
         /\ ProbeAccess(a) \in AccessType
         /\ ProbeAnswered(a, bounced) \in AccessType
         /\ ProbeThrew(a) \in AccessType
<1>1. \A b \in AccessType, f \in 0..UnreachableAfter :
        [b EXCEPT !.networkFailures = f] \in AccessType
  BY DEF AccessType
<1>2. \A b \in AccessType, u \in BOOLEAN : [b EXCEPT !.unreachable = u] \in AccessType
  BY DEF AccessType
<1>3. \A b \in AccessType, p \in BOOLEAN : [b EXCEPT !.probing = p] \in AccessType
  BY DEF AccessType
<1>4. \A b \in AccessType : MarkExpired(b) \in AccessType
  BY DEF AccessType, MarkExpired
<1>5. MarkHostReached(a) \in AccessType
  <2>1. MarkHostReached(a) = [[a EXCEPT !.networkFailures = 0] EXCEPT !.unreachable = FALSE]
    BY DEF MarkHostReached
  <2>2. 0 \in 0..UnreachableAfter
    BY DEF UnreachableAfter
  <2>3. QED
    BY <1>1, <1>2, <2>1, <2>2
<1>6. MarkNetworkFailure(a) \in AccessType
  <2> DEFINE failures == IF a.networkFailures < UnreachableAfter THEN a.networkFailures + 1
                         ELSE UnreachableAfter
             counted == [a EXCEPT !.networkFailures = failures]
  <2>1. failures \in 0..UnreachableAfter
    BY DEF AccessType, UnreachableAfter
  <2>2. MarkNetworkFailure(a)
          = [counted EXCEPT !.unreachable = (a.unreachable \/ failures = UnreachableAfter)]
    BY DEF MarkNetworkFailure
  <2> HIDE DEF failures
  <2>3. (a.unreachable \/ failures = UnreachableAfter) \in BOOLEAN
    OBVIOUS
  <2>4. counted \in AccessType
    BY <1>1, <2>1
  <2>5. QED
    BY <1>2, <2>2, <2>3, <2>4
<1>7. ProbeAccess(a) \in AccessType
  BY <1>3 DEF ProbeAccess
<1>8. ProbeAnswered(a, bounced) \in AccessType
  BY <1>3, <1>4, <1>5 DEF ProbeAnswered
<1>9. ProbeThrew(a) \in AccessType
  BY <1>3, <1>6 DEF ProbeThrew
<1>10. QED
  BY <1>4, <1>5, <1>7, <1>8, <1>9

\* Only the gate's own word makes the session an expired one.
LEMMA AccessExpires ==
  ASSUME NEW a \in AccessType, NEW bounced \in BOOLEAN
  PROVE  /\ MarkHostReached(a).expired = a.expired
         /\ ProbeAccess(a).expired = a.expired
         /\ ProbeAnswered(a, bounced).expired => a.expired \/ bounced
         /\ ProbeThrew(a).expired = a.expired
<1>1. \A b \in AccessType, p \in BOOLEAN : [b EXCEPT !.probing = p].expired = b.expired
  BY DEF AccessType
<1>2. MarkHostReached(a).expired = a.expired /\ MarkHostReached(a) \in AccessType
  BY AccessKeepsType DEF AccessType, MarkHostReached
<1>3. ProbeAccess(a).expired = a.expired
  BY <1>1 DEF ProbeAccess
<1>4. ProbeThrew(a).expired = a.expired
  BY DEF AccessType, ProbeThrew, MarkNetworkFailure
<1>5. ProbeAnswered(a, bounced).expired => a.expired \/ bounced
  BY <1>1, <1>2 DEF ProbeAnswered
<1>6. QED
  BY <1>2, <1>3, <1>4, <1>5

-----------------------------------------------------------------------------
(* Sockets. *)

WorldType ==
  network \in {"up", "down"} /\ gate \in {"open", "expired", "forbidden"} /\ misread \in BOOLEAN

\* What is left when the client lets go of its socket, or has none worth keeping.
Leftover(left) ==
  /\ left \in [Sockets -> {"none", "CONNECTING", "OPEN", "CLOSING"}]
  /\ \A s \in Sockets : left[s] \notin {"CONNECTING", "OPEN"}
  /\ \A s \in Sockets : left[s] = readyState[s] \/ (s = ws /\ left[s] = "CLOSING")

LEMMA DiscardedIsLeftover ==
  ASSUME ClientInv
  PROVE  Leftover(Discarded(ws))
<1>1. CASE ws = NoSocket
  BY <1>1, ClientAssumption DEF ClientInv, TypeOK, OneLiveSocket, Leftover, Discarded
<1>2. CASE ws # NoSocket
  BY <1>2 DEF ClientInv, TypeOK, OneLiveSocket, Leftover, Discarded
<1>3. QED
  BY <1>1, <1>2

\* A reconnect is waited for, and the gate asked after enough of them.
LEMMA ScheduleKeeps ==
  ASSUME ClientInv, ScheduleReconnect
  PROVE  /\ reconnectTimer' = TRUE /\ state' = "reconnecting" /\ backedOff' = TRUE
         /\ failuresSinceOpen' \in 0..ProbeAfter /\ access' \in AccessType
         /\ access' = access \/ access' = ProbeAccess(access)
<1>1. failuresSinceOpen' \in 0..ProbeAfter
  BY ClientAssumption DEF ScheduleReconnect, ClientInv, TypeOK
<1>2. access' = access \/ access' = ProbeAccess(access)
  BY Zenon DEF ScheduleReconnect
<1>3. access' \in AccessType
  BY <1>2, AccessKeepsType DEF ClientInv, TypeOK
<1>4. QED
  BY <1>1, <1>2, <1>3 DEF ScheduleReconnect

\* A new socket replaces whatever was left.
LEMMA NewSocketKeeps ==
  ASSUME ClientInv, NEW left, Leftover(left), NEW fresh \in BOOLEAN,
         NewSocket(left, fresh), closedByUser' = FALSE, wedged' = FALSE,
         UNCHANGED <<suspended, pendingCalls>>, WorldType'
  PROVE  ClientInv'
<1> PICK s \in Sockets :
      /\ readyState[s] = "none"
      /\ readyState' = [left EXCEPT ![s] = "CONNECTING"]
      /\ attached' = Detached \cup {s}
      /\ ws' = s
  BY Zenon DEF NewSocket
<1> /\ reconnectTimer' = FALSE
    /\ backedOff' = (backedOff /\ ~fresh)
    /\ state' = IF backedOff' THEN "reconnecting" ELSE "connecting"
    /\ UNCHANGED <<stranded, failuresSinceOpen, access>>
  BY Zenon DEF NewSocket
<1>1. s # NoSocket
  BY ClientAssumption
<1>2. /\ readyState' \in [Sockets -> {"none", "CONNECTING", "OPEN", "CLOSING"}]
      /\ readyState'[s] = "CONNECTING"
      /\ \A x \in Sockets \ {s} : readyState'[x] = left[x]
  BY DEF Leftover
<1>3. attached' = {s}
  BY DEF ClientInv, TypeOK, Detached
<1>4. suspended' \subseteq {x \in Sockets : readyState'[x] \in {"CONNECTING", "CLOSING"}}
  <2> SUFFICES ASSUME NEW x \in suspended
               PROVE  x \in Sockets /\ readyState'[x] \in {"CONNECTING", "CLOSING"}
    OBVIOUS
  <2>1. x \in Sockets /\ readyState[x] \in {"CONNECTING", "CLOSING"} /\ x # s
    BY DEF ClientInv, TypeOK
  <2>2. QED
    BY <1>2, <2>1 DEF Leftover
<1>5. s \notin suspended
  BY DEF ClientInv, TypeOK
<1>6. (backedOff /\ ~fresh) \in BOOLEAN /\ state' \in {"connecting", "reconnecting"}
  OBVIOUS
<1>7. TypeOK'
  <2>1. attached' \subseteq {ws'} \cap {x \in Sockets : readyState'[x] # "none"}
    BY <1>2, <1>3
  <2>2. backedOff' \in BOOLEAN /\ state' \in {"closed", "connecting", "open", "reconnecting"}
    BY <1>6, Zenon
  <2>3. /\ failuresSinceOpen' \in 0..ProbeAfter /\ reconnectTimer' \in BOOLEAN
        /\ wedged' \in BOOLEAN /\ closedByUser' \in BOOLEAN
        /\ pendingCalls' \in [Calls -> Sockets \cup {NoSocket}] /\ access' \in AccessType
        /\ ws' \in Sockets \cup {NoSocket} /\ stranded' \subseteq Calls
    BY DEF ClientInv, TypeOK
  <2>4. QED
    BY <1>2, <1>4, <2>1, <2>2, <2>3 DEF TypeOK, WorldType
<1>8. HoldsItsSocket'
  BY <1>2, <1>3, <1>5 DEF HoldsItsSocket
<1>9. OneLiveSocket'
  BY <1>2 DEF OneLiveSocket, Leftover
<1>10. StateIsTrue'
  BY <1>1, <1>2, <1>6 DEF StateIsTrue, Phase
<1>11. NoSocketNoCalls'
  BY <1>1 DEF NoSocketNoCalls
<1>12. QED
  BY <1>7, <1>8, <1>9, <1>10, <1>11 DEF ClientInv

\* The browser refuses to make one: what was left is let go, and retried.
LEMMA NoNewSocketKeeps ==
  ASSUME ClientInv, NEW left, Leftover(left), NoNewSocket(left),
         closedByUser' = FALSE, wedged' = FALSE, UNCHANGED <<suspended, pendingCalls>>, WorldType'
  PROVE  ClientInv'
<1>1. /\ readyState' = left /\ attached' = Detached /\ ws' = NoSocket
      /\ stranded' = {c \in Calls : pendingCalls[c] # NoSocket} /\ ScheduleReconnect
  BY DEF NoNewSocket
<1>2. /\ reconnectTimer' = TRUE /\ state' = "reconnecting" /\ backedOff' = TRUE
      /\ failuresSinceOpen' \in 0..ProbeAfter /\ access' \in AccessType
  BY <1>1, ScheduleKeeps
<1>3. attached' = {}
  BY <1>1 DEF ClientInv, TypeOK, Detached
<1>4. suspended' \subseteq {x \in Sockets : readyState'[x] \in {"CONNECTING", "CLOSING"}}
  <2> SUFFICES ASSUME NEW x \in suspended
               PROVE  x \in Sockets /\ readyState'[x] \in {"CONNECTING", "CLOSING"}
    OBVIOUS
  <2>1. x \in Sockets /\ readyState[x] \in {"CONNECTING", "CLOSING"}
    BY DEF ClientInv, TypeOK
  <2>2. QED
    BY <1>1, <2>1 DEF Leftover
<1>5. TypeOK'
  BY <1>1, <1>2, <1>3, <1>4 DEF ClientInv, TypeOK, WorldType, Leftover
<1>6. NoSocketNoCalls'
  BY <1>1 DEF NoSocketNoCalls
<1>7. QED
  BY <1>1, <1>2, <1>5, <1>6
  DEF ClientInv, Leftover, HoldsItsSocket, OneLiveSocket, StateIsTrue, Phase

LEMMA OpenSocketKeeps ==
  ASSUME ClientInv, NEW left, Leftover(left), NEW fresh \in BOOLEAN,
         OpenSocket(left, fresh), WorldType'
  PROVE  ClientInv'
<1>1. CASE NewSocket(left, fresh)
  BY <1>1, NewSocketKeeps DEF OpenSocket
<1>2. CASE NoNewSocket(left)
  BY <1>2, NoNewSocketKeeps DEF OpenSocket
<1>3. QED
  BY <1>1, <1>2 DEF OpenSocket

LEMMA ConnectKeeps ==
  ASSUME ClientInv, NEW resume \in BOOLEAN, Connect(resume)
  PROVE  ClientInv'
<1>1. WorldType'
  BY DEF ClientInv, TypeOK, WorldType, Connect, world
<1>2. CASE Phase \in {"CONNECTING", "CLOSING"}
  BY <1>1, <1>2, DiscardedIsLeftover, OpenSocketKeeps DEF Connect
<1>3. CASE Phase \notin {"CONNECTING", "CLOSING"}
  <2>1. Phase # "OPEN"
    BY DEF Connect, InTheWay
  <2>2. Leftover(readyState)
    BY <1>3, <2>1, ClientAssumption DEF ClientInv, TypeOK, OneLiveSocket, Leftover, Phase
  <2>3. QED
    BY <1>1, <1>3, <2>2, OpenSocketKeeps DEF Connect
<1>4. QED
  BY <1>2, <1>3

-----------------------------------------------------------------------------
(* The inductive step, one action after another. *)

LEMMA InitClientInv == Init => ClientInv
<1> SUFFICES ASSUME Init PROVE ClientInv
  OBVIOUS
<1>1. Unknown \in AccessType
  <2>1. 0 \in 0..UnreachableAfter
    BY DEF UnreachableAfter
  <2>2. QED
    BY <2>1 DEF Unknown, AccessType
<1>2. 0 \in 0..ProbeAfter
  BY ClientAssumption
<1>3. TypeOK
  BY <1>1, <1>2 DEF Init, TypeOK
<1>4. QED
  BY <1>3 DEF Init, ClientInv, HoldsItsSocket, OneLiveSocket, StateIsTrue, NoSocketNoCalls, Phase

\* The world moves, and the client learns of it later.
LEMMA WorldKeeps ==
  ASSUME ClientInv, WorldType', UNCHANGED <<browserState, clientState>>, access' \in AccessType
  PROVE  ClientInv'
<1>1. /\ readyState' = readyState /\ attached' = attached /\ suspended' = suspended
      /\ ws' = ws /\ state' = state /\ backedOff' = backedOff
      /\ failuresSinceOpen' = failuresSinceOpen /\ reconnectTimer' = reconnectTimer
      /\ wedged' = wedged /\ closedByUser' = closedByUser /\ pendingCalls' = pendingCalls /\ stranded' = stranded
  BY DEF browserState, clientState, calls
<1>2. TypeOK'
  BY <1>1 DEF ClientInv, TypeOK, WorldType
<1>3. QED
  BY <1>1, <1>2
  DEF ClientInv, HoldsItsSocket, OneLiveSocket, StateIsTrue, NoSocketNoCalls, Phase

LEMMA WorldStepKeeps ==
  ASSUME ClientInv,
         \/ NetworkFails \/ NetworkReturns \/ GateExpires \/ AllowlistChanges
         \/ RestCallFails \/ RestCallRefused \/ ProbeEnds
  PROVE  ClientInv'
<1>1. access' \in AccessType /\ UNCHANGED <<browserState, clientState>>
  <2>1. access \in AccessType /\ (gate = "expired") \in BOOLEAN
    BY DEF ClientInv, TypeOK
  <2>2. CASE NetworkFails \/ NetworkReturns \/ GateExpires \/ AllowlistChanges
    BY <2>1, <2>2 DEF NetworkFails, NetworkReturns, GateExpires, AllowlistChanges
  <2>3. CASE RestCallFails
    BY <2>1, <2>3, AccessKeepsType DEF RestCallFails
  <2>4. CASE RestCallRefused
    BY <2>1, <2>4, AccessKeepsType DEF RestCallRefused
  <2>5. CASE ProbeEnds
    BY <2>1, <2>5, AccessKeepsType DEF ProbeEnds
  <2>6. QED
    BY <2>2, <2>3, <2>4, <2>5
<1>2. WorldType'
  <2>1. WorldType
    BY DEF ClientInv, TypeOK, WorldType
  <2>2. CASE NetworkFails \/ NetworkReturns \/ GateExpires \/ AllowlistChanges
    BY <2>1, <2>2 DEF NetworkFails, NetworkReturns, GateExpires, AllowlistChanges, WorldType
  <2>3. CASE RestCallFails \/ ProbeEnds
    BY <2>1, <2>3 DEF RestCallFails, ProbeEnds, WorldType, world
  <2>4. CASE RestCallRefused
    <3>1. (misread \/ (gate # "expired" /\ ~access.expired)) \in BOOLEAN
      BY DEF ClientInv, TypeOK
    <3>2. QED
      BY <2>1, <2>4, <3>1 DEF RestCallRefused, WorldType
  <2>5. QED
    BY <2>2, <2>3, <2>4
<1>3. QED
  BY <1>1, <1>2, WorldKeeps

LEMMA ClosedByHandKeeps ==
  ASSUME ClientInv, Disconnect
  PROVE  ClientInv'
<1>1. Leftover(Discarded(ws))
  BY DiscardedIsLeftover
<1>2. suspended \subseteq {x \in Sockets : readyState'[x] \in {"CONNECTING", "CLOSING"}}
  BY <1>1 DEF ClientInv, TypeOK, Leftover, Disconnect
<1>3. attached' = {}
  BY DEF ClientInv, TypeOK, Disconnect, Detached
<1>4. TypeOK'
  <2>1. WorldType'
    BY DEF ClientInv, TypeOK, WorldType, Disconnect, world
  <2>2. pendingCalls' \in [Calls -> Sockets \cup {NoSocket}]
    BY DEF Disconnect
  <2>3. /\ ws' = NoSocket /\ state' = "closed" /\ reconnectTimer' = FALSE
        /\ closedByUser' = TRUE /\ readyState' = Discarded(ws)
        /\ UNCHANGED <<suspended, backedOff, failuresSinceOpen, wedged, stranded, access>>
    BY DEF Disconnect
  <2>4. QED
    BY <1>1, <1>2, <1>3, <2>1, <2>2, <2>3 DEF ClientInv, TypeOK, WorldType, Leftover
<1>5. QED
  BY <1>1, <1>4
  DEF ClientInv, Disconnect, Leftover, HoldsItsSocket, OneLiveSocket, StateIsTrue,
      NoSocketNoCalls, Phase

LEMMA SetUrlKeeps ==
  ASSUME ClientInv, SetUrl
  PROVE  ClientInv'
<1>1. WorldType'
  BY DEF ClientInv, TypeOK, WorldType, SetUrl, world
<1>2. QED
  BY <1>1, DiscardedIsLeftover, OpenSocketKeeps DEF SetUrl

\* While the timer is armed nothing is in connect()'s way.
LEMMA TimerKeeps ==
  ASSUME ClientInv, ReconnectFires
  PROVE  ClientInv'
<1>1. Phase = "none"
  BY DEF ClientInv, OneLiveSocket, ReconnectFires, Phase
<1>2. Connect(FALSE)
  BY <1>1 DEF ReconnectFires, InTheWay
<1>3. QED
  BY <1>2, ConnectKeeps

LEMMA OpensKeeps ==
  ASSUME ClientInv, NEW s \in Sockets, SocketOpens(s)
  PROVE  ClientInv'
<1>1. s = ws /\ s \in attached /\ ws # NoSocket /\ s \notin suspended
  BY ClientAssumption DEF ClientInv, OneLiveSocket, HoldsItsSocket, SocketOpens
<1>2. Opened
  BY <1>1 DEF SocketOpens
<1>3. /\ readyState' \in [Sockets -> {"none", "CONNECTING", "OPEN", "CLOSING"}]
      /\ readyState'[s] = "OPEN"
      /\ \A x \in Sockets \ {s} : readyState'[x] = readyState[x]
  BY DEF ClientInv, TypeOK, SocketOpens
<1>4. /\ state' = "open" /\ backedOff' = FALSE /\ failuresSinceOpen' = 0
      /\ UNCHANGED <<ws, reconnectTimer, wedged, closedByUser, pendingCalls, stranded, attached,
                     suspended>>
  BY <1>2 DEF Opened, SocketOpens, calls
<1>5. TypeOK'
  <2>1. WorldType'
    BY DEF ClientInv, TypeOK, WorldType, SocketOpens, world
  <2>2. access' \in AccessType
    BY <1>2, AccessKeepsType DEF ClientInv, TypeOK, Opened
  <2>3. suspended' \subseteq {x \in Sockets : readyState'[x] \in {"CONNECTING", "CLOSING"}}
    BY <1>1, <1>3, <1>4 DEF ClientInv, TypeOK
  <2>4. attached' \subseteq {ws'} \cap {x \in Sockets : readyState'[x] # "none"}
    BY <1>3, <1>4 DEF ClientInv, TypeOK
  <2>5. 0 \in 0..ProbeAfter
    BY ClientAssumption
  <2>6. QED
    BY <1>3, <1>4, <2>1, <2>2, <2>3, <2>4, <2>5 DEF ClientInv, TypeOK, WorldType
<1>6. HoldsItsSocket' /\ OneLiveSocket' /\ StateIsTrue' /\ NoSocketNoCalls'
  BY <1>1, <1>3, <1>4
  DEF ClientInv, HoldsItsSocket, OneLiveSocket, StateIsTrue, NoSocketNoCalls, Phase
<1>7. QED
  BY <1>5, <1>6 DEF ClientInv

LEMMA ClosesKeeps ==
  ASSUME ClientInv, NEW s \in Sockets, SocketCloses(s)
  PROVE  ClientInv'
<1>1. /\ readyState' \in [Sockets -> {"none", "CONNECTING", "OPEN", "CLOSING"}]
      /\ readyState'[s] = "none"
      /\ \A x \in Sockets \ {s} : readyState'[x] = readyState[x]
      /\ attached' = attached \ {s} /\ suspended' = suspended /\ s \notin suspended
  BY DEF ClientInv, TypeOK, SocketCloses
<1>2. WorldType'
  BY DEF ClientInv, TypeOK, WorldType, SocketCloses, world
<1>3. suspended' \subseteq {x \in Sockets : readyState'[x] \in {"CONNECTING", "CLOSING"}}
  BY <1>1 DEF ClientInv, TypeOK
<1>4. CASE s = ws
  <2>1. s \in attached /\ ws # NoSocket
    BY <1>4, ClientAssumption DEF ClientInv, HoldsItsSocket
  <2>2. Closed
    BY <1>4, <2>1 DEF SocketCloses
  <2>3. /\ ws' = NoSocket /\ UNCHANGED <<wedged, closedByUser, stranded>>
        /\ pendingCalls' = [c \in Calls |-> NoSocket]
    BY <2>2 DEF Closed, RejectAllPending
  <2>4. /\ state' \in {"closed", "reconnecting"}
        /\ state' = "reconnecting" => reconnectTimer'
        /\ reconnectTimer' \in BOOLEAN /\ backedOff' \in BOOLEAN
        /\ failuresSinceOpen' \in 0..ProbeAfter /\ access' \in AccessType
    <3>1. CASE closedByUser
      BY <2>2, <3>1 DEF Closed, ClientInv, TypeOK
    <3>2. CASE ~closedByUser
      <4>1. ScheduleReconnect
        BY <2>2, <3>2 DEF Closed
      <4>2. QED
        BY <4>1, ScheduleKeeps
    <3>3. QED
      BY <3>1, <3>2
  <2>5. attached' = {}
    BY <1>1, <1>4 DEF ClientInv, TypeOK
  <2>6. TypeOK'
    BY <1>1, <1>2, <1>3, <2>3, <2>4, <2>5 DEF ClientInv, TypeOK, WorldType
  <2>7. QED
    BY <1>1, <1>4, <2>3, <2>4, <2>6
    DEF ClientInv, HoldsItsSocket, OneLiveSocket, StateIsTrue, NoSocketNoCalls, Phase
<1>5. CASE s # ws
  <2>1. UNCHANGED <<clientState, access>>
    BY <1>5 DEF SocketCloses
  <2>2. /\ ws' = ws /\ state' = state /\ backedOff' = backedOff
        /\ failuresSinceOpen' = failuresSinceOpen /\ reconnectTimer' = reconnectTimer
        /\ wedged' = wedged /\ closedByUser' = closedByUser /\ pendingCalls' = pendingCalls /\ stranded' = stranded
        /\ access' = access
    BY <2>1 DEF clientState, calls
  <2>3. attached' \subseteq {ws'} \cap {x \in Sockets : readyState'[x] # "none"}
    BY <1>1, <1>5, <2>2 DEF ClientInv, TypeOK
  <2>4. TypeOK'
    BY <1>1, <1>2, <1>3, <2>2, <2>3 DEF ClientInv, TypeOK, WorldType
  <2>5. ws # NoSocket => ws \in Sockets \ {s}
    BY <1>5 DEF ClientInv, TypeOK
  <2>6. QED
    BY <1>1, <1>5, <2>2, <2>4, <2>5
    DEF ClientInv, HoldsItsSocket, OneLiveSocket, StateIsTrue, NoSocketNoCalls, Phase
<1>6. QED
  BY <1>4, <1>5

\* What the browser does with a socket and does not report.
LEMMA BrowserKeeps ==
  ASSUME ClientInv, NEW s \in Sockets,
         SocketStartsClosing(s) \/ Suspended(s) \/ LetGo(s)
  PROVE  ClientInv'
<1>1. /\ attached' = attached /\ ws' = ws /\ state' = state /\ backedOff' = backedOff
      /\ failuresSinceOpen' = failuresSinceOpen /\ reconnectTimer' = reconnectTimer
      /\ wedged' = wedged /\ closedByUser' = closedByUser /\ pendingCalls' = pendingCalls /\ stranded' = stranded
      /\ access' = access /\ WorldType'
  BY DEF ClientInv, TypeOK, WorldType, SocketStartsClosing, Suspended, LetGo, world, clientState, calls
<1>2. CASE SocketStartsClosing(s)
  <2>1. /\ readyState' \in [Sockets -> {"none", "CONNECTING", "OPEN", "CLOSING"}]
        /\ readyState[s] = "OPEN" /\ readyState'[s] = "CLOSING"
        /\ \A x \in Sockets \ {s} : readyState'[x] = readyState[x]
        /\ suspended' = suspended
    BY <1>2 DEF ClientInv, TypeOK, SocketStartsClosing
  <2>2. s = ws /\ s \in attached /\ s \notin suspended
    BY <2>1, ClientAssumption DEF ClientInv, TypeOK, OneLiveSocket, HoldsItsSocket
  <2>3. TypeOK'
    BY <1>1, <2>1 DEF ClientInv, TypeOK, WorldType
  <2>4. QED
    BY <1>1, <2>1, <2>2, <2>3
    DEF ClientInv, HoldsItsSocket, OneLiveSocket, StateIsTrue, NoSocketNoCalls, Phase
<1>3. CASE Suspended(s)
  <2>1. /\ readyState' = readyState /\ suspended' = suspended \cup {s}
        /\ readyState[s] = "CONNECTING"
    BY <1>3 DEF Suspended
  <2>2. TypeOK'
    BY <1>1, <2>1 DEF ClientInv, TypeOK, WorldType
  <2>3. QED
    BY <1>1, <2>1, <2>2
    DEF ClientInv, HoldsItsSocket, OneLiveSocket, StateIsTrue, NoSocketNoCalls, Phase
<1>4. CASE LetGo(s)
  <2>1. /\ readyState' \in [Sockets -> {"none", "CONNECTING", "OPEN", "CLOSING"}]
        /\ readyState[s] = "CLOSING" /\ readyState'[s] = "none"
        /\ \A x \in Sockets \ {s} : readyState'[x] = readyState[x]
        /\ suspended' = suspended \ {s} /\ s \in suspended
    BY <1>4 DEF ClientInv, TypeOK, LetGo
  <2>2. s # ws /\ s \notin attached
    BY <2>1, ClientAssumption DEF ClientInv, TypeOK, HoldsItsSocket
  <2>3. TypeOK'
    BY <1>1, <2>1, <2>2 DEF ClientInv, TypeOK, WorldType
  <2>4. ws # NoSocket => ws \in Sockets \ {s}
    BY <2>2 DEF ClientInv, TypeOK
  <2>5. QED
    BY <1>1, <2>1, <2>2, <2>3, <2>4
    DEF ClientInv, HoldsItsSocket, OneLiveSocket, StateIsTrue, NoSocketNoCalls, Phase
<1>5. QED
  BY <1>2, <1>3, <1>4

LEMMA CallsKeep ==
  ASSUME ClientInv,
         HandshakeAges \/ \E c \in Calls : CallSent(c) \/ CallAnswered(c) \/ CallTimesOut(c)
  PROVE  ClientInv'
<1>1. /\ readyState' = readyState /\ attached' = attached /\ suspended' = suspended
      /\ ws' = ws /\ state' = state /\ backedOff' = backedOff
      /\ failuresSinceOpen' = failuresSinceOpen /\ reconnectTimer' = reconnectTimer
      /\ closedByUser' = closedByUser /\ access' = access /\ WorldType'
  BY DEF ClientInv, TypeOK, WorldType, world, browserState, HandshakeAges, CallSent, CallAnswered,
         CallTimesOut, Settle
<1>2. /\ pendingCalls' \in [Calls -> Sockets \cup {NoSocket}] /\ wedged' \in BOOLEAN
      /\ stranded' \subseteq Calls
      /\ ws = NoSocket => \A c \in Calls \ stranded' : pendingCalls'[c] = NoSocket
  <2>1. CASE HandshakeAges
    BY <2>1 DEF ClientInv, TypeOK, NoSocketNoCalls, HandshakeAges, calls
  <2>2. ASSUME NEW c \in Calls, NEW to \in Sockets \cup {NoSocket}, Settle(c, to),
               to = NoSocket \/ ws # NoSocket
        PROVE  /\ pendingCalls' \in [Calls -> Sockets \cup {NoSocket}] /\ wedged' \in BOOLEAN
               /\ stranded' \subseteq Calls
               /\ ws = NoSocket => \A x \in Calls \ stranded' : pendingCalls'[x] = NoSocket
    BY <2>2 DEF ClientInv, TypeOK, NoSocketNoCalls, Settle
  <2>3. ASSUME NEW c \in Calls, CallSent(c) \/ CallAnswered(c) \/ CallTimesOut(c)
        PROVE  \E to \in Sockets \cup {NoSocket} :
                 Settle(c, to) /\ (to = NoSocket \/ ws # NoSocket)
    <3>1. CASE CallSent(c)
      <4>1. ws \in Sockets /\ ws # NoSocket
        BY <3>1 DEF ClientInv, TypeOK, CallSent, Phase
      <4>2. QED
        BY <3>1, <4>1 DEF CallSent
    <3>2. CASE CallAnswered(c) \/ CallTimesOut(c)
      BY <3>2 DEF CallAnswered, CallTimesOut
    <3>3. QED
      BY <2>3, <3>1, <3>2
  <2>4. QED
    BY <2>1, <2>2, <2>3
<1>3. TypeOK'
  BY <1>1, <1>2 DEF ClientInv, TypeOK, WorldType
<1>4. QED
  BY <1>1, <1>2, <1>3
  DEF ClientInv, HoldsItsSocket, OneLiveSocket, StateIsTrue, NoSocketNoCalls, Phase

LEMMA NextClientInv == ClientInv /\ [Next]_vars => ClientInv'
<1> SUFFICES ASSUME ClientInv, [Next]_vars PROVE ClientInv'
  OBVIOUS
<1>1. CASE \/ NetworkFails \/ NetworkReturns \/ GateExpires \/ AllowlistChanges
           \/ RestCallFails \/ RestCallRefused \/ ProbeEnds
  BY <1>1, WorldStepKeeps
<1>2. CASE Mounts \/ Resumes
  BY <1>2, ConnectKeeps DEF Mounts, Resumes
<1>3. CASE Disconnect \/ SetUrl \/ ReconnectFires
  BY <1>3, ClosedByHandKeeps, SetUrlKeeps, TimerKeeps
<1>4. ASSUME NEW s \in Sockets,
             SocketOpens(s) \/ SocketCloses(s) \/ SocketStartsClosing(s) \/ Suspended(s) \/ LetGo(s)
      PROVE  ClientInv'
  BY <1>4, OpensKeeps, ClosesKeeps, BrowserKeeps
<1>5. CASE HandshakeAges \/ \E c \in Calls : CallSent(c) \/ CallAnswered(c) \/ CallTimesOut(c)
  BY <1>5, CallsKeep
<1>6. CASE UNCHANGED vars
  <2>1. UNCHANGED <<browserState, clientState, access, world>>
    BY <1>6 DEF vars
  <2>2. WorldType' /\ access' \in AccessType
    BY <2>1 DEF ClientInv, TypeOK, WorldType, world
  <2>3. QED
    BY <2>1, <2>2, WorldKeeps
<1>7. QED
  BY <1>1, <1>2, <1>3, <1>4, <1>5, <1>6 DEF Next

LEMMA ClientInvariant == Spec => []ClientInv
<1>1. Init => ClientInv
  BY InitClientInv
<1>2. ClientInv /\ [Next]_vars => ClientInv'
  BY NextClientInv
<1>3. QED
  BY <1>1, <1>2, PTL DEF Spec

-----------------------------------------------------------------------------

\* A socket that is open or may yet open is the client's own, so that a socket
\* that was replaced (client.ts, discardSocket) is never left alive behind it.
THEOREM ClientOneLiveSocket == Spec => []OneLiveSocket
<1>1. ClientInv => OneLiveSocket
  BY DEF ClientInv
<1>2. QED
  BY <1>1, ClientInvariant, PTL

\* The state the app shows is the state of the socket it holds.
THEOREM ClientStateIsTrue == Spec => []StateIsTrue
<1>1. ClientInv => StateIsTrue
  BY DEF ClientInv
<1>2. QED
  BY <1>1, ClientInvariant, PTL

\* No call waits while there is no socket to answer it (rejectAllPending), unless
\* its socket was dropped for one the browser then refused to make.
THEOREM ClientNoSocketNoCalls == Spec => []NoSocketNoCalls
<1>1. ClientInv => NoSocketNoCalls
  BY DEF ClientInv
<1>2. QED
  BY <1>1, ClientInvariant, PTL

\* What the network does is never taken for an expired Access session
\* (accessSession.ts, probeAccess): the app says so to somebody whose session has
\* not expired only on a 401 or 403 of another author (api/client.ts, request).
THEOREM ClientExpiredIsTrue == Spec => []ExpiredIsTrueUnlessMisread
<1>1. Init => ExpiredIsTrueUnlessMisread
  BY DEF Init, ExpiredIsTrueUnlessMisread, Unknown
<1>2. ClientInv /\ ExpiredIsTrueUnlessMisread /\ [Next]_vars => ExpiredIsTrueUnlessMisread'
  <2> SUFFICES ASSUME ClientInv, ExpiredIsTrueUnlessMisread, [Next]_vars
               PROVE  access'.expired => gate' = "expired" \/ misread'
    BY DEF ExpiredIsTrueUnlessMisread
  <2>1. access \in AccessType
    BY DEF ClientInv, TypeOK
  <2>2. CASE NetworkFails \/ NetworkReturns \/ GateExpires
    BY <2>2 DEF NetworkFails, NetworkReturns, GateExpires, ExpiredIsTrueUnlessMisread
  <2>3. CASE AllowlistChanges
    BY <2>3 DEF AllowlistChanges, ExpiredIsTrueUnlessMisread
  <2>4. ASSUME UNCHANGED world, access'.expired = access.expired
        PROVE  access'.expired => gate' = "expired" \/ misread'
    BY <2>4 DEF ExpiredIsTrueUnlessMisread, world
  <2>5. CASE RestCallFails
    BY <2>1, <2>4, <2>5, AccessExpires DEF RestCallFails
  <2>6. CASE RestCallRefused
    BY <2>6 DEF RestCallRefused, ExpiredIsTrueUnlessMisread
  <2>7. CASE ProbeEnds
    <3>1. UNCHANGED world /\ (gate = "expired") \in BOOLEAN
      BY <2>7 DEF ProbeEnds
    <3>2. access'.expired => access.expired \/ gate = "expired"
      BY <2>1, <2>7, <3>1, AccessExpires DEF ProbeEnds
    <3>3. QED
      BY <3>1, <3>2 DEF ExpiredIsTrueUnlessMisread, world
  <2>8. ASSUME NEW left, NEW fresh, OpenSocket(left, fresh)
        PROVE  access'.expired = access.expired
    <3>1. access' = access \/ access' = ProbeAccess(access)
      BY <2>8, ScheduleKeeps DEF OpenSocket, NewSocket, NoNewSocket
    <3>2. QED
      BY <2>1, <3>1, AccessExpires
  <2>9. ASSUME NEW resume, Connect(resume)
        PROVE  access'.expired => gate' = "expired" \/ misread'
    BY <2>4, <2>8, <2>9 DEF Connect
  <2>10. CASE Mounts \/ Resumes
    BY <2>9, <2>10 DEF Mounts, Resumes
  <2>11. CASE ReconnectFires
    BY <2>4, <2>9, <2>11 DEF ReconnectFires
  <2>12. CASE Disconnect \/ HandshakeAges
    BY <2>4, <2>12 DEF Disconnect, HandshakeAges
  <2>13. CASE SetUrl
    BY <2>4, <2>8, <2>13 DEF SetUrl
  <2>14. ASSUME NEW s \in Sockets, SocketOpens(s)
         PROVE  UNCHANGED world /\ access'.expired = access.expired
    <3>1. access' = access \/ access' = MarkHostReached(access)
      BY <2>14 DEF SocketOpens, Opened
    <3>2. QED
      BY <2>1, <2>14, <3>1, AccessExpires DEF SocketOpens
  <2>15. ASSUME NEW s \in Sockets, SocketCloses(s)
         PROVE  UNCHANGED world /\ access'.expired = access.expired
    <3>1. access' = access \/ access' = ProbeAccess(access)
      BY <2>15, Zenon DEF SocketCloses, Closed, ScheduleReconnect
    <3>2. QED
      BY <2>1, <2>15, <3>1, AccessExpires DEF SocketCloses
  <2>16. ASSUME NEW s \in Sockets, SocketStartsClosing(s) \/ Suspended(s) \/ LetGo(s)
         PROVE  UNCHANGED world /\ access'.expired = access.expired
    BY <2>16 DEF SocketStartsClosing, Suspended, LetGo
  <2>17. ASSUME NEW c \in Calls, CallSent(c) \/ CallAnswered(c) \/ CallTimesOut(c)
         PROVE  UNCHANGED world /\ access'.expired = access.expired
    BY <2>17 DEF CallSent, CallAnswered, CallTimesOut, Settle
  <2>18. CASE UNCHANGED vars
    BY <2>4, <2>18 DEF vars
  <2>19. QED
    BY <2>2, <2>3, <2>4, <2>5, <2>6, <2>7, <2>10, <2>11, <2>12, <2>13, <2>14, <2>15, <2>16, <2>17,
       <2>18 DEF Next
<1>3. QED
  BY <1>1, <1>2, ClientInvariant, PTL DEF Spec

=============================================================================
