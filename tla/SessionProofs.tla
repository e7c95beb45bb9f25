----------------------------- MODULE SessionProofs -----------------------------
(***************************************************************************)
(* Theorems about the connection, for every bound on requests, pushes and  *)
(* rounds, for every set of parameters the server may offer and, unless    *)
(* stated, for both orders in which stores may be seen: types first, then  *)
(* the invariant IInv and the safety theorems that follow from it, then    *)
(* CInv and the refinement of SecureChannel.                               *)
(***************************************************************************)
EXTENDS SessionInvariant, FiniteSetTheorems, SequenceTheorems, TLAPS

(***************************************************************************)
(* Every variable holds a value of its type, in every reachable state.     *)
(***************************************************************************)
LEMMA KeyTypes ==
  /\ NoKey \in Keys /\ TestKey \in Keys /\ Unfilled \in Keys
  /\ \A m, n \in Nat : <<m, n>> \in Keys
  BY DEF Keys, NoKey, TestKey, Unfilled

LEMMA FrameTypes ==
  /\ IdFrame \in Frames /\ NoFrame \in Frames
  /\ \A r \in Nat : BFrame(r) \in Frames
  /\ \A m \in Nat, k \in Keys : Encrypted(m, k) \in Frames
  /\ \A f \in Frames : f.n \in Nat /\ f.key \in Keys
  BY KeyTypes DEF IdFrame, NoFrame, BFrame, Encrypted, Frames

LEMMA MsgTypes ==
  /\ NoMsg \in ServerMsgs
  /\ \A r \in Nat, k \in {"sound", "weak"} : Offer(r, k) \in ServerMsgs
  /\ \A r \in Nat, b \in BOOLEAN : PublicA(r, b) \in ServerMsgs
  /\ \A n \in Nat : Push(n) \in ServerMsgs
  /\ \A m \in ServerMsgs : m.n \in Nat /\ m.ok \in BOOLEAN
  <1>1. NoMsg \in ServerMsgs /\ \A n \in Nat : Push(n) \in ServerMsgs
    BY DEF NoMsg, Push, ServerMsgs
  <1>2. \A r \in Nat, k \in {"sound", "weak"} : Offer(r, k) \in ServerMsgs
    BY DEF Offer, ServerMsgs
  <1>3. \A r \in Nat, b \in BOOLEAN : PublicA(r, b) \in ServerMsgs
    BY DEF PublicA, ServerMsgs
  <1> QED
    BY <1>1, <1>2, <1>3 DEF ServerMsgs

\* send() writes a piece of the right type, or nothing.
LEMMA SendType ==
  ASSUME TypeOK, NEW f \in Frames, NEW p \in Parts, SendOk(f, p) \/ SendFails
  PROVE  wire' \in Seq(Pieces) /\ broken' \in BOOLEAN
  <1>1. CASE SendOk(f, p)
    BY <1>1 DEF TypeOK, SendOk, Pieces
  <1>2. CASE SendFails
    <2>1. wire' \in Seq(Pieces)
      BY <1>2 DEF TypeOK, SendFails
    <2>2. broken' \in BOOLEAN
      BY <1>2 DEF TypeOK, SendFails
    <2> QED
      BY <2>1, <2>2
  <1> QED
    BY <1>1, <1>2

LEMMA TypeInit == Init => TypeOK
  <1> SUFFICES ASSUME Init PROVE TypeOK
    OBVIOUS
  <1>1. mainPc \in MainPcs /\ colPc \in ColPcs /\ sndPc \in SndPcs
    BY DEF Init, MainPcs, ColPcs, SndPcs
  <1>2. /\ connected \in BOOLEAN /\ service \in BOOLEAN
        /\ socket \in {"none", "open", "stale"} /\ isClosed \in BOOLEAN
        /\ sndRunning \in BOOLEAN /\ colRunning \in BOOLEAN
    BY DEF Init
  <1>3. sendKeyComplete \in BOOLEAN /\ starved \in BOOLEAN
    BY DEF Init
  <1>8. pending \in Seq({"pointer", "contents", "flag"})
    BY DEF Init
  <1>7. key \in Keys
    BY KeyTypes DEF Init
  <1>4. /\ bbRound \in Nat /\ request \in Nat /\ nreq \in 0 .. MaxRequests
        /\ srvRound \in 0 .. MaxRounds /\ pushes \in 0 .. MaxPushes
    BY SessionAssumption DEF Init
  <1>5. /\ queue \in Seq(Nat) /\ accepted \in Seq(Nat) /\ delivered \in Seq(Nat)
        /\ wire \in Seq(Pieces) /\ toClient \in Seq(ServerMsgs)
    BY DEF Init
  <1>6. /\ sndFrame \in Frames /\ colMsg \in ServerMsgs /\ broken \in BOOLEAN
        /\ srvUp \in BOOLEAN /\ srv \in {"idle", "offered", "rejected", "keyed"}
    BY FrameTypes, MsgTypes DEF Init
  <1> QED
    BY <1>1, <1>2, <1>3, <1>4, <1>5, <1>6, <1>7, <1>8
    DEF TypeOK

LEMMA TypeMain == TypeOK /\ (MainNext \/ UserNext) => TypeOK'
  <1> SUFFICES ASSUME TypeOK, MainNext \/ UserNext PROVE TypeOK'
    OBVIOUS
  <1> USE DEF TypeOK, flagVars, keyVars, appVars, wireVars, srvVars, MainPcs
  <1>1. CASE ConnectOk
    BY <1>1 DEF ConnectOk, ColPcs, SndPcs
  <1>2. CASE ConnectFails
    BY <1>2 DEF ConnectFails
  <1>3. CASE SendId
    <2>1. wire' \in Seq(Pieces) /\ broken' \in BOOLEAN
      BY <1>3, SendType, FrameTypes DEF SendId, Parts
    <2> QED
      BY <1>3, <2>1 DEF SendId
  <1>4. CASE CheckConnected
    BY <1>4 DEF CheckConnected
  <1>5. CASE SendCheck
    BY <1>5 DEF SendCheck
  <1>6. CASE SendAdd
    <2>0. starved' = starved \/ starved' = TRUE
      BY <1>6 DEF SendAdd
    <2>1. queue' \in Seq(Nat) /\ accepted' \in Seq(Nat) /\ starved' \in BOOLEAN /\ mainPc' \in MainPcs
      <3>1. queue' = queue \/ queue' = Append(queue, request)
        BY <1>6 DEF SendAdd
      <3>2. accepted' = Append(accepted, request) /\ mainPc' = "gtk"
        BY <1>6 DEF SendAdd
      <3>3. Append(queue, request) \in Seq(Nat) /\ accepted' \in Seq(Nat)
        BY <3>2
      <3>5. queue' \in Seq(Nat)
        BY <3>1, <3>3, Zenon
      <3>4. starved' \in BOOLEAN
        BY <2>0
      <3> QED
        BY <3>2, <3>3, <3>4, <3>5
    <2>2. UNCHANGED <<colPc, sndPc, flagVars, keyVars, request, nreq, wireVars,
                      sndFrame, colMsg, srvVars, toClient, delivered>>
      BY <1>6 DEF SendAdd
    <2> QED
      BY <2>1, <2>2
  <1>7. CASE Destroy
    <2>1. /\ mainPc' \in MainPcs /\ socket' \in {"none", "open", "stale"}
          /\ sndRunning' \in BOOLEAN /\ colRunning' \in BOOLEAN
      BY <1>7 DEF Destroy
    <2>2. UNCHANGED <<colPc, sndPc, connected, service, isClosed, keyVars,
                      appVars, wireVars, sndFrame, colMsg, srvVars, toClient,
                      delivered>>
      BY <1>7 DEF Destroy
    <2> QED
      BY <2>1, <2>2
  <1>8. ASSUME NEW via \in {"user", "service"}, UiRequest(via) PROVE TypeOK'
    BY <1>8, SessionAssumption DEF UiRequest
  <1>9. CASE UiNullService \/ ForceExit
    BY <1>9 DEF UiNullService, ForceExit
  <1> QED
    BY <1>1, <1>2, <1>3, <1>4, <1>5, <1>6, <1>7, <1>8, <1>9 DEF MainNext, UserNext

LEMMA TypeSender == TypeOK /\ SenderNext => TypeOK'
  <1> SUFFICES ASSUME TypeOK, SenderNext PROVE TypeOK'
    OBVIOUS
  <1> USE DEF TypeOK, flagVars, keyVars, appVars, wireVars, srvVars, SndPcs
  <1>1. CASE SenderLoop
    BY <1>1 DEF SenderLoop
  <1>2. CASE SenderTake
    <2>1. CASE queue = << >>
      BY <1>2, <2>1 DEF SenderTake
    <2>2. CASE queue # << >>
      <3>1. Head(queue) \in Nat /\ Tail(queue) \in Seq(Nat)
        BY <2>2
      <3>2. queue' \in Seq(Nat) /\ sndFrame' \in Frames
        BY <1>2, <2>2, <3>1, KeyTypes, FrameTypes DEF SenderTake
      <3> QED
        BY <1>2, <2>2, <3>2 DEF SenderTake
    <2> QED
      BY <2>1, <2>2
  <1>3. CASE SenderSend
    <2>1. Encrypted(sndFrame.n, key) \in Frames
      BY FrameTypes
    <2>2. wire' \in Seq(Pieces) /\ broken' \in BOOLEAN
      BY <1>3, <2>1, SendType DEF SenderSend, Parts
    <2>3. sndFrame' \in Frames /\ starved' \in BOOLEAN /\ sndPc' \in SndPcs
      BY <1>3, <2>1, FrameTypes DEF SenderSend
    <2>4. UNCHANGED <<mainPc, colPc, flagVars, keyVars, request, queue, nreq,
                      accepted, colMsg, srvVars, toClient, delivered>>
      BY <1>3 DEF SenderSend
    <2> QED
      BY <2>2, <2>3, <2>4
  <1> QED
    BY <1>1, <1>2, <1>3 DEF SenderNext

LEMMA TypeCollector == TypeOK /\ CollectorNext => TypeOK'
  <1> SUFFICES ASSUME TypeOK, CollectorNext PROVE TypeOK'
    OBVIOUS
  <1> USE DEF TypeOK, flagVars, keyVars, appVars, wireVars, srvVars, ColPcs
  <1>1. CASE CollectorRecv
    <2>1. Head(toClient) \in ServerMsgs /\ toClient' \in Seq(ServerMsgs)
      BY <1>1 DEF CollectorRecv
    <2>2. key' \in Keys /\ colMsg' \in ServerMsgs /\ colPc' \in ColPcs
      BY <1>1, <2>1, KeyTypes DEF CollectorRecv
    <2> QED
      BY <1>1, <2>1, <2>2 DEF CollectorRecv
  <1>2. CASE CollectorStop
    BY <1>2 DEF CollectorStop
  <1>3. CASE HandleParams
    <2>1. bbRound' \in Nat
      BY <1>3, MsgTypes DEF HandleParams
    <2> QED
      BY <1>3, <2>1 DEF HandleParams
  <1>4. CASE HandleKey
    <2>0. KeyStores \in Seq({"pointer", "contents", "flag"})
      BY DEF KeyStores
    <2>1. pending' \in Seq({"pointer", "contents", "flag"})
      BY <1>4, <2>0 DEF HandleKey
    <2>2. colPc' \in ColPcs
      BY <1>4 DEF HandleKey
    <2>3. UNCHANGED <<mainPc, sndPc, flagVars, sendKeyComplete, key, bbRound,
                      appVars, wireVars, sndFrame, colMsg, srvVars, toClient,
                      delivered>>
      BY <1>4 DEF HandleKey
    <2> QED
      BY <2>1, <2>2, <2>3
  <1>5. CASE HandleOther
    <2>1. delivered' \in Seq(Nat)
      <3>1. colMsg.n \in Nat
        BY MsgTypes
      <3> QED
        BY <1>5, <3>1 DEF HandleOther
    <2> QED
      BY <1>5, <2>1 DEF HandleOther
  <1>6. CASE SendB
    <2>1. wire' \in Seq(Pieces) /\ broken' \in BOOLEAN
      BY <1>6, SendType, FrameTypes DEF SendB, Parts
    <2>2. colPc' \in ColPcs
      BY <1>6 DEF SendB
    <2>3. UNCHANGED <<mainPc, sndPc, flagVars, key, pending, bbRound, appVars,
                      sndFrame, colMsg, srvVars, toClient, delivered>>
      BY <1>6 DEF SendB
    <2>4. sendKeyComplete' \in BOOLEAN
      <3>1. sendKeyComplete' = FALSE \/ sendKeyComplete' = sendKeyComplete
        BY <1>6 DEF SendB
      <3> QED
        BY <3>1
    <2> QED
      BY <2>1, <2>2, <2>3, <2>4
  <1>7. CASE PublishStore
    <2>1. PICK i \in DOMAIN pending :
             /\ pending' = [j \in 1 .. Len(pending) - 1 |->
                               pending[IF j < i THEN j ELSE j + 1]]
             /\ sendKeyComplete' \in BOOLEAN
             /\ key' \in {key, Unfilled, <<bbRound, colMsg.n>>}
      BY <1>7 DEF PublishStore
    <2>2. pending' \in Seq({"pointer", "contents", "flag"})
      <3>1. Len(pending) - 1 \in Nat
        BY <1>7 DEF PublishStore
      <3>2. \A j \in 1 .. Len(pending) - 1 :
               pending[IF j < i THEN j ELSE j + 1] \in {"pointer", "contents", "flag"}
        OBVIOUS
      <3> QED
        BY <2>1, <3>1, <3>2
    <2>3. key' \in Keys
      BY <2>1, KeyTypes, MsgTypes
    <2> QED
      BY <1>7, <2>1, <2>2, <2>3 DEF PublishStore
  <1>8. CASE CollectorClose
    <2>1. /\ colPc' \in ColPcs /\ socket' \in {"none", "open", "stale"}
          /\ isClosed' \in BOOLEAN /\ connected' \in BOOLEAN
          /\ service' \in BOOLEAN
      BY <1>8 DEF CollectorClose, SessionCloseMessage, CleanNetwork
    <2>2. UNCHANGED <<mainPc, sndPc, sndRunning, colRunning, keyVars, appVars,
                      wireVars, sndFrame, colMsg, srvVars, toClient, delivered>>
      BY <1>8 DEF CollectorClose, SessionCloseMessage, CleanNetwork
    <2> QED
      BY <2>1, <2>2
  <1> QED
    BY <1>1, <1>2, <1>3, <1>4, <1>5, <1>6, <1>7, <1>8 DEF CollectorNext

LEMMA TypeServer == TypeOK /\ ServerNext => TypeOK'
  <1> SUFFICES ASSUME TypeOK, ServerNext PROVE TypeOK'
    OBVIOUS
  <1> USE SessionAssumption, MsgTypes DEF TypeOK, flagVars, keyVars, appVars, wireVars, srvVars
  <1>1. CASE SrvOffer
    <2>1. PICK k \in ParamKinds : toClient' = Append(toClient, Offer(srvRound + 1, k))
      BY <1>1 DEF SrvOffer
    <2>2. srvRound + 1 \in 0 .. MaxRounds /\ srvRound' = srvRound + 1
      BY <1>1 DEF SrvOffer
    <2>3. Offer(srvRound + 1, k) \in ServerMsgs
      <3>1. srvRound + 1 \in Nat /\ k \in {"sound", "weak"}
        BY <2>2
      <3> HIDE DEF TypeOK
      <3> QED
        BY <3>1, MsgTypes
    <2>4. toClient' \in Seq(ServerMsgs) /\ srvRound' \in 0 .. MaxRounds
      BY <2>1, <2>2, <2>3
    <2> QED
      BY <1>1, <2>4 DEF SrvOffer
  <1>2. CASE SrvAnswer
    <2>1. PICK ok \in BOOLEAN : /\ toClient' = Append(toClient, PublicA(srvRound, ok))
                                /\ srv' = IF ok THEN "keyed" ELSE "rejected"
      BY <1>2 DEF SrvAnswer
    <2>2. toClient' \in Seq(ServerMsgs) /\ srv' \in {"keyed", "rejected"}
      BY <2>1
    <2> QED
      BY <1>2, <2>2 DEF SrvAnswer
  <1>3. CASE SrvPush
    BY <1>3 DEF SrvPush
  <1>4. CASE SrvLeave
    <2>1. srvUp' \in BOOLEAN
      BY <1>4 DEF SrvLeave
    <2>2. UNCHANGED <<mainPc, colPc, sndPc, flagVars, keyVars, appVars, wireVars,
                      sndFrame, colMsg, srv, srvRound, pushes, toClient, delivered>>
      BY <1>4 DEF SrvLeave
    <2> QED
      BY <2>1, <2>2
  <1> QED
    BY <1>1, <1>2, <1>3, <1>4 DEF ServerNext, ServerHandshake

LEMMA TypeStep == TypeOK /\ [Next]_vars => TypeOK'
  <1>1. TypeOK /\ UNCHANGED vars => TypeOK'
    BY DEF TypeOK, vars, flagVars, keyVars, appVars, wireVars, srvVars
  <1> QED
    BY <1>1, TypeMain, TypeSender, TypeCollector, TypeServer DEF Next, Terminated

\* Type correctness of the whole connection (session.c, main.c).
THEOREM TypeCorrect == Spec => []TypeOK
  BY TypeInit, TypeStep, PTL DEF Spec

-----------------------------------------------------------------------------
(***************************************************************************)
(* The inductive invariant and the safety theorems.  Seven actions write   *)
(* to the wire, publish the key or make the server speak; each has a lemma *)
(* about the parts of the invariant it can disturb.  Then one lemma for    *)
(* each part goes through all actions.                                     *)
(***************************************************************************)

(***************************************************************************)
(* Sequences, frames and messages.                                         *)
(***************************************************************************)
\* What Append does to the elements of a sequence.
LEMMA AppendFacts ==
  ASSUME NEW S, NEW s \in Seq(S), NEW x \in S, NEW t, t = Append(s, x)
  PROVE  /\ Len(t) = Len(s) + 1 /\ Len(s) \in Nat
         /\ DOMAIN s = 1 .. Len(s) /\ DOMAIN t = 1 .. Len(s) + 1
         /\ \A i \in DOMAIN s : t[i] = s[i]
         /\ t[Len(s) + 1] = x
         /\ t # << >>
  <1>1. /\ Len(t) = Len(s) + 1 /\ Len(s) \in Nat
         /\ DOMAIN s = 1 .. Len(s) /\ DOMAIN t = 1 .. Len(s) + 1
         /\ \A i \in DOMAIN s : t[i] = s[i]
         /\ t[Len(s) + 1] = x
    OBVIOUS
  <1>2. t # << >>
    BY <1>1
  <1> QED
    BY <1>1, <1>2

\* What Tail does to them.
LEMMA TailFacts ==
  ASSUME NEW S, NEW s \in Seq(S), s # << >>, NEW t, t = Tail(s)
  PROVE  /\ Len(t) = Len(s) - 1 /\ Len(s) \in Nat \ {0}
         /\ DOMAIN s = 1 .. Len(s) /\ DOMAIN t = 1 .. Len(s) - 1
         /\ \A i \in DOMAIN t : t[i] = s[i + 1]
         /\ Head(s) = s[1] /\ s[1] \in S
         /\ t = << >> <=> Len(s) = 1
  <1>1. Len(s) \in Nat \ {0}
    OBVIOUS
  <1>2. Len(t) = Len(s) - 1 /\ t \in Seq(S)
    OBVIOUS
  <1>3. DOMAIN s = 1 .. Len(s) /\ DOMAIN t = 1 .. Len(s) - 1
    BY <1>1, <1>2
  <1>4. \A i \in DOMAIN t : t[i] = s[i + 1]
    BY <1>1, <1>2
  <1>5. Head(s) = s[1] /\ s[1] \in S
    BY <1>1
  <1>6. t = << >> <=> Len(s) = 1
    BY <1>1, <1>2, SMTT(30)
  <1> QED
    BY <1>1, <1>2, <1>3, <1>4, <1>5, <1>6

\* The fields of the server's messages.
LEMMA MsgFields ==
  /\ \A r, k : Offer(r, k).kind = "dh" /\ Offer(r, k).n = r
  /\ \A r, b : PublicA(r, b).kind = "key" /\ PublicA(r, b).n = r /\ PublicA(r, b).ok = b
  /\ \A n : Push(n).kind = "enc"
  BY DEF Offer, PublicA, Push

\* What the constructors of frames and messages put in their fields.
LEMMA FrameFields ==
  /\ IdFrame.kind = "id" /\ NoFrame.kind = "none"
  /\ \A r : BFrame(r).kind = "dh" /\ BFrame(r).n = r
  /\ \A m, k : /\ Encrypted(m, k).kind = "enc" /\ Encrypted(m, k).n = m
               /\ Encrypted(m, k).key = k
  BY DEF IdFrame, NoFrame, BFrame, Encrypted

\* What send() does to the wire.
LEMMA WireGrows ==
  ASSUME TypeOK, NEW f \in Frames, NEW p \in Parts, SendOk(f, p)
  PROVE  /\ socket = "open" /\ ~broken /\ broken' = broken
         /\ Len(wire') = Len(wire) + 1 /\ Len(wire) \in Nat
         /\ DOMAIN wire = 1 .. Len(wire) /\ DOMAIN wire' = 1 .. Len(wire) + 1
         /\ \A i \in DOMAIN wire : wire'[i] = wire[i]
         /\ wire'[Len(wire) + 1] = [frame |-> f, part |-> p]
         /\ \A g : Whole(g)' <=> Whole(g) \/ (g = f /\ p = "tail")
  <1>1. /\ socket = "open" /\ ~broken /\ broken' = broken
    BY DEF SendOk
  <1>2. wire \in Seq(Pieces) /\ wire' = Append(wire, [frame |-> f, part |-> p])
    BY DEF TypeOK, SendOk
  <1>3. /\ Len(wire') = Len(wire) + 1 /\ Len(wire) \in Nat
        /\ DOMAIN wire = 1 .. Len(wire) /\ DOMAIN wire' = 1 .. Len(wire) + 1
        /\ \A i \in DOMAIN wire : wire'[i] = wire[i]
        /\ wire'[Len(wire) + 1] = [frame |-> f, part |-> p]
    BY <1>2
  <1>4. \A g : Whole(g)' <=> Whole(g) \/ (g = f /\ p = "tail")
    BY <1>3 DEF Whole
  <1> QED
    BY <1>1, <1>3, <1>4

\* The wire stays whole when heads follow tails and tails their own head.
LEMMA WireStaysWhole ==
  ASSUME TypeOK, WireFramesWhole,
         NEW f \in Frames, NEW p \in Parts, SendOk(f, p),
         p = "head" => Len(wire) = 0 \/ wire[Len(wire)].part = "tail",
         p = "tail" => LastIs(f)
  PROVE  WireFramesWhole'
  <1>1. /\ Len(wire') = Len(wire) + 1 /\ Len(wire) \in Nat
        /\ DOMAIN wire = 1 .. Len(wire) /\ DOMAIN wire' = 1 .. Len(wire) + 1
        /\ \A i \in DOMAIN wire : wire'[i] = wire[i]
        /\ wire'[Len(wire) + 1] = [frame |-> f, part |-> p]
    BY WireGrows
  <1>2. ASSUME NEW i \in DOMAIN wire'
        PROVE  IF wire'[i].part = "tail"
               THEN i > 1 /\ wire'[i - 1] = [frame |-> wire'[i].frame, part |-> "head"]
               ELSE i = Len(wire') \/ wire'[i + 1].part = "tail"
    <2>1. CASE i = Len(wire) + 1
      <3>1. wire'[i] = [frame |-> f, part |-> p] /\ i = Len(wire')
        BY <1>1, <2>1
      <3>2. CASE p = "head"
        BY <3>1, <3>2
      <3>3. CASE p = "tail"
        <4>1. Len(wire) > 0 /\ wire[Len(wire)] = [frame |-> f, part |-> "head"]
          BY <3>3 DEF LastIs
        <4>2. i > 1 /\ wire'[i - 1] = wire[Len(wire)]
          BY <1>1, <2>1, <4>1
        <4> QED
          BY <3>1, <3>3, <4>1, <4>2
      <3> QED
        BY <3>2, <3>3 DEF Parts
    <2>2. CASE i \in DOMAIN wire /\ wire[i].part = "tail"
      <3>1. i > 1 /\ wire[i - 1] = [frame |-> wire[i].frame, part |-> "head"]
        BY <2>2 DEF WireFramesWhole
      <3>2. i - 1 \in DOMAIN wire /\ wire'[i] = wire[i] /\ wire'[i - 1] = wire[i - 1]
        BY <1>1, <2>2, <3>1
      <3> QED
        BY <2>2, <3>1, <3>2
    <2>3. CASE i \in DOMAIN wire /\ wire[i].part # "tail"
      <3>1. i = Len(wire) \/ wire[i + 1].part = "tail"
        BY <2>3 DEF WireFramesWhole
      <3>2. CASE i = Len(wire)
        <4>1. p = "tail"
          BY <1>1, <2>3, <3>2 DEF Parts
        <4>2. wire'[i] = wire[i]
          BY <1>1, <2>3
        <4>3. wire'[i + 1] = [frame |-> f, part |-> p]
          BY <1>1, <3>2
        <4> QED
          BY <2>3, <4>1, <4>2, <4>3
      <3>3. CASE i # Len(wire)
        <4>1. i + 1 \in DOMAIN wire /\ wire'[i] = wire[i] /\ wire'[i + 1] = wire[i + 1]
          BY <1>1, <2>3, <3>3
        <4> QED
          BY <2>3, <3>1, <3>3, <4>1
      <3> QED
        BY <3>2, <3>3
    <2> QED
      BY <1>1, <2>1, <2>2, <2>3
  <1> QED
    BY <1>2 DEF WireFramesWhole

\* GET_SESSION_ID on the main thread.
LEMMA IdStep ==
  ASSUME IInv, SendId
  PROVE  ServerStages' /\ Writers' /\ KeyStages' /\ WireFramesWhole'
  <1> USE FrameFields DEF flagVars, keyVars, appVars, wireVars, srvVars
  <1>0. /\ TypeOK /\ Phases /\ ServerStages /\ InHands /\ Writers /\ KeyStages /\ WireFramesWhole
        /\ IdFrame \in Frames
    BY FrameTypes DEF IInv
  <1>1. /\ colPc # "off" /\ srv = "idle" /\ sndPc \in {"loop", "done"}
        /\ colPc \notin {"bHead", "bTail"}
    BY <1>0 DEF Phases, ServerStages, InHands, SendId, TypeOK, SndPcs, Agreed
  <1>2. CASE mainPc = "idHead" /\ SendOk(IdFrame, "head") /\ mainPc' = "idTail"
    <2>1. wire = << >> /\ Len(wire) = 0
      BY <1>0, <1>2 DEF Writers
    <2>2. /\ DOMAIN wire' = 1 .. 1 /\ wire'[1] = [frame |-> IdFrame, part |-> "head"]
          /\ Len(wire') = 1
      <3>1. /\ Len(wire') = Len(wire) + 1 /\ DOMAIN wire' = 1 .. Len(wire) + 1
            /\ wire'[Len(wire) + 1] = [frame |-> IdFrame, part |-> "head"]
        BY <1>0, <1>2, WireGrows DEF Parts
      <3> QED
        BY <2>1, <3>1
    <2>3. ServerStages'
      BY <1>0, <1>1, <2>2 DEF ServerStages, SendId, Agreed
    <2>4. Writers'
      BY <1>0, <1>1, <1>2, <2>2 DEF Writers, LastIs, SendId
    <2>5. KeyStages'
      BY <1>0, <1>1, <2>2 DEF KeyStages, SendId, ServerKey
    <2>6. WireFramesWhole'
      BY <2>2 DEF WireFramesWhole
    <2> QED
      BY <2>3, <2>4, <2>5, <2>6
  <1>3. CASE mainPc = "idTail" /\ SendOk(IdFrame, "tail") /\ mainPc' = "check"
    <2>1. Len(wire) = 1 /\ wire[1] = [frame |-> IdFrame, part |-> "head"]
      BY <1>0, <1>3 DEF Writers, LastIs
    <2>2. /\ DOMAIN wire' = 1 .. 2 /\ Len(wire') = 2
          /\ wire'[1] = [frame |-> IdFrame, part |-> "head"]
          /\ wire'[2] = [frame |-> IdFrame, part |-> "tail"]
      <3>1. /\ Len(wire') = Len(wire) + 1 /\ DOMAIN wire' = 1 .. Len(wire) + 1
            /\ wire'[Len(wire) + 1] = [frame |-> IdFrame, part |-> "tail"]
            /\ DOMAIN wire = 1 .. Len(wire)
            /\ \A i \in DOMAIN wire : wire'[i] = wire[i]
        BY <1>0, <1>3, WireGrows DEF Parts
      <3> QED
        BY <2>1, <3>1
    <2>3. ServerStages'
      BY <1>0, <1>1, <2>2 DEF ServerStages, SendId, Agreed
    <2>4. Writers'
      BY <1>0, <1>1, <1>3, <2>2 DEF Writers, LastIs, SendId
    <2>5. KeyStages'
      BY <1>0, <1>1, <2>2 DEF KeyStages, SendId, ServerKey
    <2>6. WireFramesWhole'
      BY <2>2 DEF WireFramesWhole
    <2> QED
      BY <2>3, <2>4, <2>5, <2>6
  <1>4. CASE SendFails /\ mainPc' = "check"
    <2>1. wire' = wire /\ (broken' \/ socket' # "open")
      BY <1>4 DEF SendFails, SendId
    <2>2. ServerStages' /\ KeyStages' /\ WireFramesWhole'
      BY <1>0, <1>1, <2>1 DEF ServerStages, KeyStages, WireFramesWhole, SendId, ServerKey, Agreed, Whole
    <2>3. Writers'
      BY <1>0, <1>1, <1>4, <2>1 DEF Writers, LastIs, SendId
    <2> QED
      BY <2>2, <2>3
  <1> QED
    BY <1>2, <1>3, <1>4 DEF SendId

\* A request's frame on the sender thread.
LEMMA SenderSendStep ==
  ASSUME IInv, SenderSend
  PROVE  ServerStages' /\ Writers' /\ KeyStages' /\ WireFramesWhole'
  <1> USE FrameFields DEF flagVars, keyVars, appVars, wireVars, srvVars
  <1>0. /\ TypeOK /\ Phases /\ ServerStages /\ InHands /\ Writers /\ KeyStages
        /\ WireFramesWhole /\ sndFrame \in Frames
    BY DEF IInv, TypeOK
  <1>1. /\ sendKeyComplete /\ srv = "keyed" /\ colPc # "bTail" /\ mainPc \notin {"idHead", "idTail"}
    BY <1>0 DEF ServerStages, InHands, SenderSend, Agreed
  <1>2. UNCHANGED <<srv, srvRound, toClient, bbRound, colPc, mainPc,
                    sendKeyComplete, key, pending, socket>>
    BY DEF SenderSend
  <1>3. CASE wire' = wire /\ sndPc' = "drain" /\ sndPc \in {"head", "tail"} /\ (sndPc = "tail" => broken' \/ socket # "open") /\ (broken => broken')
    <2>1. ServerStages'
      BY <1>0, <1>2, <1>3 DEF ServerStages, Agreed, Whole
    <2>2. WireFramesWhole'
      BY <1>0, <1>3 DEF WireFramesWhole
    <2>3. KeyStages'
      BY <1>0, <1>2, <1>3 DEF KeyStages, ServerKey
    <2>4. Writers'
      BY <1>0, <1>2, <1>3 DEF Writers, LastIs
    <2> QED
      BY <2>1, <2>2, <2>3, <2>4
  <1>4. ASSUME NEW f \in Frames, NEW p \in Parts, SendOk(f, p), f.kind = "enc", sndFrame' = f \/ sndPc' = "drain",
               p = "head" => sndPc = "head" /\ sndPc' = "tail" /\ f.key = key,
               p = "tail" => sndPc = "tail" /\ sndPc' = "drain" /\ f = sndFrame
        PROVE  ServerStages' /\ Writers' /\ KeyStages' /\ WireFramesWhole'
    <2>1. /\ socket = "open" /\ ~broken
          /\ Len(wire') = Len(wire) + 1 /\ Len(wire) \in Nat
          /\ DOMAIN wire = 1 .. Len(wire) /\ DOMAIN wire' = 1 .. Len(wire) + 1
          /\ \A i \in DOMAIN wire : wire'[i] = wire[i]
          /\ wire'[Len(wire) + 1] = [frame |-> f, part |-> p]
          /\ \A g : Whole(g)' <=> Whole(g) \/ (g = f /\ p = "tail")
      BY <1>0, <1>4, WireGrows
    <2>2. /\ Whole(IdFrame)' <=> Whole(IdFrame)
          /\ \A r : Whole(BFrame(r))' <=> Whole(BFrame(r))
      BY <2>1, <1>4
    <2>3. \A i \in DOMAIN wire' :
             wire'[i].frame = IF i = Len(wire) + 1 THEN f ELSE wire[i].frame
      BY <2>1
    <2>4. ServerStages'
      BY <1>0, <1>1, <1>2, <1>4, <2>1, <2>2, <2>3 DEF ServerStages, Agreed
    <2>5. KeyStages'
      BY <1>0, <1>1, <1>2, <1>4, <2>1, <2>3 DEF KeyStages, ServerKey, Parts
    <2>6. Writers'
      BY <1>0, <1>1, <1>2, <1>4, <2>1 DEF Writers, LastIs, Parts
    <2>7. p = "tail" => LastIs(f)
      BY <1>0, <1>4 DEF Writers
    <2>8. p = "head" => Len(wire) = 0 \/ wire[Len(wire)].part = "tail"
      <3>1. SUFFICES ASSUME p = "head", Len(wire) > 0, wire[Len(wire)].part = "head"
                     PROVE  FALSE
        <4>1. \A i \in DOMAIN wire : wire[i] \in Pieces
          BY <1>0, <2>1 DEF TypeOK
        <4>2. \A i \in DOMAIN wire : wire[i].part \in {"head", "tail"}
          BY <4>1 DEF Pieces, Parts
        <4>3. Len(wire) = 0 \/ Len(wire) \in DOMAIN wire
          BY <2>1
        <4> QED
          BY <2>1, <4>2, <4>3 DEF Parts
      <3> QED
        BY <1>0, <1>1, <1>4, <2>1, <3>1 DEF Writers
    <2>9. WireFramesWhole'
      BY <1>0, <1>4, <2>7, <2>8, WireStaysWhole
    <2> QED
      BY <2>4, <2>5, <2>6, <2>9
  <1>5. CASE /\ sndPc = "head" /\ key # NoKey
             /\ SendOk(Encrypted(sndFrame.n, key), "head")
             /\ sndPc' = "tail" /\ sndFrame' = Encrypted(sndFrame.n, key)
    <2>1. Encrypted(sndFrame.n, key) \in Frames
      BY <1>0, FrameTypes DEF TypeOK
    <2> QED
      BY <1>4, <1>5, <2>1 DEF Parts
  <1>6. CASE /\ sndPc = "tail" /\ SendOk(sndFrame, "tail")
             /\ sndPc' = "drain" /\ sndFrame' = NoFrame
    <2>1. sndFrame.kind = "enc"
      BY <1>0, <1>6 DEF Writers
    <2> QED
      BY <1>0, <1>4, <1>6, <2>1 DEF Parts
  <1>7. CASE /\ sndPc = "head"
             /\ sndPc' = "drain" /\ sndFrame' = NoFrame /\ UNCHANGED wireVars
    BY <1>3, <1>7
  <1>8. CASE /\ sndPc = "tail" \/ (sndPc = "head" /\ key # NoKey)
             /\ SendFails
             /\ sndPc' = "drain" /\ sndFrame' = NoFrame
    BY <1>3, <1>8 DEF SendFails, TypeOK
  <1> QED
    BY <1>5, <1>6, <1>7, <1>8, Zenon DEF SenderSend

\* B on the collector thread.
LEMMA SendBStep ==
  ASSUME IInv, SendB
  PROVE  ServerStages' /\ InHands' /\ KeyStages' /\ WireFramesWhole'
  <1> USE FrameFields DEF flagVars, keyVars, appVars, wireVars, srvVars
  <1>0. /\ TypeOK /\ Phases /\ ServerStages /\ InHands /\ Writers /\ KeyStages
        /\ WireFramesWhole
    BY DEF IInv
  <1>1. /\ srv = "offered" /\ bbRound = srvRound /\ toClient = << >>
        /\ ~Whole(BFrame(srvRound)) /\ ~sendKeyComplete /\ srvRound \in Nat
        /\ sndPc \notin {"drain", "head", "tail"}
        /\ mainPc \notin {"connect", "idHead", "idTail"}
        /\ colPc \in {"bHead", "bTail"}
    BY <1>0 DEF ServerStages, InHands, SendB, Agreed, TypeOK
  <1>2. /\ UNCHANGED <<srv, srvRound, toClient, bbRound, mainPc, sndPc, sndFrame,
                       key, pending, socket, colMsg>>
        /\ ~sendKeyComplete' /\ colPc' \in {"bTail", "loop"}
    BY <1>1 DEF SendB
  <1>3. CASE SendFails /\ colPc' = "loop"
    <2>1. wire' = wire
      BY <1>3 DEF SendFails
    <2>2. ServerStages'
      BY <1>0, <1>1, <1>2, <1>3, <2>1 DEF ServerStages, Agreed, Whole
    <2>3. WireFramesWhole'
      BY <1>0, <2>1 DEF WireFramesWhole
    <2>4. KeyStages'
      BY <1>0, <1>1, <1>2, <1>3, <2>1 DEF KeyStages, ServerKey
    <2>5. InHands'
      BY <1>1, <1>2, <1>3 DEF InHands
    <2> QED
      BY <2>2, <2>3, <2>4, <2>5
  <1>4. ASSUME NEW p \in Parts, SendOk(BFrame(srvRound), p),
               p = "head" => colPc = "bHead" /\ colPc' = "bTail",
               p = "tail" => colPc = "bTail" /\ colPc' = "loop"
        PROVE  ServerStages' /\ InHands' /\ KeyStages' /\ WireFramesWhole'
    <2>0. BFrame(srvRound) \in Frames
      BY <1>1, FrameTypes
    <2>1. /\ socket = "open" /\ ~broken
          /\ Len(wire') = Len(wire) + 1 /\ Len(wire) \in Nat
          /\ DOMAIN wire = 1 .. Len(wire) /\ DOMAIN wire' = 1 .. Len(wire) + 1
          /\ \A i \in DOMAIN wire : wire'[i] = wire[i]
          /\ wire'[Len(wire) + 1] = [frame |-> BFrame(srvRound), part |-> p]
          /\ \A g : Whole(g)' <=> Whole(g) \/ (g = BFrame(srvRound) /\ p = "tail")
      BY <1>0, <1>4, <2>0, WireGrows
    <2>2. /\ Whole(IdFrame)' <=> Whole(IdFrame)
          /\ p = "head" => ~Whole(BFrame(srvRound))'
      <3>1. IdFrame # BFrame(srvRound)
        BY DEF IdFrame, BFrame
      <3>2. Whole(IdFrame)' <=> Whole(IdFrame)
        BY <2>1, <3>1
      <3>3. p = "head" => ~Whole(BFrame(srvRound))'
        BY <1>1, <1>2, <2>1
      <3> QED
        BY <3>2, <3>3
    <2>3. \A i \in DOMAIN wire' :
             wire'[i].frame = IF i = Len(wire) + 1 THEN BFrame(srvRound) ELSE wire[i].frame
      BY <2>1
    <2>4. ServerStages'
      BY <1>0, <1>1, <1>2, <1>4, <2>1, <2>2, <2>3 DEF ServerStages, Agreed
    <2>5. KeyStages'
      <3>1. \A i \in DOMAIN wire' : wire'[i].frame.kind = "enc" =>
               i \in DOMAIN wire /\ wire'[i].frame = wire[i].frame
        BY <2>1, <2>3
      <3> QED
        BY <1>0, <1>1, <1>2, <3>1 DEF KeyStages, ServerKey
    <2>6. InHands'
      <3>1. CASE p = "head"
        BY <1>1, <1>2, <1>4, <2>2, <3>1 DEF InHands
      <3>2. CASE p = "tail"
        BY <1>1, <1>2, <1>4, <3>2 DEF InHands
      <3> QED
        BY <3>1, <3>2 DEF Parts
    <2>7. p = "tail" => LastIs(BFrame(srvRound))
      BY <1>0, <1>1, <1>4 DEF Writers
    <2>8. p = "head" => Len(wire) = 0 \/ wire[Len(wire)].part = "tail"
      <3>1. SUFFICES ASSUME p = "head", Len(wire) > 0, wire[Len(wire)].part = "head"
                     PROVE  FALSE
        <4>1. \A i \in DOMAIN wire : wire[i] \in Pieces
          BY <1>0, <2>1 DEF TypeOK
        <4>2. \A i \in DOMAIN wire : wire[i].part \in {"head", "tail"}
          BY <4>1 DEF Pieces, Parts
        <4>3. Len(wire) = 0 \/ Len(wire) \in DOMAIN wire
          BY <2>1
        <4> QED
          BY <2>1, <4>2, <4>3 DEF Parts
      <3> QED
        BY <1>0, <1>1, <1>4, <2>1, <3>1 DEF Writers
    <2>9. WireFramesWhole'
      BY <1>0, <1>4, <2>0, <2>7, <2>8, WireStaysWhole
    <2> QED
      BY <2>4, <2>5, <2>6, <2>9
  <1> QED
    BY <1>1, <1>3, <1>4 DEF SendB, Parts

\* The collector takes the server's next message.
LEMMA CollectorRecvStep ==
  ASSUME IInv, CollectorRecv
  PROVE  UnderWay' /\ KeyStages'
  <1> USE DEF flagVars, keyVars, appVars, wireVars, srvVars
  <1>0. /\ TypeOK /\ ServerStages /\ UnderWay /\ InHands /\ KeyStages
    BY DEF IInv
  <1>1. /\ colPc = "loop" /\ toClient # << >> /\ colPc' \in {"handle", "closing"}
        /\ colMsg' = Head(toClient) /\ toClient' = Tail(toClient)
        /\ UNCHANGED <<srv, srvRound, wire, sendKeyComplete, pending, sndPc, sndFrame>>
    BY DEF CollectorRecv
  <1>2. /\ Len(toClient') = Len(toClient) - 1 /\ Len(toClient) \in Nat \ {0}
        /\ DOMAIN toClient = 1 .. Len(toClient)
        /\ DOMAIN toClient' = 1 .. Len(toClient) - 1
        /\ \A i \in DOMAIN toClient' : toClient'[i] = toClient[i + 1]
        /\ colMsg' = toClient[1]
    BY <1>0, <1>1, TailFacts DEF TypeOK
  <1>3. /\ toClient[1].kind = "enc" => sendKeyComplete
        /\ toClient[1].kind = "key" => ~sendKeyComplete
        /\ toClient[1].ok \in BOOLEAN
    <2>1. 1 \in DOMAIN toClient /\ toClient[1] \in ServerMsgs
      BY <1>0, <1>2 DEF TypeOK
    <2>2. toClient[1].ok \in BOOLEAN
      BY <2>1 DEF ServerMsgs
    <2>3. toClient[1].kind = "key" => ~sendKeyComplete
      BY <1>0, <2>1 DEF UnderWay, Agreed
    <2>4. toClient[1].kind = "enc" => sendKeyComplete
      BY <1>0, <1>1, <2>1 DEF UnderWay, Agreed, Closing
    <2> QED
      BY <2>2, <2>3, <2>4
  <1>4. KeyStages'
    <2>1. key' = key \/ (sendKeyComplete /\ key' = TestKey /\ key = NoKey)
      <3>1. Head(toClient) = toClient[1]
        BY <1>1, <1>2
      <3>2. key' = IF Head(toClient).kind = "enc" /\ key = NoKey THEN TestKey ELSE key
        BY DEF CollectorRecv
      <3>3. key' = IF toClient[1].kind = "enc" /\ key = NoKey THEN TestKey ELSE key
        BY <3>1, <3>2
      <3>4. CASE toClient[1].kind = "enc" /\ key = NoKey
        BY <1>3, <3>3, <3>4
      <3>5. CASE ~(toClient[1].kind = "enc" /\ key = NoKey)
        BY <3>3, <3>5
      <3> QED
        BY <3>4, <3>5
    <2>2. ~(StoreOrder = "program" /\ sendKeyComplete /\ key = NoKey)
      BY <1>0, SessionAssumption DEF KeyStages, ServerStages, ServerKey, NoKey, Agreed, Rounds
    <2> QED
      BY <1>0, <1>1, <2>1, <2>2 DEF KeyStages, ServerKey
  <1>5. UnderWay'
    <2>1. ASSUME NEW i \in DOMAIN toClient'
          PROVE  /\ i + 1 \in DOMAIN toClient /\ toClient'[i] = toClient[i + 1]
                 /\ i + 1 # 1 /\ 1 \in DOMAIN toClient /\ 1 # Len(toClient)
                 /\ i + 1 = Len(toClient) <=> i = Len(toClient')
      BY <1>2, <2>1
    <2>2. ASSUME NEW i \in DOMAIN toClient'
          PROVE  /\ toClient'[i].kind \in {"dh", "key", "enc"}
                 /\ toClient'[i].kind # "key"
                 /\ toClient'[i].kind = "enc" => srv = "keyed"
      BY <1>0, <2>1, <2>2 DEF UnderWay
    <2>3. ASSUME NEW i \in DOMAIN toClient', toClient'[i].kind = "dh"
          PROVE  /\ srv = "offered" /\ toClient'[i].n = srvRound
                 /\ i = Len(toClient') /\ ~Whole(BFrame(srvRound))
                 /\ toClient[1].kind = "key" /\ ~toClient[1].ok
      BY <1>0, <1>3, <2>1, <2>3 DEF UnderWay
    <2>4. \A f : Whole(f)' <=> Whole(f)
      BY <1>1 DEF Whole
    <2>5. srv = "keyed" =>
            \/ Agreed' \/ colPc' \in Closing
            \/ colPc' = "handle" /\ colMsg'.kind = "key" /\ colMsg'.ok
      BY <1>0, <1>1, <1>2, <1>3 DEF UnderWay, Agreed, Closing
    <2> QED
      BY <1>1, <1>2, <2>2, <2>3, <2>4, <2>5 DEF UnderWay
  <1> QED
    BY <1>4, <1>5

\* One store of compute_shared_key becomes visible.
LEMMA PublishStep ==
  ASSUME IInv, PublishStore
  PROVE  InHands' /\ KeyStages'
  <1> USE DEF flagVars, keyVars, appVars, wireVars, srvVars
  <1>0. /\ TypeOK /\ ServerStages /\ InHands /\ KeyStages
    BY DEF IInv
  <1>1. PICK i \in DOMAIN pending :
          /\ StoreOrder = "program" => i = 1
          /\ LET left == {pending[j] : j \in DOMAIN pending \ {i}} IN
             /\ pending' = [j \in 1 .. Len(pending) - 1 |->
                               pending[IF j < i THEN j ELSE j + 1]]
             /\ sendKeyComplete' = ("flag" \notin left)
             /\ key' = IF "pointer" \in left THEN key
                       ELSE IF "contents" \in left THEN Unfilled
                       ELSE <<bbRound, colMsg.n>>
    BY DEF PublishStore
  <1>2. /\ colPc = "publish" /\ colPc' = IF Len(pending) = 1 THEN "loop" ELSE "publish"
        /\ UNCHANGED <<srv, srvRound, wire, sndPc, sndFrame, toClient, colMsg, bbRound>>
        /\ Len(pending) \in Nat /\ DOMAIN pending = 1 .. Len(pending)
    BY <1>0 DEF PublishStore, TypeOK
  <1> DEFINE left == {pending[j] : j \in DOMAIN pending \ {i}}
  <1>3. /\ sendKeyComplete' <=> "flag" \notin left
        /\ key' = IF "pointer" \in left THEN key
                  ELSE IF "contents" \in left THEN Unfilled
                  ELSE <<bbRound, colMsg.n>>
    BY <1>1
  <1>4. /\ left = {} => sendKeyComplete' /\ key' = <<bbRound, colMsg.n>>
        /\ Len(pending) = 1 => left = {}
        /\ sendKeyComplete => "flag" \notin left
    <2>1. left = {} => sendKeyComplete' /\ key' = <<bbRound, colMsg.n>>
      BY <1>3
    <2>2. Len(pending) = 1 => left = {}
      BY <1>2
    <2>3. sendKeyComplete => "flag" \notin left
      BY <1>0, <1>2 DEF KeyStages
    <2> QED
      BY <2>1, <2>2, <2>3
  <1>5. ASSUME NEW j \in DOMAIN pending'
        PROVE  pending'[j] \in left
    <2>1. j \in 1 .. Len(pending) - 1
      BY <1>1, <1>5
    <2>2. pending'[j] = pending[IF j < i THEN j ELSE j + 1]
      BY <1>1, <2>1
    <2>3. (IF j < i THEN j ELSE j + 1) \in DOMAIN pending \ {i}
      BY <1>2, <2>1
    <2> QED
      BY <2>2, <2>3
  <1>6. /\ sendKeyComplete => sendKeyComplete'
        /\ colPc' = "loop" => sendKeyComplete' /\ left = {}
        /\ colPc' \in {"loop", "publish"}
    <2> HIDE DEF left
    <2> QED
      BY <1>2, <1>3, <1>4
  <1>7. InHands'
    BY <1>0, <1>2, <1>6 DEF InHands
  <1>8. /\ ~(colPc' # "publish" /\ ~sendKeyComplete')
        /\ sendKeyComplete' => \A j \in DOMAIN pending' : pending'[j] # "flag"
    <2> HIDE DEF left
    <2> QED
      BY <1>3, <1>5, <1>6
  <1>9. CASE StoreOrder = "program"
    <2>1. srv = "keyed" /\ bbRound = srvRound /\ colMsg.n = srvRound
      BY <1>0, <1>2 DEF ServerStages, InHands, Agreed
    <2>2. ~sendKeyComplete
      BY <1>0, <1>2, <1>9 DEF KeyStages
    <2>3. sndPc # "tail"
      BY <1>0, <2>2 DEF InHands
    <2>4. \/ pending = KeyStores /\ key = NoKey
          \/ pending = <<"contents", "flag">> /\ key = Unfilled
          \/ pending = <<"flag">> /\ key = ServerKey
      BY <1>0, <1>2, <1>9 DEF KeyStages
    <2>5. \/ colPc' = "publish" /\ ~sendKeyComplete' /\ pending' = <<"contents", "flag">> /\ key' = Unfilled
          \/ colPc' = "publish" /\ ~sendKeyComplete' /\ pending' = <<"flag">> /\ key' = ServerKey
          \/ colPc' = "loop" /\ sendKeyComplete' /\ key' = ServerKey
      <3>1. CASE pending = KeyStores
        <4>1. left = {"contents", "flag"} /\ Len(pending) = 3
          BY <1>1, <1>9, <3>1 DEF KeyStores
        <4>2. pending' = <<"contents", "flag">>
          BY <1>1, <1>9, <3>1 DEF KeyStores
        <4> HIDE DEF left
        <4> QED
          BY <1>2, <1>3, <4>1, <4>2
      <3>2. CASE pending = <<"contents", "flag">>
        <4>1. left = {"flag"} /\ Len(pending) = 2
          BY <1>1, <1>9, <3>2
        <4>2. pending' = <<"flag">>
          BY <1>1, <1>9, <3>2
        <4> HIDE DEF left
        <4> QED
          BY <1>2, <1>3, <2>1, <4>1, <4>2 DEF ServerKey
      <3>3. CASE pending = <<"flag">>
        <4>1. Len(pending) = 1
          BY <3>3
        <4> HIDE DEF left
        <4> QED
          BY <1>2, <1>4, <2>1, <4>1 DEF ServerKey
      <3> QED
        BY <2>4, <3>1, <3>2, <3>3
    <2>6. \A k \in DOMAIN wire' : wire'[k].frame.kind = "enc" =>
              srv' = "keyed" /\ wire'[k].frame.key = ServerKey'
      BY <1>0, <1>2, <1>9 DEF KeyStages, ServerKey
    <2>7. ServerKey' = ServerKey /\ sndPc' # "tail"
      BY <1>2, <2>3 DEF ServerKey
    <2>8. StoreOrder = "program" =>
            /\ sendKeyComplete' => key' = ServerKey' /\ colPc' # "publish"
            /\ colPc' = "publish" =>
                  \/ pending' = KeyStores /\ key' = NoKey
                  \/ pending' = <<"contents", "flag">> /\ key' = Unfilled
                  \/ pending' = <<"flag">> /\ key' = ServerKey'
      <3> HIDE DEF left
      <3> QED
        BY <2>5, <2>7
    <2> HIDE DEF left
    <2> QED
      BY <1>7, <1>8, <2>6, <2>7, <2>8, Zenon DEF KeyStages
  <1>10. CASE StoreOrder # "program"
    <2> HIDE DEF left
    <2> QED
      BY <1>7, <1>8, <1>10, Zenon DEF KeyStages
  <1> QED
    BY <1>7, <1>9, <1>10

\* The server offers the parameters of a new round.
LEMMA SrvOfferStep ==
  ASSUME IInv, SrvOffer
  PROVE  Phases' /\ UnderWay' /\ ServerStages'
  <1> USE FrameFields, MsgFields DEF flagVars, keyVars, appVars, wireVars, srvVars
  <1>0. /\ TypeOK /\ Phases /\ ServerStages /\ UnderWay /\ InHands /\ Writers
    BY DEF IInv
  <1>1. /\ UNCHANGED <<mainPc, colPc, sndPc, connected, service, socket, isClosed,
                       sendKeyComplete, wire, broken, bbRound, colMsg>>
        /\ srvRound' = srvRound + 1 /\ srv' = "offered"
        /\ srvRound \in Nat /\ srvRound' \in Rounds
    BY <1>0, SessionAssumption DEF SrvOffer, TypeOK, Rounds
  <1>2. PICK k \in {"sound", "weak"} : toClient' = Append(toClient, Offer(srvRound + 1, k))
    BY SessionAssumption DEF SrvOffer
  <1>3. Offer(srvRound + 1, k) \in ServerMsgs
    BY <1>1, MsgTypes
  <1>4. /\ Len(toClient') = Len(toClient) + 1 /\ Len(toClient) \in Nat
        /\ DOMAIN toClient = 1 .. Len(toClient)
        /\ DOMAIN toClient' = 1 .. Len(toClient) + 1
        /\ \A i \in DOMAIN toClient : toClient'[i] = toClient[i]
        /\ toClient'[Len(toClient) + 1] = Offer(srvRound + 1, k)
    BY <1>0, <1>2, <1>3, AppendFacts DEF TypeOK
  <1>5. /\ \A f : Whole(f)' <=> Whole(f)
        /\ \A r \in Nat : r > srvRound => ~Whole(BFrame(r))
    BY <1>0, <1>1 DEF Whole, ServerStages
  <1>6. Whole(IdFrame) /\ mainPc \notin {"connect", "idHead", "idTail"} /\ colPc # "off"
    <2>1. CASE srv = "idle"
      <3>1. Whole(IdFrame)
        BY <2>1 DEF SrvOffer
      <3>2. PICK i \in DOMAIN wire : wire[i] = [frame |-> IdFrame, part |-> "tail"]
        BY <3>1 DEF Whole
      <3>3. wire # << >> /\ colPc # "off" /\ mainPc \notin {"connect", "idHead"}
        BY <1>0, <3>2 DEF Phases, Writers
      <3>4. mainPc # "idTail"
        <4>1. DOMAIN wire = 1 .. Len(wire)
          BY <1>0 DEF TypeOK
        <4> QED
          BY <1>0, <3>2, <4>1 DEF Writers, LastIs
      <3> QED
        BY <3>1, <3>3, <3>4
    <2>2. CASE srv # "idle"
      BY <1>0, <2>2 DEF ServerStages, Phases
    <2> QED
      BY <2>1, <2>2
  <1>7. /\ ~Agreed /\ colPc \notin {"bHead", "bTail"}
        /\ colPc = "handle" => colMsg.kind = "key" /\ ~colMsg.ok
        /\ \A i \in DOMAIN toClient : toClient[i].kind = "key" /\ ~toClient[i].ok
    <2>1. srv # "keyed"
      BY DEF SrvOffer
    <2>2. ~Agreed
      BY <1>0, <2>1 DEF ServerStages
    <2>3. colPc \notin {"bHead", "bTail"}
      BY <1>0 DEF ServerStages, InHands, SrvOffer
    <2>4. colPc = "handle" => colMsg.kind = "key" /\ ~colMsg.ok
      BY <1>0, <2>1, <2>2 DEF ServerStages, InHands, SrvOffer, Agreed
    <2>5. \A i \in DOMAIN toClient : toClient[i].kind = "key" /\ ~toClient[i].ok
      BY <1>0, <2>1 DEF ServerStages, UnderWay, SrvOffer
    <2> QED
      BY <2>2, <2>3, <2>4, <2>5
  <1>8. Phases'
    BY <1>0, <1>1, <1>6 DEF Phases
  <1>9. ServerStages'
    <2>1. ~Whole(BFrame(srvRound))' /\ Whole(IdFrame)' /\ ~Agreed'
      BY <1>1, <1>5, <1>6, <1>7 DEF Agreed
    <2>2. \A i \in DOMAIN wire' : wire'[i].frame.kind = "dh" => wire'[i].frame.n <= srvRound'
      <3>1. \A i \in DOMAIN wire : wire[i].frame.kind = "dh" => wire[i].frame.n \in Nat
        <4>1. \A i \in DOMAIN wire : wire[i] \in Pieces
          BY <1>0 DEF TypeOK
        <4>2. \A i \in DOMAIN wire : wire[i].frame \in Frames
          BY <4>1 DEF Pieces
        <4> QED
          BY <4>2, FrameTypes
      <3> QED
        BY <1>0, <1>1, <3>1 DEF ServerStages
    <2> QED
      BY <1>1, <1>6, <2>1, <2>2 DEF ServerStages
  <1>10. UnderWay'
    <2>1. ~Agreed' /\ ~Whole(BFrame(srvRound))'
      BY <1>1, <1>5, <1>7 DEF Agreed
    <2>2. ASSUME NEW i \in DOMAIN toClient'
          PROVE  /\ toClient'[i].kind \in {"dh", "key"}
                 /\ toClient'[i].kind = "dh" => i = Len(toClient') /\ toClient'[i].n = srvRound'
                 /\ toClient'[i].kind = "key" =>
                       /\ i = 1 /\ colPc # "handle" /\ ~toClient'[i].ok
      <3>1. CASE i = Len(toClient) + 1
        BY <1>1, <1>4, <3>1
      <3>2. CASE i \in DOMAIN toClient
        <4>1. toClient'[i] = toClient[i] /\ toClient[i].kind = "key" /\ ~toClient[i].ok
          BY <1>4, <1>7, <3>2
        <4> QED
          BY <1>0, <3>2, <4>1 DEF UnderWay
      <3> QED
        BY <1>4, <3>1, <3>2
    <2> QED
      BY <1>1, <1>7, <2>1, <2>2 DEF UnderWay
  <1> QED
    BY <1>8, <1>9, <1>10

\* The server answers B with A.
LEMMA SrvAnswerStep ==
  ASSUME IInv, SrvAnswer
  PROVE  UnderWay'
  <1> USE MsgFields DEF flagVars, keyVars, appVars, wireVars, srvVars
  <1>1. PICK b \in BOOLEAN : /\ toClient' = Append(toClient, PublicA(srvRound, b))
                             /\ srv' = IF b THEN "keyed" ELSE "rejected"
    BY DEF SrvAnswer
  <1>2. /\ toClient = << >> /\ colPc \notin {"handle", "bHead", "bTail"} /\ ~Agreed
    BY DEF IInv, ServerStages, SrvAnswer
  <1>3. UNCHANGED <<colPc, colMsg, sendKeyComplete, srvRound>>
    BY DEF SrvAnswer
  <1>4. /\ DOMAIN toClient' = 1 .. 1 /\ toClient'[1] = PublicA(srvRound, b)
        /\ toClient' # << >>
    BY <1>1, <1>2
  <1> QED
    BY <1>1, <1>2, <1>3, <1>4 DEF UnderWay, Agreed

\* The server pushes a message.
LEMMA SrvPushStep ==
  ASSUME IInv, SrvPush
  PROVE  UnderWay'
  <1> USE MsgFields DEF flagVars, keyVars, appVars, wireVars, srvVars
  <1>0. TypeOK /\ UnderWay
    BY DEF IInv
  <1>1. /\ UNCHANGED <<colPc, colMsg, sendKeyComplete, srvRound, srv, wire>>
        /\ toClient' = Append(toClient, Push(pushes + 1)) /\ srv = "keyed"
    BY DEF SrvPush
  <1>2. Push(pushes + 1) \in ServerMsgs /\ toClient \in Seq(ServerMsgs)
    BY <1>0, SessionAssumption, MsgTypes DEF TypeOK
  <1>3. /\ Len(toClient') = Len(toClient) + 1 /\ Len(toClient) \in Nat
        /\ DOMAIN toClient = 1 .. Len(toClient)
        /\ DOMAIN toClient' = 1 .. Len(toClient) + 1
        /\ \A i \in DOMAIN toClient : toClient'[i] = toClient[i]
        /\ toClient'[Len(toClient) + 1] = Push(pushes + 1)
        /\ toClient' # << >>
    BY <1>1, <1>2, AppendFacts
  <1>4. ASSUME NEW i \in DOMAIN toClient'
        PROVE  \/ i \in DOMAIN toClient /\ toClient'[i] = toClient[i]
               \/ toClient'[i].kind = "enc"
    BY <1>3
  <1>5. toClient # << >> => 1 \in DOMAIN toClient /\ toClient'[1] = toClient[1]
    <2>1. toClient # << >> => Len(toClient) # 0
      BY <1>0 DEF TypeOK
    <2> QED
      BY <1>3, <2>1
  <1>6. ASSUME NEW i \in DOMAIN toClient'
        PROVE  /\ toClient'[i].kind \in {"key", "enc"}
               /\ toClient'[i].kind = "key" =>
                     /\ i = 1 /\ ~Agreed /\ colPc \notin {"handle", "bHead", "bTail"}
                     /\ toClient'[i].ok => toClient'[i].n = srvRound
                     /\ toClient'[i].ok
    BY <1>0, <1>1, <1>4, <1>6 DEF UnderWay
  <1>7. \/ Agreed \/ colPc \in Closing
        \/ toClient' # << >> /\ toClient'[1].kind = "key"
        \/ colPc = "handle" /\ colMsg.kind = "key" /\ colMsg.ok
    BY <1>0, <1>1, <1>3, <1>5 DEF UnderWay
  <1>8. Agreed' <=> Agreed
    BY <1>1 DEF Agreed
  <1> QED
    BY <1>1, <1>6, <1>7, <1>8 DEF UnderWay

(***************************************************************************)
(* One lemma for each part of the invariant.                               *)
(***************************************************************************)
\* The stages of the connection.
LEMMA PhasesStep == IInv /\ [Next]_vars => Phases'
  <1> SUFFICES ASSUME IInv, [Next]_vars PROVE Phases'
    OBVIOUS
  <1>0. /\ TypeOK /\ Phases /\ ServerStages /\ UnderWay /\ InHands /\ Writers
        /\ KeyStages /\ WireFramesWhole
    BY DEF IInv
  <1> USE <1>0, SessionAssumption DEF flagVars, keyVars, appVars, wireVars,
         srvVars, Phases, TypeOK, SendOk, SendFails, Closing, Closed, InHands,
         ServerStages, UnderWay, Agreed
  <1>1. ConnectOk => Phases'
    BY DEF ConnectOk
  <1>2. ConnectFails => Phases'
    BY DEF ConnectFails
  <1>3. SendId => Phases'
    BY DEF SendId
  <1>4. CheckConnected => Phases'
    BY DEF CheckConnected
  <1>5. SendCheck => Phases'
    BY DEF SendCheck
  <1>6. SendAdd => Phases'
    BY DEF SendAdd
  <1>7. Destroy => Phases'
    BY DEF Destroy
  <1>8. (\E via \in {"user", "service"} : UiRequest(via)) => Phases'
    BY DEF UiRequest
  <1>9. UiNullService => Phases'
    BY DEF UiNullService
  <1>10. ForceExit => Phases'
    BY DEF ForceExit
  <1>11. SenderLoop => Phases'
    BY DEF SenderLoop
  <1>12. SenderTake => Phases'
    BY DEF SenderTake
  <1>13. SenderSend => Phases'
    BY DEF SenderSend
  <1>14. CollectorRecv => Phases'
    BY DEF CollectorRecv
  <1>15. CollectorStop => Phases'
    BY DEF CollectorStop
  <1>16. HandleParams => Phases'
    BY DEF HandleParams
  <1>17. HandleKey => Phases'
    BY DEF HandleKey
  <1>18. HandleOther => Phases'
    BY DEF HandleOther
  <1>19. SendB => Phases'
    <2> SUFFICES ASSUME SendB PROVE Phases'
      OBVIOUS
    <2>1. UNCHANGED <<mainPc, sndPc, connected, service, isClosed, socket, srv>>
      BY DEF SendB
    <2>2. colPc \in {"bHead", "bTail"} /\ colPc' \in {"bTail", "loop"}
      BY DEF SendB
    <2> QED
      BY <2>1, <2>2
  <1>20. PublishStore => Phases'
    BY DEF PublishStore
  <1>21. CollectorClose => Phases'
    BY DEF CollectorClose, SessionCloseMessage, CleanNetwork
  <1>22. SrvOffer => Phases'
    BY SrvOfferStep
  <1>23. SrvAnswer => Phases'
    BY DEF SrvAnswer
  <1>24. SrvPush => Phases'
    BY DEF SrvPush
  <1>25. SrvLeave => Phases'
    BY DEF SrvLeave
  <1>26. UNCHANGED vars => Phases'
    BY DEF vars
  <1> HIDE <1>0, SessionAssumption DEF flagVars, keyVars, appVars, wireVars,
         srvVars, Phases, TypeOK, SendOk, SendFails, Closing, Closed, InHands,
         ServerStages, UnderWay, Agreed
  <1> QED
    BY <1>1, <1>2, <1>3, <1>4, <1>5, <1>6, <1>7, <1>8, <1>9, <1>10, <1>11,
           <1>12, <1>13, <1>14, <1>15, <1>16, <1>17, <1>18, <1>19, <1>20,
           <1>21, <1>22, <1>23, <1>24, <1>25, <1>26 DEF Next, Terminated,
           MainNext, UserNext, SenderNext, CollectorNext, ServerNext,
           ServerHandshake

\* What the server has said and asked.
LEMMA ServerStagesStep == IInv /\ [Next]_vars => ServerStages'
  <1> SUFFICES ASSUME IInv, [Next]_vars PROVE ServerStages'
    OBVIOUS
  <1>0. /\ TypeOK /\ Phases /\ ServerStages /\ UnderWay /\ InHands /\ Writers
        /\ KeyStages /\ WireFramesWhole
    BY DEF IInv
  <1> USE <1>0, SessionAssumption DEF flagVars, keyVars, appVars, wireVars,
         srvVars, ServerStages, TypeOK, SendOk, SendFails, Closing, InHands,
         UnderWay, Phases, Agreed, Whole
  <1>1. ConnectOk => ServerStages'
    BY DEF ConnectOk
  <1>2. ConnectFails => ServerStages'
    BY DEF ConnectFails
  <1>3. SendId => ServerStages'
    BY IdStep
  <1>4. CheckConnected => ServerStages'
    BY DEF CheckConnected
  <1>5. SendCheck => ServerStages'
    BY DEF SendCheck
  <1>6. SendAdd => ServerStages'
    BY DEF SendAdd
  <1>7. Destroy => ServerStages'
    BY DEF Destroy
  <1>8. (\E via \in {"user", "service"} : UiRequest(via)) => ServerStages'
    BY DEF UiRequest
  <1>9. UiNullService => ServerStages'
    BY DEF UiNullService
  <1>10. ForceExit => ServerStages'
    BY DEF ForceExit
  <1>11. SenderLoop => ServerStages'
    BY DEF SenderLoop
  <1>12. SenderTake => ServerStages'
    BY DEF SenderTake
  <1>13. SenderSend => ServerStages'
    BY SenderSendStep
  <1>14. CollectorRecv => ServerStages'
    BY DEF CollectorRecv
  <1>15. CollectorStop => ServerStages'
    BY DEF CollectorStop
  <1>16. HandleParams => ServerStages'
    BY DEF HandleParams
  <1>17. HandleKey => ServerStages'
    BY DEF HandleKey
  <1>18. HandleOther => ServerStages'
    BY DEF HandleOther
  <1>19. SendB => ServerStages'
    BY SendBStep
  <1>20. PublishStore => ServerStages'
    BY DEF PublishStore
  <1>21. CollectorClose => ServerStages'
    BY SMTT(30) DEF CollectorClose, SessionCloseMessage, CleanNetwork
  <1>22. SrvOffer => ServerStages'
    BY SrvOfferStep
  <1>23. SrvAnswer => ServerStages'
    BY DEF SrvAnswer
  <1>24. SrvPush => ServerStages'
    BY DEF SrvPush
  <1>25. SrvLeave => ServerStages'
    BY DEF SrvLeave
  <1>26. UNCHANGED vars => ServerStages'
    BY DEF vars
  <1> HIDE <1>0, SessionAssumption DEF flagVars, keyVars, appVars, wireVars,
         srvVars, ServerStages, TypeOK, SendOk, SendFails, Closing, InHands,
         UnderWay, Phases, Agreed, Whole
  <1> QED
    BY <1>1, <1>2, <1>3, <1>4, <1>5, <1>6, <1>7, <1>8, <1>9, <1>10, <1>11,
           <1>12, <1>13, <1>14, <1>15, <1>16, <1>17, <1>18, <1>19, <1>20,
           <1>21, <1>22, <1>23, <1>24, <1>25, <1>26 DEF Next, Terminated,
           MainNext, UserNext, SenderNext, CollectorNext, ServerNext,
           ServerHandshake

\* What is under way to the client.
LEMMA UnderWayStep == IInv /\ [Next]_vars => UnderWay'
  <1> SUFFICES ASSUME IInv, [Next]_vars PROVE UnderWay'
    OBVIOUS
  <1>0. /\ TypeOK /\ Phases /\ ServerStages /\ UnderWay /\ InHands /\ Writers
        /\ KeyStages /\ WireFramesWhole
    BY DEF IInv
  <1> USE <1>0, SessionAssumption DEF flagVars, keyVars, appVars, wireVars,
         srvVars, UnderWay, TypeOK, SendOk, SendFails, Closing, InHands,
         ServerStages, Phases, Agreed, Whole
  <1>1. ConnectOk => UnderWay'
    BY DEF ConnectOk
  <1>2. ConnectFails => UnderWay'
    BY DEF ConnectFails
  <1>3. SendId => UnderWay'
    BY DEF SendId
  <1>4. CheckConnected => UnderWay'
    BY DEF CheckConnected
  <1>5. SendCheck => UnderWay'
    BY DEF SendCheck
  <1>6. SendAdd => UnderWay'
    BY DEF SendAdd
  <1>7. Destroy => UnderWay'
    BY DEF Destroy
  <1>8. (\E via \in {"user", "service"} : UiRequest(via)) => UnderWay'
    BY DEF UiRequest
  <1>9. UiNullService => UnderWay'
    BY DEF UiNullService
  <1>10. ForceExit => UnderWay'
    BY DEF ForceExit
  <1>11. SenderLoop => UnderWay'
    BY DEF SenderLoop
  <1>12. SenderTake => UnderWay'
    BY DEF SenderTake
  <1>13. SenderSend => UnderWay'
    BY DEF SenderSend
  <1>14. CollectorRecv => UnderWay'
    BY CollectorRecvStep
  <1>15. CollectorStop => UnderWay'
    BY DEF CollectorStop
  <1>16. HandleParams => UnderWay'
    BY DEF HandleParams
  <1>17. HandleKey => UnderWay'
    BY DEF HandleKey
  <1>18. HandleOther => UnderWay'
    BY DEF HandleOther
  <1>19. SendB => UnderWay'
    BY DEF SendB
  <1>20. PublishStore => UnderWay'
    BY DEF PublishStore
  <1>21. CollectorClose => UnderWay'
    BY DEF CollectorClose, SessionCloseMessage, CleanNetwork
  <1>22. SrvOffer => UnderWay'
    BY SrvOfferStep
  <1>23. SrvAnswer => UnderWay'
    BY SrvAnswerStep
  <1>24. SrvPush => UnderWay'
    BY SrvPushStep
  <1>25. SrvLeave => UnderWay'
    BY DEF SrvLeave
  <1>26. UNCHANGED vars => UnderWay'
    BY DEF vars
  <1> HIDE <1>0, SessionAssumption DEF flagVars, keyVars, appVars, wireVars,
         srvVars, UnderWay, TypeOK, SendOk, SendFails, Closing, InHands,
         ServerStages, Phases, Agreed, Whole
  <1> QED
    BY <1>1, <1>2, <1>3, <1>4, <1>5, <1>6, <1>7, <1>8, <1>9, <1>10, <1>11,
           <1>12, <1>13, <1>14, <1>15, <1>16, <1>17, <1>18, <1>19, <1>20,
           <1>21, <1>22, <1>23, <1>24, <1>25, <1>26 DEF Next, Terminated,
           MainNext, UserNext, SenderNext, CollectorNext, ServerNext,
           ServerHandshake

\* What the collector holds.
LEMMA InHandsStep == IInv /\ [Next]_vars => InHands'
  <1> SUFFICES ASSUME IInv, [Next]_vars PROVE InHands'
    OBVIOUS
  <1>0. /\ TypeOK /\ Phases /\ ServerStages /\ UnderWay /\ InHands /\ Writers
        /\ KeyStages /\ WireFramesWhole
    BY DEF IInv
  <1> USE <1>0, SessionAssumption DEF flagVars, keyVars, appVars, wireVars,
         srvVars, InHands, TypeOK, SendOk, SendFails, Closing, UnderWay,
         ServerStages, Phases, Agreed, Whole
  <1>1. ConnectOk => InHands'
    BY DEF ConnectOk
  <1>2. ConnectFails => InHands'
    BY DEF ConnectFails
  <1>3. SendId => InHands'
    BY DEF SendId
  <1>4. CheckConnected => InHands'
    BY DEF CheckConnected
  <1>5. SendCheck => InHands'
    BY DEF SendCheck
  <1>6. SendAdd => InHands'
    BY DEF SendAdd
  <1>7. Destroy => InHands'
    BY DEF Destroy
  <1>8. (\E via \in {"user", "service"} : UiRequest(via)) => InHands'
    BY DEF UiRequest
  <1>9. UiNullService => InHands'
    BY DEF UiNullService
  <1>10. ForceExit => InHands'
    BY DEF ForceExit
  <1>11. SenderLoop => InHands'
    BY DEF SenderLoop
  <1>12. SenderTake => InHands'
    BY DEF SenderTake
  <1>13. SenderSend => InHands'
    BY DEF SenderSend
  <1>14. CollectorRecv => InHands'
    BY SMTT(40) DEF CollectorRecv
  <1>15. CollectorStop => InHands'
    BY DEF CollectorStop
  <1>16. HandleParams => InHands'
    BY DEF HandleParams
  <1>17. HandleKey => InHands'
    BY DEF HandleKey
  <1>18. HandleOther => InHands'
    BY DEF HandleOther
  <1>19. SendB => InHands'
    BY SendBStep
  <1>20. PublishStore => InHands'
    BY PublishStep
  <1>21. CollectorClose => InHands'
    <2> SUFFICES ASSUME CollectorClose PROVE InHands'
      OBVIOUS
    <2>1. /\ colPc' \in Closing
          /\ UNCHANGED <<sndPc, sendKeyComplete>>
      BY DEF CollectorClose, SessionCloseMessage, CleanNetwork, Closing
    <2> QED
      BY <2>1 DEF Closing
  <1>22. SrvOffer => InHands'
    BY DEF SrvOffer
  <1>23. SrvAnswer => InHands'
    BY DEF SrvAnswer
  <1>24. SrvPush => InHands'
    BY DEF SrvPush
  <1>25. SrvLeave => InHands'
    BY DEF SrvLeave
  <1>26. UNCHANGED vars => InHands'
    BY DEF vars
  <1> HIDE <1>0, SessionAssumption DEF flagVars, keyVars, appVars, wireVars,
         srvVars, InHands, TypeOK, SendOk, SendFails, Closing, UnderWay,
         ServerStages, Phases, Agreed, Whole
  <1> QED
    BY <1>1, <1>2, <1>3, <1>4, <1>5, <1>6, <1>7, <1>8, <1>9, <1>10, <1>11,
           <1>12, <1>13, <1>14, <1>15, <1>16, <1>17, <1>18, <1>19, <1>20,
           <1>21, <1>22, <1>23, <1>24, <1>25, <1>26 DEF Next, Terminated,
           MainNext, UserNext, SenderNext, CollectorNext, ServerNext,
           ServerHandshake

\* Who is in the middle of a frame.
LEMMA WritersStep == IInv /\ [Next]_vars => Writers'
  <1> SUFFICES ASSUME IInv, [Next]_vars PROVE Writers'
    OBVIOUS
  <1>0. /\ TypeOK /\ Phases /\ ServerStages /\ UnderWay /\ InHands /\ Writers
        /\ KeyStages /\ WireFramesWhole
    BY DEF IInv
  <1> USE <1>0, SessionAssumption DEF flagVars, keyVars, appVars, wireVars,
         srvVars, Writers, TypeOK, SendOk, SendFails, Closing, InHands,
         ServerStages, Phases, LastIs, Whole, Agreed, Encrypted
  <1>1. ConnectOk => Writers'
    BY DEF ConnectOk
  <1>2. ConnectFails => Writers'
    BY DEF ConnectFails
  <1>3. SendId => Writers'
    BY IdStep
  <1>4. CheckConnected => Writers'
    BY DEF CheckConnected
  <1>5. SendCheck => Writers'
    BY DEF SendCheck
  <1>6. SendAdd => Writers'
    BY DEF SendAdd
  <1>7. Destroy => Writers'
    BY DEF Destroy
  <1>8. (\E via \in {"user", "service"} : UiRequest(via)) => Writers'
    BY DEF UiRequest
  <1>9. UiNullService => Writers'
    BY DEF UiNullService
  <1>10. ForceExit => Writers'
    BY DEF ForceExit
  <1>11. SenderLoop => Writers'
    BY DEF SenderLoop
  <1>12. SenderTake => Writers'
    BY DEF SenderTake
  <1>13. SenderSend => Writers'
    BY SenderSendStep
  <1>14. CollectorRecv => Writers'
    BY DEF CollectorRecv
  <1>15. CollectorStop => Writers'
    BY DEF CollectorStop
  <1>16. HandleParams => Writers'
    BY DEF HandleParams
  <1>17. HandleKey => Writers'
    BY DEF HandleKey
  <1>18. HandleOther => Writers'
    BY DEF HandleOther
  <1>19. SendB => Writers'
    BY SMTT(30) DEF SendB
  <1>20. PublishStore => Writers'
    BY DEF PublishStore
  <1>21. CollectorClose => Writers'
    BY DEF CollectorClose, SessionCloseMessage, CleanNetwork
  <1>22. SrvOffer => Writers'
    BY DEF SrvOffer
  <1>23. SrvAnswer => Writers'
    BY DEF SrvAnswer
  <1>24. SrvPush => Writers'
    BY DEF SrvPush
  <1>25. SrvLeave => Writers'
    BY DEF SrvLeave
  <1>26. UNCHANGED vars => Writers'
    BY DEF vars
  <1> HIDE <1>0, SessionAssumption DEF flagVars, keyVars, appVars, wireVars,
         srvVars, Writers, TypeOK, SendOk, SendFails, Closing, InHands,
         ServerStages, Phases, LastIs, Whole, Agreed, Encrypted
  <1> QED
    BY <1>1, <1>2, <1>3, <1>4, <1>5, <1>6, <1>7, <1>8, <1>9, <1>10, <1>11,
           <1>12, <1>13, <1>14, <1>15, <1>16, <1>17, <1>18, <1>19, <1>20,
           <1>21, <1>22, <1>23, <1>24, <1>25, <1>26 DEF Next, Terminated,
           MainNext, UserNext, SenderNext, CollectorNext, ServerNext,
           ServerHandshake

\* The key as its stores become visible.
LEMMA KeyStagesStep == IInv /\ [Next]_vars => KeyStages'
  <1> SUFFICES ASSUME IInv, [Next]_vars PROVE KeyStages'
    OBVIOUS
  <1>0. /\ TypeOK /\ Phases /\ ServerStages /\ UnderWay /\ InHands /\ Writers
        /\ KeyStages /\ WireFramesWhole
    BY DEF IInv
  <1> USE <1>0, SessionAssumption DEF flagVars, keyVars, appVars, wireVars,
         srvVars, KeyStages, TypeOK, SendOk, SendFails, Closing, InHands,
         ServerStages, Phases, Encrypted, Agreed, ServerKey, KeyStores, Whole,
         IdFrame, BFrame
  <1>1. ConnectOk => KeyStages'
    BY DEF ConnectOk
  <1>2. ConnectFails => KeyStages'
    BY DEF ConnectFails
  <1>3. SendId => KeyStages'
    BY IdStep
  <1>4. CheckConnected => KeyStages'
    BY SMTT(30) DEF CheckConnected
  <1>5. SendCheck => KeyStages'
    BY DEF SendCheck
  <1>6. SendAdd => KeyStages'
    BY SMTT(40) DEF SendAdd
  <1>7. Destroy => KeyStages'
    BY DEF Destroy
  <1>8. (\E via \in {"user", "service"} : UiRequest(via)) => KeyStages'
    BY DEF UiRequest
  <1>9. UiNullService => KeyStages'
    BY DEF UiNullService
  <1>10. ForceExit => KeyStages'
    BY DEF ForceExit
  <1>11. SenderLoop => KeyStages'
    BY DEF SenderLoop
  <1>12. SenderTake => KeyStages'
    BY DEF SenderTake
  <1>13. SenderSend => KeyStages'
    BY SenderSendStep
  <1>14. CollectorRecv => KeyStages'
    BY CollectorRecvStep
  <1>15. CollectorStop => KeyStages'
    BY DEF CollectorStop
  <1>16. HandleParams => KeyStages'
    BY DEF HandleParams
  <1>17. HandleKey => KeyStages'
    BY DEF HandleKey
  <1>18. HandleOther => KeyStages'
    BY DEF HandleOther
  <1>19. SendB => KeyStages'
    BY SendBStep
  <1>20. PublishStore => KeyStages'
    BY PublishStep
  <1>21. CollectorClose => KeyStages'
    BY SMTT(30) DEF CollectorClose, SessionCloseMessage, CleanNetwork
  <1>22. SrvOffer => KeyStages'
    BY DEF SrvOffer
  <1>23. SrvAnswer => KeyStages'
    BY DEF SrvAnswer
  <1>24. SrvPush => KeyStages'
    BY SMTT(30) DEF SrvPush
  <1>25. SrvLeave => KeyStages'
    BY SMTT(30) DEF SrvLeave
  <1>26. UNCHANGED vars => KeyStages'
    BY SMTT(30) DEF vars
  <1> HIDE <1>0, SessionAssumption DEF flagVars, keyVars, appVars, wireVars,
         srvVars, KeyStages, TypeOK, SendOk, SendFails, Closing, InHands,
         ServerStages, Phases, Encrypted, Agreed, ServerKey, KeyStores, Whole,
         IdFrame, BFrame
  <1> QED
    BY <1>1, <1>2, <1>3, <1>4, <1>5, <1>6, <1>7, <1>8, <1>9, <1>10, <1>11,
           <1>12, <1>13, <1>14, <1>15, <1>16, <1>17, <1>18, <1>19, <1>20,
           <1>21, <1>22, <1>23, <1>24, <1>25, <1>26 DEF Next, Terminated,
           MainNext, UserNext, SenderNext, CollectorNext, ServerNext,
           ServerHandshake

\* Frames are never interleaved.
LEMMA WireFramesWholeStep == IInv /\ [Next]_vars => WireFramesWhole'
  <1> SUFFICES ASSUME IInv, [Next]_vars PROVE WireFramesWhole'
    OBVIOUS
  <1>0. /\ TypeOK /\ Phases /\ ServerStages /\ UnderWay /\ InHands /\ Writers
        /\ KeyStages /\ WireFramesWhole
    BY DEF IInv
  <1> USE <1>0, SessionAssumption DEF flagVars, keyVars, appVars, wireVars,
         srvVars, WireFramesWhole, TypeOK, SendOk, SendFails, Writers, LastIs,
         Phases
  <1>1. ConnectOk => WireFramesWhole'
    BY DEF ConnectOk
  <1>2. ConnectFails => WireFramesWhole'
    BY DEF ConnectFails
  <1>3. SendId => WireFramesWhole'
    BY IdStep
  <1>4. CheckConnected => WireFramesWhole'
    BY DEF CheckConnected
  <1>5. SendCheck => WireFramesWhole'
    BY DEF SendCheck
  <1>6. SendAdd => WireFramesWhole'
    BY DEF SendAdd
  <1>7. Destroy => WireFramesWhole'
    BY DEF Destroy
  <1>8. (\E via \in {"user", "service"} : UiRequest(via)) => WireFramesWhole'
    BY DEF UiRequest
  <1>9. UiNullService => WireFramesWhole'
    BY DEF UiNullService
  <1>10. ForceExit => WireFramesWhole'
    BY DEF ForceExit
  <1>11. SenderLoop => WireFramesWhole'
    BY DEF SenderLoop
  <1>12. SenderTake => WireFramesWhole'
    BY DEF SenderTake
  <1>13. SenderSend => WireFramesWhole'
    BY SenderSendStep
  <1>14. CollectorRecv => WireFramesWhole'
    BY DEF CollectorRecv
  <1>15. CollectorStop => WireFramesWhole'
    BY DEF CollectorStop
  <1>16. HandleParams => WireFramesWhole'
    BY DEF HandleParams
  <1>17. HandleKey => WireFramesWhole'
    BY DEF HandleKey
  <1>18. HandleOther => WireFramesWhole'
    BY DEF HandleOther
  <1>19. SendB => WireFramesWhole'
    BY SendBStep
  <1>20. PublishStore => WireFramesWhole'
    BY DEF PublishStore
  <1>21. CollectorClose => WireFramesWhole'
    BY DEF CollectorClose, SessionCloseMessage, CleanNetwork
  <1>22. SrvOffer => WireFramesWhole'
    BY DEF SrvOffer
  <1>23. SrvAnswer => WireFramesWhole'
    BY DEF SrvAnswer
  <1>24. SrvPush => WireFramesWhole'
    BY DEF SrvPush
  <1>25. SrvLeave => WireFramesWhole'
    BY DEF SrvLeave
  <1>26. UNCHANGED vars => WireFramesWhole'
    BY DEF vars
  <1> HIDE <1>0, SessionAssumption DEF flagVars, keyVars, appVars, wireVars,
         srvVars, WireFramesWhole, TypeOK, SendOk, SendFails, Writers, LastIs,
         Phases
  <1> QED
    BY <1>1, <1>2, <1>3, <1>4, <1>5, <1>6, <1>7, <1>8, <1>9, <1>10, <1>11,
           <1>12, <1>13, <1>14, <1>15, <1>16, <1>17, <1>18, <1>19, <1>20,
           <1>21, <1>22, <1>23, <1>24, <1>25, <1>26 DEF Next, Terminated,
           MainNext, UserNext, SenderNext, CollectorNext, ServerNext,
           ServerHandshake

(***************************************************************************)
(* The theorems.                                                           *)
(***************************************************************************)
\* The invariant holds at the start.
LEMMA IInvInit == Init => IInv
  <1> SUFFICES ASSUME Init PROVE IInv
    OBVIOUS
  <1>1. TypeOK
    BY TypeInit
  <1>2. /\ mainPc = "connect" /\ colPc = "off" /\ sndPc = "off"
        /\ ~connected /\ service /\ ~isClosed /\ ~sendKeyComplete
        /\ key = NoKey /\ socket = "none"
    BY DEF Init
  <1>3. srv = "idle" /\ wire = << >> /\ ~broken /\ srvRound = 0 /\ toClient = << >>
    BY DEF Init
  <1>4. DOMAIN wire = {} /\ Len(wire) = 0 /\ DOMAIN toClient = {}
    BY <1>3
  <1>5. Phases
    BY <1>2, <1>3 DEF Phases, Closing, Closed
  <1>6. ServerStages /\ UnderWay /\ InHands
    BY <1>2, <1>3, <1>4 DEF ServerStages, UnderWay, InHands, Agreed
  <1>7. Writers /\ KeyStages /\ WireFramesWhole
    BY <1>2, <1>4 DEF Writers, KeyStages, WireFramesWhole
  <1> QED
    BY <1>1, <1>5, <1>6, <1>7 DEF IInv

\* The invariant holds in every reachable state.
THEOREM Invariant == Spec => []IInv
  <1>1. IInv /\ [Next]_vars => IInv'
    BY TypeStep, PhasesStep, ServerStagesStep, UnderWayStep, InHandsStep,
       WritersStep, KeyStagesStep, WireFramesWholeStep DEF IInv
  <1> QED
    BY IInvInit, <1>1, PTL DEF Spec

\* No two frames of the three threads are ever interleaved on the socket, in
\* whatever order the stores of compute_shared_key become visible.
THEOREM FramesNeverInterleave == Spec => []WireFramesWhole
  <1>1. IInv => WireFramesWhole
    BY DEF IInv
  <1> QED
    BY Invariant, <1>1, PTL

\* Where stores become visible in program order, a client that considers the
\* exchange complete has the server's key.
THEOREM KeysAgree ==
  ASSUME StoreOrder = "program" PROVE Spec => []KeyAgreement
  <1>1. IInv => KeyAgreement
    BY DEF IInv, KeyStages, ServerStages, Agreed, KeyAgreement
  <1> QED
    BY Invariant, <1>1, PTL

\* Where stores become visible in program order, every request on the wire is
\* encrypted under the agreed key.
THEOREM OnlyTheAgreedKey ==
  ASSUME StoreOrder = "program" PROVE Spec => []RequestsUnderAgreedKey
  <1>1. IInv => RequestsUnderAgreedKey
    BY DEF IInv, KeyStages, RequestsUnderAgreedKey
  <1> QED
    BY Invariant, <1>1, PTL

\* Where stores become visible in program order, the key never changes once
\* requests may be encrypted with it.
THEOREM KeyIsFinal ==
  ASSUME StoreOrder = "program" PROVE Spec => KeyNeverChanges
  <1>1. IInv /\ [Next]_vars => [sendKeyComplete => sendKeyComplete' /\ key' = key]_vars
    <2> SUFFICES ASSUME IInv, Next, sendKeyComplete
                 PROVE  sendKeyComplete' /\ key' = key
      OBVIOUS
    <2>1. srv = "keyed" /\ colPc # "publish" /\ key = ServerKey /\ key # NoKey
      BY SessionAssumption DEF IInv, ServerStages, KeyStages, Agreed, ServerKey, NoKey, Rounds
    <2>2. colPc \notin {"bHead", "bTail"}
      BY <2>1 DEF IInv, InHands
    <2>3. CASE CollectorRecv
      BY <2>1, <2>3 DEF CollectorRecv
    <2>4. CASE SendB
      BY <2>2, <2>4 DEF SendB
    <2>5. CASE PublishStore
      BY <2>1, <2>5 DEF PublishStore
    <2>6. CASE HandleParams \/ HandleKey
      BY <2>6 DEF HandleParams, HandleKey
    <2>7. CASE CollectorStop \/ HandleOther \/ CollectorClose
      BY <2>7 DEF CollectorStop, HandleOther, CollectorClose,
          SessionCloseMessage, CleanNetwork, keyVars
    <2>8. CASE SenderNext
      BY <2>8 DEF SenderNext, SenderLoop, SenderTake, SenderSend, keyVars
    <2>9. CASE ServerNext
      BY <2>9 DEF ServerNext, ServerHandshake, SrvOffer, SrvAnswer, SrvPush, SrvLeave, keyVars
    <2>10. CASE MainNext
      BY <2>10 DEF MainNext, ConnectOk, ConnectFails, SendId, CheckConnected, SendCheck, SendAdd, Destroy, keyVars
    <2>11. CASE UserNext
      BY <2>11 DEF UserNext, UiRequest, UiNullService, ForceExit, keyVars
    <2>12. CASE Terminated
      BY <2>12 DEF Terminated, vars, keyVars
    <2> QED
      BY <2>3, <2>4, <2>5, <2>6, <2>7, <2>8, <2>9, <2>10, <2>11, <2>12
         DEF Next, CollectorNext
  <1> QED
    BY Invariant, <1>1, PTL DEF Spec, KeyNeverChanges

-----------------------------------------------------------------------------
(***************************************************************************)
(* The session is a secure channel: requests that were accepted go out     *)
(* once, in order and under the agreed key, and the server's messages are  *)
(* delivered in order.  First the counting of what has been sent, then the *)
(* parts of the invariant CInv, then the refinement of SecureChannel.      *)
(***************************************************************************)

(***************************************************************************)
(* The k-th smallest of a set of numbers.                                  *)
(***************************************************************************)
Upto(S, i) == {j \in S : j <= i}
OfRank(S, k) == {i \in S : Cardinality(Upto(S, i)) = k}

LEMMA NthIsOfRank ==
  ASSUME NEW S, NEW T, NEW k, NEW m, OfRank(S, k) = OfRank(T, m)
  PROVE  Nth(S, k) = Nth(T, m)
  <1>1. Nth(S, k) = CHOOSE i : i \in OfRank(S, k)
    BY Zenon DEF Nth, OfRank, Upto
  <1>2. Nth(T, m) = CHOOSE i : i \in OfRank(T, m)
    BY Zenon DEF Nth, OfRank, Upto
  <1> QED
    BY <1>1, <1>2

\* A number above all others is the last one, and leaves the others in place.
LEMMA NthGrows ==
  ASSUME NEW n \in Nat, NEW S \in SUBSET (1 .. n)
  PROVE  /\ Cardinality(S) \in Nat
         /\ Cardinality(S \cup {n + 1}) = Cardinality(S) + 1
         /\ \A k \in 1 .. Cardinality(S) : Nth(S \cup {n + 1}, k) = Nth(S, k)
         /\ Nth(S \cup {n + 1}, Cardinality(S) + 1) = n + 1
  <1> DEFINE T == S \cup {n + 1}
             c == Cardinality(S)
  <1>1. IsFiniteSet(S) /\ c \in Nat
    <2>1. IsFiniteSet(1 .. n)
      BY FS_Interval
    <2> QED
      BY <2>1, FS_Subset, FS_CardinalityType
  <1>2. n + 1 \notin S
    OBVIOUS
  <1>3. Cardinality(T) = c + 1
    BY <1>1, <1>2, FS_AddElement
  <1>4. ASSUME NEW i \in S
        PROVE  Upto(T, i) = Upto(S, i) /\ Cardinality(Upto(S, i)) <= c
    <2>1. Upto(T, i) = Upto(S, i)
      BY DEF Upto
    <2>2. Upto(S, i) \in SUBSET S
      BY DEF Upto
    <2> QED
      BY <1>1, <2>1, <2>2, FS_Subset
  <1>5. Upto(T, n + 1) = T
    <2>1. \A j \in T : j <= n + 1
      OBVIOUS
    <2> HIDE DEF T
    <2> QED
      BY <2>1 DEF Upto
  <1>6. ASSUME NEW k \in 1 .. c PROVE Nth(T, k) = Nth(S, k)
    <2>1. \A i \in S : Cardinality(Upto(T, i)) = Cardinality(Upto(S, i))
      BY <1>4, Zenon
    <2>2. Cardinality(Upto(T, n + 1)) # k
      <3>1. c + 1 # k
        BY <1>1
      <3> QED
        BY <1>3, <1>5, <3>1
    <2>3. OfRank(T, k) = OfRank(S, k)
      BY <2>1, <2>2 DEF OfRank
    <2> QED
      BY <2>3, NthIsOfRank
  <1>7. Nth(T, c + 1) = n + 1
    <2>1. \A i \in S : Cardinality(Upto(T, i)) # c + 1
      <3> TAKE i \in S
      <3>1. Cardinality(Upto(S, i)) \in Nat
        <4>1. Upto(S, i) \in SUBSET S
          BY DEF Upto
        <4> QED
          BY <1>1, <4>1, FS_Subset, FS_CardinalityType
      <3>2. Cardinality(Upto(T, i)) = Cardinality(Upto(S, i)) /\ Cardinality(Upto(S, i)) <= c
        BY <1>4
      <3> QED
        BY <1>1, <3>1, <3>2
    <2>2. Cardinality(Upto(T, n + 1)) = c + 1
      BY <1>3, <1>5
    <2>3. OfRank(T, c + 1) = {n + 1}
      BY <2>1, <2>2 DEF OfRank
    <2>4. Nth(T, c + 1) = CHOOSE i : i \in OfRank(T, c + 1)
      BY Zenon DEF Nth, OfRank, Upto
    <2> QED
      BY <2>3, <2>4
  <1> QED
    BY <1>1, <1>3, <1>6, <1>7

(***************************************************************************)
(* What a step does to the requests sent.                                  *)
(***************************************************************************)
LEMMA SentPlacesType ==
  ASSUME TypeOK
  PROVE  /\ Len(wire) \in Nat /\ SentPlaces \in SUBSET (1 .. Len(wire))
         /\ Cardinality(SentPlaces) \in Nat
  <1>1. Len(wire) \in Nat /\ DOMAIN wire = 1 .. Len(wire)
    BY DEF TypeOK
  <1>2. SentPlaces \in SUBSET (1 .. Len(wire))
    BY <1>1 DEF SentPlaces
  <1> QED
    BY <1>1, <1>2, NthGrows

\* The numbers of the requests sent, in order.
LEMMA TransmittedType ==
  ASSUME TypeOK, Placed
  PROVE  Transmitted \in Seq(Nat) /\ Len(Transmitted) = Cardinality(SentPlaces)
  <1>1. Cardinality(SentPlaces) \in Nat
    BY SentPlacesType
  <1>2. ASSUME NEW i \in SentPlaces PROVE wire[i].frame.n \in Nat
    <2>1. wire[i] \in Pieces
      BY DEF SentPlaces, TypeOK
    <2> QED
      BY <2>1, FrameTypes DEF Pieces
  <1>3. \A k \in 1 .. Cardinality(SentPlaces) : wire[Nth(SentPlaces, k)].frame.n \in Nat
    BY <1>2 DEF Placed
  <1> QED
    BY <1>1, <1>3 DEF Transmitted

\* Steps that neither write nor change the agreed key.
LEMMA TransmittedStays ==
  ASSUME Placed, wire' = wire, srvRound' = srvRound
  PROVE  Placed' /\ Transmitted' = Transmitted
  BY DEF Placed, Transmitted, SentPlaces, SentWhole, ServerKey

\* A piece is written: only the tail of an encrypted frame counts.
LEMMA TransmittedGrows ==
  ASSUME TypeOK, TypeOK', Placed, NEW f \in Frames, NEW p \in Parts, SendOk(f, p),
         srvRound' = srvRound
  PROVE  /\ Placed'
         /\ Transmitted' = IF p = "tail" /\ f.kind = "enc" /\ f.key = ServerKey
                           THEN Append(Transmitted, f.n) ELSE Transmitted
  <1> DEFINE S == SentPlaces
             n == Len(wire)
             counts == p = "tail" /\ f.kind = "enc" /\ f.key = ServerKey
  <1>1. /\ n \in Nat /\ DOMAIN wire = 1 .. n /\ DOMAIN wire' = 1 .. n + 1
        /\ \A i \in DOMAIN wire : wire'[i] = wire[i]
        /\ wire'[n + 1] = [frame |-> f, part |-> p]
    BY WireGrows
  <1>2. S \in SUBSET (1 .. n)
    BY SentPlacesType
  <1>3. ServerKey' = ServerKey
    BY DEF ServerKey
  <1>4. \A q : SentWhole(q)' <=> SentWhole(q)
    BY <1>3 DEF SentWhole
  <1>5. SentWhole(wire'[n + 1]) <=> counts
    BY <1>1 DEF SentWhole
  <1>6. SentPlaces' = {i \in DOMAIN wire' : SentWhole(wire'[i])}
    BY <1>3 DEF SentPlaces, SentWhole
  <1>7. SentPlaces' = IF counts THEN S \cup {n + 1} ELSE S
    <2>1. \A i \in DOMAIN wire : SentWhole(wire'[i]) <=> i \in S
      BY <1>1 DEF SentPlaces
    <2> QED
      <3> HIDE DEF counts
      <3>1. \A i : i \in SentPlaces' <=> i \in 1 .. n + 1 /\ SentWhole(wire'[i])
        BY <1>1, <1>6, Zenon
      <3>2. \A i \in 1 .. n : i \in SentPlaces' <=> i \in S
        BY <1>1, <2>1, <3>1
      <3>3. n + 1 \in SentPlaces' <=> counts
        BY <1>1, <1>5, <3>1
      <3>4. SentPlaces' \subseteq 1 .. n + 1
        BY <3>1
      <3>5. n + 1 \notin S /\ S \subseteq 1 .. n /\ 1 .. n + 1 = (1 .. n) \cup {n + 1}
        BY <1>1, <1>2
      <3> HIDE DEF S, n
      <3>6. CASE counts
        BY <3>2, <3>3, <3>4, <3>5, <3>6
      <3>7. CASE ~counts
        <4>1. \A i : i \in SentPlaces' => i \in 1 .. n
          BY <3>3, <3>4, <3>5, <3>7, Zenon
        <4>2. \A i : i \in SentPlaces' <=> i \in S
          BY <3>2, <3>5, <4>1, Zenon
        <4>3. SentPlaces' = S
          BY <4>2
        <4> QED
          BY <3>7, <4>3
      <3> QED
        BY <3>6, <3>7
  <1>8. Cardinality(S) \in Nat /\ Transmitted \in Seq(Nat) /\ Len(Transmitted) = Cardinality(S)
    BY SentPlacesType, TransmittedType
  <1>9. Transmitted' = [k \in 1 .. Cardinality(SentPlaces') |-> wire'[Nth(SentPlaces', k)].frame.n]
    BY DEF Transmitted, Nth
  <1>10. \A k \in 1 .. Cardinality(S) : Nth(S, k) \in S /\ wire'[Nth(S, k)] = wire[Nth(S, k)]
    BY <1>1, <1>2 DEF Placed
  <1>11. Placed' <=> \A k \in 1 .. Cardinality(SentPlaces') : Nth(SentPlaces', k) \in SentPlaces'
    BY DEF Placed, Nth
  <1>12. CASE ~counts
    <2>1. SentPlaces' = S
      BY <1>7, <1>12
    <2>2. Placed'
      BY <1>10, <1>11, <2>1
    <2>3. Transmitted' = Transmitted
      BY <1>9, <1>10, <2>1 DEF Transmitted
    <2> QED
      BY <1>12, <2>2, <2>3
  <1>13. CASE counts
    <2> HIDE DEF counts
    <2>1. SentPlaces' = S \cup {n + 1}
      BY <1>7, <1>13
    <2>2. /\ Cardinality(SentPlaces') = Cardinality(S) + 1
          /\ \A k \in 1 .. Cardinality(S) : Nth(SentPlaces', k) = Nth(S, k)
          /\ Nth(SentPlaces', Cardinality(S) + 1) = n + 1
      BY <1>1, <1>2, <2>1, NthGrows
    <2> HIDE DEF S, n
    <2>3. Placed'
      <3> SUFFICES ASSUME NEW k \in 1 .. Cardinality(S) + 1
                   PROVE  Nth(SentPlaces', k) \in S \cup {n + 1}
        BY <1>11, <2>1, <2>2
      <3>1. CASE k = Cardinality(S) + 1
        BY <2>2, <3>1
      <3>2. CASE k # Cardinality(S) + 1
        <4>1. k \in 1 .. Cardinality(S)
          BY <1>8, <3>2
        <4> QED
          BY <1>10, <2>2, <4>1
      <3> QED
        BY <3>1, <3>2
    <2>4. Transmitted' = Append(Transmitted, f.n)
      <3>1. /\ Transmitted = [k \in 1 .. Cardinality(S) |-> wire[Nth(S, k)].frame.n]
        BY DEF Transmitted, S
      <3>2. \A k \in 1 .. Cardinality(S) : wire'[Nth(SentPlaces', k)].frame.n = Transmitted[k]
        BY <1>10, <2>2, <3>1
      <3>3. wire'[Nth(SentPlaces', Cardinality(S) + 1)].frame.n = f.n
        BY <1>1, <2>2 DEF n
      <3>4. Append(Transmitted, f.n)
              = [k \in 1 .. Cardinality(S) + 1 |->
                    IF k = Cardinality(S) + 1 THEN f.n ELSE Transmitted[k]]
        <4>1. f.n \in Nat
          BY FrameTypes
        <4> QED
          BY <1>8, <4>1
      <3>5. \A k \in 1 .. Cardinality(S) + 1 :
               wire'[Nth(SentPlaces', k)].frame.n
                 = IF k = Cardinality(S) + 1 THEN f.n ELSE Transmitted[k]
        BY <1>8, <3>2, <3>3
      <3> QED
        BY <1>9, <2>2, <3>4, <3>5
    <2> QED
      BY <1>13, <2>3, <2>4 DEF counts
  <1> QED
    BY <1>12, <1>13

(***************************************************************************)
(* The parts of the invariant, each through the actions that disturb it.   *)
(***************************************************************************)
LEMMA SocketLifeStep == IInv /\ SocketLife /\ Next => SocketLife'
  <1> SUFFICES ASSUME IInv, SocketLife, Next PROVE SocketLife'
    OBVIOUS
  <1>0. Phases
    BY DEF IInv
  <1> USE <1>0 DEF SocketLife, Phases, Closing, Closed, flagVars, keyVars, appVars,
                   wireVars, srvVars
  <1>1. ConnectOk \/ ConnectFails => SocketLife'
    BY DEF ConnectOk, ConnectFails
  <1>2. SendAdd => SocketLife'
    BY DEF SendAdd
  <1>3. Destroy => SocketLife'
    BY DEF Destroy
  <1>4. SendId \/ CheckConnected \/ SendCheck => SocketLife'
    BY DEF SendId, CheckConnected, SendCheck
  <1>5. UserNext => SocketLife'
    BY DEF UserNext, UiRequest, UiNullService, ForceExit
  <1>6. SenderNext => SocketLife'
    BY DEF SenderNext, SenderLoop, SenderTake, SenderSend
  <1>7. CollectorClose => SocketLife'
    BY DEF CollectorClose, SessionCloseMessage, CleanNetwork
  <1>8. CollectorRecv \/ CollectorStop => SocketLife'
    BY DEF CollectorRecv, CollectorStop
  <1>9. HandleParams \/ HandleKey \/ HandleOther => SocketLife'
    BY DEF HandleParams, HandleKey, HandleOther
  <1>10. SendB \/ PublishStore => SocketLife'
    BY DEF SendB, PublishStore
  <1>11. ServerNext => SocketLife'
    BY DEF ServerNext, ServerHandshake, SrvOffer, SrvAnswer, SrvPush, SrvLeave
  <1>12. Terminated => SocketLife'
    BY DEF Terminated, vars
  <1> QED
    BY <1>1, <1>2, <1>3, <1>4, <1>5, <1>6, <1>7, <1>8, <1>9, <1>10, <1>11, <1>12, Zenon
       DEF Next, MainNext, CollectorNext

LEMMA HoldingStep == IInv /\ Holding /\ Next => Holding'
  <1> SUFFICES ASSUME IInv, Holding, Next PROVE Holding'
    OBVIOUS
  <1>1. MainNext => Holding'
    BY DEF IInv, Phases, MainNext, ConnectOk, ConnectFails, SendId, CheckConnected,
           SendCheck, SendAdd, Destroy, Holding
  <1>2. SenderLoop => Holding'
    BY DEF SenderLoop, Holding
  <1>3. SenderTake => Holding'
    BY FrameFields DEF SenderTake, Holding
  <1>4. SenderSend => Holding'
    BY FrameFields DEF SenderSend, Holding
  <1>5. UserNext \/ CollectorNext \/ ServerNext \/ Terminated
          => sndPc' = sndPc /\ sndFrame' = sndFrame
    BY DEF UserNext, UiRequest, UiNullService, ForceExit, CollectorNext, CollectorRecv,
           CollectorStop, HandleParams, HandleKey, HandleOther, SendB, PublishStore,
           CollectorClose, ServerNext, ServerHandshake, SrvOffer, SrvAnswer, SrvPush,
           SrvLeave, Terminated, vars
  <1>6. sndPc' = sndPc /\ sndFrame' = sndFrame => Holding'
    BY DEF Holding
  <1> QED
    BY <1>1, <1>2, <1>3, <1>4, <1>5, <1>6, Zenon DEF Next, SenderNext

LEMMA NumberedStep == IInv /\ Numbered /\ Next => Numbered'
  <1> SUFFICES ASSUME IInv, Numbered, Next PROVE Numbered'
    OBVIOUS
  <1>0. TypeOK
    BY DEF IInv
  <1>a. \A i \in DOMAIN accepted : accepted[i] \in Nat
    BY <1>0 DEF TypeOK
  <1>b. nreq \in 0 .. MaxRequests /\ MaxRequests \in Nat
    BY <1>0, SessionAssumption DEF TypeOK
  <1>1. ASSUME NEW via \in {"user", "service"}, UiRequest(via) PROVE Numbered'
    BY <1>1, <1>a, <1>b DEF UiRequest, Numbered, Requests
  <1>2. SendAdd => Numbered'
    <2> SUFFICES ASSUME SendAdd PROVE Numbered'
      OBVIOUS
    <2>1. accepted' = Append(accepted, request) /\ nreq' = nreq /\ mainPc' = "gtk"
      BY DEF SendAdd
    <2>2. request = nreq /\ request \in Nat
      BY <1>b DEF SendAdd, Numbered, Requests
    <2>3. /\ DOMAIN accepted' = 1 .. Len(accepted) + 1 /\ DOMAIN accepted = 1 .. Len(accepted)
          /\ \A i \in DOMAIN accepted : accepted'[i] = accepted[i]
          /\ accepted'[Len(accepted) + 1] = request /\ Len(accepted) \in Nat
      BY <1>0, <2>1, <2>2, AppendFacts DEF TypeOK
    <2>4. \A i \in DOMAIN accepted : accepted[i] < request
      BY <2>2 DEF SendAdd, Numbered
    <2>5. Increasing(accepted')
      BY <1>a, <2>2, <2>3, <2>4 DEF Numbered, Increasing
    <2>6. \A i \in DOMAIN accepted' : accepted'[i] <= nreq
      BY <1>a, <1>b, <2>2, <2>3, <2>4
    <2> QED
      BY <2>1, <2>5, <2>6 DEF Numbered
  <1>3. ConnectOk \/ ConnectFails \/ SendId \/ CheckConnected \/ SendCheck \/ Destroy => Numbered'
    BY DEF ConnectOk, ConnectFails, SendId, CheckConnected, SendCheck, Destroy, appVars, Numbered
  <1>4. UiNullService \/ ForceExit => Numbered'
    BY DEF UiNullService, ForceExit, appVars, Numbered
  <1>5. SenderNext \/ CollectorNext \/ ServerNext \/ Terminated
          => UNCHANGED <<mainPc, request, nreq, accepted>>
    BY DEF SenderNext, SenderLoop, SenderTake, SenderSend, CollectorNext, CollectorRecv,
           CollectorStop, HandleParams, HandleKey, HandleOther, SendB, PublishStore,
           CollectorClose, ServerNext, ServerHandshake, SrvOffer, SrvAnswer, SrvPush,
           SrvLeave, Terminated, vars, appVars
  <1>6. UNCHANGED <<mainPc, request, nreq, accepted>> => Numbered'
    BY DEF Numbered
  <1> QED
    BY <1>1, <1>2, <1>3, <1>4, <1>5, <1>6, Zenon DEF Next, MainNext, UserNext

(***************************************************************************)
(* What each action does to the requests sent.                             *)
(***************************************************************************)
\* A whole tail from the sender is one more request sent, and nothing else is.
SendsRequest ==
    /\ sndPc = "tail" /\ SendOk(sndFrame, "tail")
    /\ sndPc' = "drain" /\ sndFrame' = NoFrame

LEMMA SenderTransmits ==
  ASSUME StoreOrder = "program", IInv, IInv', Holding, Placed, SenderSend
  PROVE  /\ Placed'
         /\ \/ SendsRequest /\ Transmitted' = Append(Transmitted, sndFrame.n)
            \/ Transmitted' = Transmitted /\ (broken' \/ socket # "open" \/ sndPc = "head")
  <1>1. TypeOK /\ TypeOK' /\ InHands /\ KeyStages
    BY DEF IInv
  <1>2. srvRound' = srvRound
    BY DEF SenderSend, srvVars
  <1>3. Encrypted(sndFrame.n, key) \in Frames /\ sndFrame \in Frames
    BY <1>1, FrameTypes DEF TypeOK
  <1>4. CASE sndPc = "head" /\ SendOk(Encrypted(sndFrame.n, key), "head")
    <2>1. Placed' /\ Transmitted' = Transmitted
      BY <1>1, <1>2, <1>3, <1>4, TransmittedGrows DEF Parts
    <2> QED
      BY <1>4, <2>1
  <1>5. CASE sndPc = "tail" /\ SendOk(sndFrame, "tail") /\ sndPc' = "drain" /\ sndFrame' = NoFrame
    <2>1. sndFrame.kind = "enc" /\ sndFrame.key = ServerKey
      BY <1>1, <1>5 DEF Holding, KeyStages
    <2>2. Placed' /\ Transmitted' = Append(Transmitted, sndFrame.n)
      BY <1>1, <1>2, <1>3, <1>5, <2>1, TransmittedGrows DEF Parts
    <2> QED
      BY <1>5, <2>2 DEF SendsRequest
  <1>6. CASE SendFails /\ sndPc \in {"head", "tail"}
    <2>1. wire' = wire /\ (broken' \/ socket # "open")
      BY <1>6 DEF SendFails
    <2> QED
      BY <1>2, <2>1, TransmittedStays
  <1>7. CASE sndPc = "head" /\ UNCHANGED wireVars
    BY <1>2, <1>7, TransmittedStays DEF wireVars
  <1> QED
    BY <1>4, <1>5, <1>6, <1>7 DEF SenderSend

\* GET_SESSION_ID and B are not requests, and new parameters are offered only
\* before any request has gone out.
LEMMA OthersTransmitNothing ==
  ASSUME StoreOrder = "program", IInv, IInv', Placed, Next, ~SenderSend
  PROVE  Placed' /\ Transmitted' = Transmitted
  <1>0. TypeOK /\ TypeOK' /\ KeyStages
    BY DEF IInv
  <1>1. CASE SendId
    <2>1. srvRound' = srvRound
      BY <1>1 DEF SendId, srvVars
    <2>2. CASE SendFails
      BY <2>1, <2>2, TransmittedStays DEF SendFails
    <2>3. ASSUME NEW p \in Parts, SendOk(IdFrame, p) PROVE Placed' /\ Transmitted' = Transmitted
      <3>1. IdFrame \in Frames /\ IdFrame.kind # "enc"
        BY FrameTypes, FrameFields
      <3> QED
        BY <1>0, <2>1, <2>3, <3>1, TransmittedGrows
    <2> QED
      BY <1>1, <2>2, <2>3 DEF SendId, Parts
  <1>2. CASE SendB
    <2>1. srvRound' = srvRound
      BY <1>2 DEF SendB, srvVars
    <2>2. CASE SendFails
      BY <2>1, <2>2, TransmittedStays DEF SendFails
    <2>3. ASSUME NEW p \in Parts, SendOk(BFrame(bbRound), p)
          PROVE  Placed' /\ Transmitted' = Transmitted
      <3>1. BFrame(bbRound) \in Frames /\ BFrame(bbRound).kind # "enc"
        BY <1>0, FrameTypes, FrameFields DEF TypeOK
      <3> QED
        BY <1>0, <2>1, <2>3, <3>1, TransmittedGrows
    <2> QED
      BY <1>2, <2>2, <2>3 DEF SendB, Parts
  <1>3. CASE SrvOffer
    <2>1. srv # "keyed" /\ wire' = wire
      BY <1>3 DEF SrvOffer, wireVars
    <2>2. \A i \in DOMAIN wire : wire[i].frame.kind # "enc"
      BY <1>0, <2>1 DEF KeyStages
    <2>3. SentPlaces = {} /\ SentPlaces' = {}
      BY <2>1, <2>2 DEF SentPlaces, SentWhole
    <2>4. Cardinality({}) = 0
      BY FS_EmptySet
    <2>5. Placed'
      BY <2>3, <2>4 DEF Placed
    <2>6. Transmitted' = Transmitted
      <3>1. Transmitted = [k \in {} |-> wire[Nth(SentPlaces, k)].frame.n]
        BY <2>3, <2>4 DEF Transmitted
      <3>2. Transmitted' = [k \in {} |-> wire'[Nth(SentPlaces', k)].frame.n]
        BY <2>3, <2>4 DEF Transmitted, Nth
      <3> QED
        BY <3>1, <3>2
    <2> QED
      BY <2>5, <2>6
  <1>4. CASE ~SendId /\ ~SendB /\ ~SrvOffer
    <2>1. MainNext \/ UserNext => wire' = wire /\ srvRound' = srvRound
      BY <1>4 DEF MainNext, UserNext, ConnectOk, ConnectFails, CheckConnected, SendCheck,
              SendAdd, Destroy, UiRequest, UiNullService, ForceExit, wireVars, srvVars
    <2>2. SenderLoop \/ SenderTake => wire' = wire /\ srvRound' = srvRound
      BY DEF SenderLoop, SenderTake, wireVars, srvVars
    <2>3. CollectorNext => wire' = wire /\ srvRound' = srvRound
      BY <1>4 DEF CollectorNext, CollectorRecv, CollectorStop, HandleParams, HandleKey,
              HandleOther, PublishStore, CollectorClose, wireVars, srvVars
    <2>4. ServerNext \/ Terminated => wire' = wire /\ srvRound' = srvRound
      BY <1>4 DEF ServerNext, ServerHandshake, SrvAnswer, SrvPush, SrvLeave, Terminated,
              vars, wireVars, srvVars
    <2> QED
      BY <2>1, <2>2, <2>3, <2>4, TransmittedStays DEF Next, SenderNext
  <1> QED
    BY <1>1, <1>2, <1>3, <1>4

(***************************************************************************)
(* The server's messages, counted on their way.                            *)
(***************************************************************************)
\* No parameters are under way once there is a key, and the server's A is the
\* first message if it is under way at all.
LEMMA OnlyPushesFollow ==
  ASSUME IInv, srv = "keyed", NEW i \in DOMAIN toClient, i > 1 \/ AheadOfPushes = 0
  PROVE  toClient[i].kind = "enc"
  <1>1. toClient[i].kind \in {"dh", "key", "enc"} /\ toClient[i].kind # "dh"
    BY DEF IInv, UnderWay
  <1>2. toClient[i].kind = "key" => i = 1
    BY DEF IInv, UnderWay
  <1>3. toClient[i].kind = "key" => AheadOfPushes = 1
    BY <1>2 DEF AheadOfPushes
  <1> QED
    BY <1>1, <1>2, <1>3

LEMMA CountedRecv ==
  ASSUME IInv, Counted, CollectorRecv
  PROVE  Counted'
  <1>0. TypeOK
    BY DEF IInv
  <1>1. /\ toClient # << >> /\ toClient' = Tail(toClient) /\ colMsg' = Head(toClient)
        /\ colPc = "loop" /\ colPc' \in {"handle", "closing"}
        /\ srv' = srv /\ pushes' = pushes /\ delivered' = delivered
    BY DEF CollectorRecv, srvVars
  <1>2. /\ Len(toClient') = Len(toClient) - 1 /\ Len(toClient) \in Nat \ {0}
        /\ DOMAIN toClient = 1 .. Len(toClient) /\ DOMAIN toClient' = 1 .. Len(toClient) - 1
        /\ \A i \in DOMAIN toClient' : toClient'[i] = toClient[i + 1]
        /\ colMsg' = toClient[1]
        /\ toClient' = << >> <=> Len(toClient) = 1
    <2>1. toClient \in Seq(ServerMsgs)
      BY <1>0 DEF TypeOK
    <2> QED
      BY <1>1, <2>1, TailFacts
  <1>3. pushes \in Nat /\ Len(delivered) \in Nat
    BY <1>0, SessionAssumption DEF TypeOK
  <1>4. srv' # "keyed" => pushes' = 0 /\ delivered' = << >>
    BY <1>1 DEF Counted
  <1>5. ASSUME NEW i \in DOMAIN toClient', toClient'[i].kind = "enc"
        PROVE  toClient'[i].n = pushes' - Len(toClient') + i
    <2>1. i + 1 \in DOMAIN toClient /\ toClient[i + 1].kind = "enc"
      BY <1>2, <1>5
    <2>2. toClient[i + 1].n = pushes - Len(toClient) + (i + 1)
      BY <2>1 DEF Counted
    <2> QED
      BY <1>1, <1>2, <1>3, <2>2
  <1>6. ASSUME srv' = "keyed", colPc' \notin Closing
        PROVE  /\ pushes' + AheadOfPushes'
                    = Len(delivered') + InCollector' + Len(toClient')
               /\ InCollector' = 1 => colMsg'.n = Len(delivered') + 1
    <2>1. colPc' = "handle" /\ srv = "keyed" /\ colPc \notin Closing
      BY <1>1, <1>6 DEF Closing
    <2>2. pushes + AheadOfPushes = Len(delivered) + Len(toClient)
      <3>1. InCollector = 0
        BY <1>1 DEF InCollector
      <3>2. pushes + AheadOfPushes = Len(delivered) + InCollector + Len(toClient)
        BY <2>1 DEF Counted
      <3> QED
        BY <1>2, <1>3, <3>1, <3>2
    <2>3. AheadOfPushes' = 0
      <3>1. toClient' # << >> => 1 \in DOMAIN toClient' /\ toClient'[1] = toClient[2] /\ 2 \in DOMAIN toClient
        BY <1>2
      <3>2. 2 \in DOMAIN toClient => toClient[2].kind = "enc"
        BY <2>1, OnlyPushesFollow
      <3> QED
        BY <3>1, <3>2 DEF AheadOfPushes
    <2>4. CASE toClient[1].kind = "enc"
      <3>1. AheadOfPushes = 0 /\ InCollector' = 1
        BY <1>2, <2>1, <2>4 DEF AheadOfPushes, InCollector
      <3>2. toClient[1].n = pushes - Len(toClient) + 1
        BY <1>2, <2>4 DEF Counted
      <3> QED
        BY <1>1, <1>2, <1>3, <2>2, <2>3, <3>1, <3>2
    <2>5. CASE toClient[1].kind # "enc"
      <3>1. AheadOfPushes = 1
        BY <1>2, <2>1, <2>5, OnlyPushesFollow DEF AheadOfPushes
      <3>2. InCollector' = 0
        BY <1>2, <2>5 DEF InCollector
      <3> QED
        BY <1>1, <1>2, <1>3, <2>2, <2>3, <3>1, <3>2
    <2> QED
      BY <2>4, <2>5
  <1> QED
    BY <1>4, <1>5, <1>6 DEF Counted

LEMMA CountedPush ==
  ASSUME IInv, Counted, SrvPush
  PROVE  Counted'
  <1>0. TypeOK
    BY DEF IInv
  <1>1. /\ srv = "keyed" /\ srv' = srv /\ pushes' = pushes + 1 /\ delivered' = delivered
        /\ toClient' = Append(toClient, Push(pushes + 1))
        /\ colPc' = colPc /\ colMsg' = colMsg
    BY DEF SrvPush
  <1>2. pushes \in Nat /\ Len(delivered) \in Nat
    BY <1>0, SessionAssumption DEF TypeOK
  <1>3. Push(pushes + 1) \in ServerMsgs
    BY <1>2, MsgTypes
  <1>4. /\ Len(toClient') = Len(toClient) + 1 /\ Len(toClient) \in Nat
        /\ DOMAIN toClient = 1 .. Len(toClient) /\ DOMAIN toClient' = 1 .. Len(toClient) + 1
        /\ \A i \in DOMAIN toClient : toClient'[i] = toClient[i]
        /\ toClient'[Len(toClient) + 1] = Push(pushes + 1)
        /\ toClient' # << >>
    <2>1. toClient \in Seq(ServerMsgs)
      BY <1>0 DEF TypeOK
    <2> QED
      BY <1>1, <2>1, <1>3, AppendFacts
  <1>5. Push(pushes + 1).kind = "enc" /\ Push(pushes + 1).n = pushes + 1
    BY DEF Push
  <1>6. ASSUME NEW i \in DOMAIN toClient', toClient'[i].kind = "enc"
        PROVE  toClient'[i].n = pushes' - Len(toClient') + i
    <2>1. CASE i = Len(toClient) + 1
      BY <1>1, <1>2, <1>4, <1>5, <2>1
    <2>2. CASE i \in DOMAIN toClient
      <3>1. toClient[i].kind = "enc" /\ toClient'[i] = toClient[i]
        BY <1>4, <1>6, <2>2
      <3>2. toClient[i].n = pushes - Len(toClient) + i
        BY <2>2, <3>1 DEF Counted
      <3> QED
        BY <1>1, <1>2, <1>4, <3>1, <3>2
    <2> QED
      BY <1>4, <2>1, <2>2
  <1>7. AheadOfPushes' = AheadOfPushes
    <2>1. CASE toClient = << >>
      <3>1. toClient'[1] = Push(pushes + 1)
        BY <1>4, <2>1
      <3> QED
        BY <1>5, <2>1, <3>1 DEF AheadOfPushes
    <2>2. CASE toClient # << >>
      <3>1. 1 \in DOMAIN toClient
        BY <1>0, <2>2 DEF TypeOK
      <3>2. toClient'[1] = toClient[1]
        BY <1>4, <3>1
      <3> QED
        BY <1>4, <2>2, <3>2 DEF AheadOfPushes
    <2> QED
      BY <2>1, <2>2
  <1>8. InCollector' = InCollector /\ AheadOfPushes \in Nat /\ InCollector \in Nat
    BY <1>1 DEF InCollector, AheadOfPushes
  <1>9. colPc' \notin Closing =>
          /\ pushes' + AheadOfPushes' = Len(delivered') + InCollector' + Len(toClient')
          /\ InCollector' = 1 => colMsg'.n = Len(delivered') + 1
    BY <1>1, <1>2, <1>4, <1>7, <1>8 DEF Counted
  <1> QED
    BY <1>1, <1>6, <1>9 DEF Counted

\* A, and new parameters, are sent before anything is pushed.
LEMMA CountedHandshake ==
  ASSUME IInv, Counted, ServerHandshake
  PROVE  Counted'
  <1>0. TypeOK /\ pushes = 0 /\ delivered = << >> /\ srv # "keyed"
    BY DEF IInv, Counted, ServerHandshake, SrvOffer, SrvAnswer
  <1>1. pushes' = pushes /\ delivered' = delivered /\ colPc' = colPc /\ colMsg' = colMsg
    BY DEF ServerHandshake, SrvOffer, SrvAnswer
  <1>2. \A i \in DOMAIN toClient : toClient[i].kind # "enc"
    BY <1>0 DEF IInv, UnderWay
  <1>3. ASSUME NEW m \in ServerMsgs, m.kind # "enc", toClient' = Append(toClient, m)
        PROVE  \A i \in DOMAIN toClient' : toClient'[i].kind # "enc"
    <2>1. toClient \in Seq(ServerMsgs)
      BY <1>0 DEF TypeOK
    <2>2. /\ DOMAIN toClient = 1 .. Len(toClient) /\ DOMAIN toClient' = 1 .. Len(toClient) + 1
          /\ \A i \in DOMAIN toClient : toClient'[i] = toClient[i]
          /\ toClient'[Len(toClient) + 1] = m /\ Len(toClient) \in Nat
      BY <1>3, <2>1, AppendFacts
    <2> QED
      BY <1>2, <1>3, <2>2
  <1>4. CASE SrvOffer
    <2>1. PICK k \in ParamKinds : toClient' = Append(toClient, Offer(srvRound + 1, k))
      BY <1>4 DEF SrvOffer
    <2>2. Offer(srvRound + 1, k) \in ServerMsgs /\ Offer(srvRound + 1, k).kind = "dh"
      <3>1. srvRound + 1 \in Nat /\ k \in {"sound", "weak"}
        BY <1>0, SessionAssumption DEF TypeOK
      <3> QED
        BY <3>1, MsgTypes, MsgFields
    <2>3. \A i \in DOMAIN toClient' : toClient'[i].kind # "enc"
      BY <1>3, <2>1, <2>2
    <2>4. srv' = "offered"
      BY <1>4 DEF SrvOffer
    <2> QED
      BY <1>0, <1>1, <2>3, <2>4 DEF Counted
  <1>5. CASE SrvAnswer
    <2>1. PICK ok \in BOOLEAN : /\ toClient' = Append(toClient, PublicA(srvRound, ok))
                                /\ srv' = IF ok THEN "keyed" ELSE "rejected"
      BY <1>5 DEF SrvAnswer
    <2>2. PublicA(srvRound, ok) \in ServerMsgs /\ PublicA(srvRound, ok).kind = "key"
      <3>1. srvRound \in Nat
        BY <1>0, SessionAssumption DEF TypeOK
      <3> QED
        BY <3>1, MsgTypes, MsgFields
    <2>3. \A i \in DOMAIN toClient' : toClient'[i].kind # "enc"
      BY <1>3, <2>1, <2>2
    <2>4. toClient = << >> /\ colPc # "handle"
      BY <1>5 DEF SrvAnswer, IInv, ServerStages
    <2>5. toClient' # << >> /\ Len(toClient') = 1 /\ toClient'[1] = PublicA(srvRound, ok)
      <3>1. toClient' = <<PublicA(srvRound, ok)>>
        BY <2>1, <2>4
      <3> QED
        BY <3>1
    <2>6. AheadOfPushes' = 1 /\ InCollector' = 0
      BY <1>1, <2>2, <2>4, <2>5 DEF AheadOfPushes, InCollector
    <2>7. Len(delivered') = 0
      BY <1>0, <1>1
    <2> QED
      BY <1>0, <1>1, <2>3, <2>5, <2>6, <2>7 DEF Counted
  <1> QED
    BY <1>4, <1>5 DEF ServerHandshake

\* A message in the collector's hands is delivered as soon as it is handled.
LEMMA HandledIsDelivered ==
  ASSUME IInv, HandleOther
  PROVE  /\ sendKeyComplete /\ srv = "keyed" /\ colMsg.kind = "enc"
         /\ delivered' = Append(delivered, colMsg.n)
  <1>1. Phases /\ InHands /\ ServerStages
    BY DEF IInv
  <1>2. colMsg.kind = "enc" => sendKeyComplete
    BY <1>1 DEF InHands, HandleOther
  <1>3. sendKeyComplete /\ srv = "keyed"
    BY <1>1, <1>2 DEF HandleOther, ServerStages, Agreed
  <1>4. colMsg.kind = "enc"
    BY <1>1, <1>3 DEF InHands, HandleOther
  <1>5. ~isClosed /\ service
    BY <1>1 DEF Phases, Closing, HandleOther
  <1> QED
    BY <1>3, <1>4, <1>5 DEF HandleOther

LEMMA CountedHandle ==
  ASSUME IInv, Counted, HandleOther
  PROVE  Counted'
  <1>1. /\ srv = "keyed" /\ colMsg.kind = "enc" /\ delivered' = Append(delivered, colMsg.n)
        /\ colPc = "handle" /\ colPc' = "loop"
        /\ UNCHANGED <<srv, pushes, toClient>>
    BY HandledIsDelivered DEF HandleOther, srvVars
  <1>2. pushes \in Nat /\ delivered \in Seq(Nat) /\ colMsg.n \in Nat /\ Len(toClient) \in Nat
    BY MsgTypes, SessionAssumption DEF IInv, TypeOK
  <1>3. Len(delivered') = Len(delivered) + 1 /\ Len(delivered) \in Nat
    BY <1>1, <1>2
  <1>4. InCollector = 1 /\ InCollector' = 0 /\ AheadOfPushes' = AheadOfPushes
    BY <1>1 DEF InCollector, AheadOfPushes
  <1>5. pushes + AheadOfPushes = Len(delivered) + 1 + Len(toClient)
    BY <1>1, <1>4 DEF Counted, Closing
  <1>6. pushes' + AheadOfPushes' = Len(delivered') + InCollector' + Len(toClient')
    BY <1>1, <1>2, <1>3, <1>4, <1>5
  <1> QED
    BY <1>1, <1>4, <1>6 DEF Counted

LEMMA CountedStep == IInv /\ Counted /\ Next => Counted'
  <1> SUFFICES ASSUME IInv, Counted, Next PROVE Counted'
    OBVIOUS
  <1>1. ConnectOk => Counted'
    <2> SUFFICES ASSUME ConnectOk PROVE Counted'
      OBVIOUS
    <2>1. srv = "idle" /\ UNCHANGED <<srv, pushes, delivered, toClient>>
      BY DEF IInv, Phases, ConnectOk, srvVars
    <2> QED
      BY <2>1 DEF Counted
  <1>2. ASSUME UNCHANGED <<srv, pushes, delivered, toClient, colMsg>>,
               \/ colPc' = colPc
               \/ colPc' # "handle" /\ (colPc = "handle" => colMsg.kind # "enc")
                  /\ (colPc \in Closing => colPc' \in Closing)
        PROVE  Counted'
    <2>1. AheadOfPushes' = AheadOfPushes /\ InCollector' = InCollector
      BY <1>2 DEF AheadOfPushes, InCollector
    <2> QED
      BY <1>2, <2>1 DEF Counted
  <1>3. ConnectFails \/ SendId \/ CheckConnected \/ SendCheck \/ SendAdd \/ Destroy => Counted'
    BY <1>2 DEF ConnectFails, SendId, CheckConnected, SendCheck, SendAdd, Destroy, srvVars
  <1>4. UserNext \/ SenderNext \/ Terminated \/ SrvLeave => Counted'
    BY <1>2 DEF UserNext, UiRequest, UiNullService, ForceExit, SenderNext, SenderLoop,
                SenderTake, SenderSend, Terminated, vars, SrvLeave, srvVars
  <1>5. CollectorStop => Counted'
    BY <1>2 DEF CollectorStop, Closing, srvVars
  <1>6. HandleParams \/ HandleKey => Counted'
    <2>1. HandleParams => colPc' \in {"bHead", "loop"}
      BY DEF HandleParams
    <2>2. HandleKey => colPc' \in {"publish", "loop"}
      BY DEF HandleKey
    <2> QED
      BY <1>2, <2>1, <2>2 DEF HandleParams, HandleKey, Closing, srvVars
  <1>7. SendB => Counted'
    BY <1>2 DEF SendB, Closing, srvVars
  <1>8. PublishStore => Counted'
    BY <1>2 DEF PublishStore, Closing, srvVars
  <1>9. CollectorClose => Counted'
    BY <1>2 DEF CollectorClose, SessionCloseMessage, CleanNetwork, Closing, srvVars
  <1> QED
    BY <1>1, <1>3, <1>4, <1>5, <1>6, <1>7, <1>8, <1>9, CountedRecv, CountedPush,
       CountedHandshake, CountedHandle, Zenon
       DEF Next, MainNext, CollectorNext, ServerNext

(***************************************************************************)
(* Accepted requests, in order, through queue and sender onto the wire.    *)
(***************************************************************************)
LEMMA Associative ==
  ASSUME NEW u \in Seq(Nat), NEW v \in Seq(Nat), NEW w \in Seq(Nat)
  PROVE  (u \o v) \o w = u \o (v \o w)
  <1> DEFINE l == (u \o v) \o w
             r == u \o (v \o w)
  <1>1. /\ u \o v \in Seq(Nat) /\ Len(u \o v) = Len(u) + Len(v)
        /\ \A i \in 1 .. Len(u) + Len(v) : (u \o v)[i] = IF i <= Len(u) THEN u[i] ELSE v[i - Len(u)]
    BY ConcatProperties
  <1>2. /\ v \o w \in Seq(Nat) /\ Len(v \o w) = Len(v) + Len(w)
        /\ \A i \in 1 .. Len(v) + Len(w) : (v \o w)[i] = IF i <= Len(v) THEN v[i] ELSE w[i - Len(v)]
    BY ConcatProperties
  <1>3. l \in Seq(Nat) /\ r \in Seq(Nat) /\ Len(l) = Len(u) + Len(v) + Len(w) /\ Len(r) = Len(l)
    BY <1>1, <1>2
  <1>4. ASSUME NEW i \in 1 .. Len(l) PROVE l[i] = r[i]
    <2>1. l[i] = IF i <= Len(u) + Len(v) THEN (u \o v)[i] ELSE w[i - (Len(u) + Len(v))]
      BY <1>1, <1>3
    <2>2. r[i] = IF i <= Len(u) THEN u[i] ELSE (v \o w)[i - Len(u)]
      BY <1>2, <1>3
    <2>3. Len(u) \in Nat /\ Len(v) \in Nat /\ Len(w) \in Nat /\ i \in 1 .. Len(u) + Len(v) + Len(w)
      BY <1>3
    <2> HIDE DEF l, r
    <2>4. CASE i <= Len(u)
      <3>1. (u \o v)[i] = u[i]
        BY <1>1, <2>3, <2>4
      <3> QED
        BY <2>1, <2>2, <2>3, <2>4, <3>1
    <2>5. CASE Len(u) < i /\ i <= Len(u) + Len(v)
      <3>1. (u \o v)[i] = v[i - Len(u)] /\ (v \o w)[i - Len(u)] = v[i - Len(u)]
        BY <1>1, <1>2, <2>3, <2>5
      <3> QED
        BY <2>1, <2>2, <2>3, <2>5, <3>1
    <2>6. CASE Len(u) + Len(v) < i
      <3>1. (v \o w)[i - Len(u)] = w[i - (Len(u) + Len(v))]
        <4>1. i - Len(u) \in 1 .. Len(v) + Len(w) /\ ~(i - Len(u) <= Len(v))
          BY <2>3, <2>6
        <4>2. (i - Len(u)) - Len(v) = i - (Len(u) + Len(v))
          BY <2>3
        <4> QED
          BY <1>2, <4>1, <4>2
      <3> QED
        BY <2>1, <2>2, <2>3, <2>6, <3>1
    <2> QED
      BY <2>3, <2>4, <2>5, <2>6
  <1> HIDE DEF l, r
  <1>5. l = r
    BY <1>3, <1>4
  <1> QED
    BY <1>5 DEF l, r

\* Regrouping a sequence whose middle gains, passes on or loses an element.
LEMMA RegroupTake ==
  ASSUME NEW s \in Seq(Nat), NEW q \in Seq(Nat), q # << >>
  PROVE  (s \o << >>) \o q = (s \o <<Head(q)>>) \o Tail(q)
  <1>1. Head(q) \in Nat /\ Tail(q) \in Seq(Nat) /\ Len(Tail(q)) = Len(q) - 1 /\ Head(q) = q[1]
    OBVIOUS
  <1>2. <<Head(q)>> \in Seq(Nat) /\ <<Head(q)>> \o Tail(q) = q
    BY <1>1
  <1>3. (s \o <<Head(q)>>) \o Tail(q) = s \o (<<Head(q)>> \o Tail(q))
    BY <1>1, <1>2, Associative
  <1>4. s \o << >> = s
    OBVIOUS
  <1> QED
    BY <1>2, <1>3, <1>4

LEMMA RegroupSend ==
  ASSUME NEW s \in Seq(Nat), NEW q \in Seq(Nat), NEW n \in Nat
  PROVE  (s \o <<n>>) \o q = (Append(s, n) \o << >>) \o q
  <1>1. s \o <<n>> = Append(s, n) /\ Append(s, n) \o << >> = Append(s, n)
    OBVIOUS
  <1> QED
    BY <1>1

LEMMA RegroupAdd ==
  ASSUME NEW s \in Seq(Nat), NEW t \in Seq(Nat), NEW q \in Seq(Nat), NEW n \in Nat
  PROVE  Append((s \o t) \o q, n) = (s \o t) \o Append(q, n)
  <1> DEFINE u == s \o t
  <1>1. u \in Seq(Nat) /\ <<n>> \in Seq(Nat)
    OBVIOUS
  <1> HIDE DEF u
  <1>2. (u \o q) \o <<n>> = u \o (q \o <<n>>)
    BY <1>1, Associative, SMTT(30)
  <1>3. u \o q \in Seq(Nat)
    BY <1>1
  <1>4. Append(u \o q, n) = (u \o q) \o <<n>> /\ Append(q, n) = q \o <<n>>
    BY <1>3, AppendIsConcat
  <1> QED
    BY <1>2, <1>4 DEF u

\* A sequence in order that gains a greater element.
LEMMA AddsInOrder ==
  ASSUME NEW s \in Seq(Nat), NEW t \in Seq(Nat), NEW n \in Nat,
         Increasing(s), Among(s, t), \A i \in DOMAIN t : t[i] < n
  PROVE  /\ Increasing(Append(s, n)) /\ Among(Append(s, n), Append(t, n))
         /\ Among(s, Append(t, n))
  <1> DEFINE a == Append(s, n)
             b == Append(t, n)
  <1>1. /\ DOMAIN s = 1 .. Len(s) /\ DOMAIN a = 1 .. Len(s) + 1 /\ Len(s) \in Nat
        /\ \A i \in DOMAIN s : a[i] = s[i]
        /\ a[Len(s) + 1] = n
    BY AppendFacts
  <1>2. /\ DOMAIN t = 1 .. Len(t) /\ DOMAIN b = 1 .. Len(t) + 1 /\ Len(t) \in Nat
        /\ \A i \in DOMAIN t : b[i] = t[i]
        /\ b[Len(t) + 1] = n
    BY AppendFacts
  <1>3. \A i \in DOMAIN s : s[i] < n
    BY DEF Among
  <1>4. \A i \in DOMAIN s : s[i] \in Nat
    OBVIOUS
  <1> HIDE DEF a, b
  <1>5. Increasing(a)
    <2> SUFFICES ASSUME NEW i \in DOMAIN a, NEW j \in DOMAIN a, i < j PROVE a[i] < a[j]
      BY DEF Increasing
    <2>1. i \in DOMAIN s
      BY <1>1
    <2>2. CASE j \in DOMAIN s
      BY <1>1, <2>1, <2>2 DEF Increasing
    <2>3. CASE j = Len(s) + 1
      BY <1>1, <1>3, <2>1, <2>3
    <2> QED
      BY <1>1, <2>2, <2>3
  <1>6. Among(s, b)
    BY <1>2 DEF Among
  <1>7. Among(a, b)
    <2> SUFFICES ASSUME NEW i \in DOMAIN a PROVE \E j \in DOMAIN b : b[j] = a[i]
      BY DEF Among
    <2>1. CASE i \in DOMAIN s
      BY <1>1, <1>6, <2>1 DEF Among
    <2>2. CASE i = Len(s) + 1
      BY <1>1, <1>2, <2>2
    <2> QED
      BY <1>1, <2>1, <2>2
  <1> QED
    BY <1>5, <1>6, <1>7 DEF a, b

\* A sequence in order that loses an element in the middle.
LEMMA DropsInOrder ==
  ASSUME NEW u \in Seq(Nat), NEW q \in Seq(Nat), NEW t \in Seq(Nat), NEW n \in Nat,
         Increasing((u \o <<n>>) \o q), Among((u \o <<n>>) \o q, t)
  PROVE  Increasing((u \o << >>) \o q) /\ Among((u \o << >>) \o q, t)
  <1> DEFINE v == u \o <<n>>
             s == v \o q
             r == u \o q
  <1>1. (u \o << >>) \o q = r
    OBVIOUS
  <1>2. v \in Seq(Nat) /\ Len(v) = Len(u) + 1 /\ \A i \in 1 .. Len(u) : v[i] = u[i]
    OBVIOUS
  <1>3. Len(u) \in Nat /\ Len(q) \in Nat
    OBVIOUS
  <1>4. Increasing(s) /\ Among(s, t)
    BY Zenon
  <1>a. s = v \o q
    OBVIOUS
  <1> HIDE DEF v, s
  <1>5. /\ s \in Seq(Nat) /\ Len(s) = Len(u) + 1 + Len(q)
        /\ \A i \in 1 .. Len(u) + 1 + Len(q) :
              s[i] = IF i <= Len(u) + 1 THEN v[i] ELSE q[i - (Len(u) + 1)]
    <2>1. /\ v \o q \in Seq(Nat) /\ Len(v \o q) = Len(v) + Len(q)
          /\ \A i \in 1 .. Len(v) + Len(q) :
                (v \o q)[i] = IF i <= Len(v) THEN v[i] ELSE q[i - Len(v)]
      BY <1>2, ConcatProperties
    <2> QED
      BY <1>2, <1>a, <2>1
  <1>6. /\ r \in Seq(Nat) /\ Len(r) = Len(u) + Len(q)
        /\ \A i \in 1 .. Len(u) + Len(q) : r[i] = IF i <= Len(u) THEN u[i] ELSE q[i - Len(u)]
    BY ConcatProperties
  <1> HIDE DEF s, r
  <1>7. DOMAIN s = 1 .. Len(u) + 1 + Len(q) /\ DOMAIN r = 1 .. Len(u) + Len(q)
    BY <1>5, <1>6
  <1>8. \A i \in DOMAIN r : i <= Len(u) => r[i] = s[i]
    <2> SUFFICES ASSUME NEW i \in DOMAIN r, i <= Len(u) PROVE r[i] = s[i]
      OBVIOUS
    <2>1. i \in 1 .. Len(u) /\ i \in 1 .. Len(u) + Len(q) /\ i \in 1 .. Len(u) + 1 + Len(q)
          /\ i <= Len(u) + 1
      BY <1>3, <1>7
    <2>2. r[i] = u[i] /\ s[i] = v[i] /\ v[i] = u[i]
      BY <1>2, <1>5, <1>6, <2>1
    <2> QED
      BY <2>2
  <1>9. \A i \in DOMAIN r : i > Len(u) => r[i] = s[i + 1]
    <2> SUFFICES ASSUME NEW i \in DOMAIN r, i > Len(u) PROVE r[i] = s[i + 1]
      OBVIOUS
    <2>1. (i + 1) - (Len(u) + 1) = i - Len(u) /\ i + 1 \in 1 .. Len(u) + 1 + Len(q)
      BY <1>3, <1>7, SMTT(30)
    <2>2. ~(i <= Len(u)) /\ ~(i + 1 <= Len(u) + 1)
      BY <1>3, <1>7
    <2>3. s[i + 1] = q[(i + 1) - (Len(u) + 1)] /\ r[i] = q[i - Len(u)]
      BY <1>5, <1>6, <1>7, <2>1, <2>2
    <2> QED
      BY <2>1, <2>3
  <1>10. Increasing(r)
    <2> SUFFICES ASSUME NEW i \in DOMAIN r, NEW j \in DOMAIN r, i < j PROVE r[i] < r[j]
      BY DEF Increasing
    <2> DEFINE k == IF i <= Len(u) THEN i ELSE i + 1
               l == IF j <= Len(u) THEN j ELSE j + 1
    <2>1. k \in DOMAIN s /\ l \in DOMAIN s /\ k < l
      BY <1>3, <1>7, SMTT(30)
    <2>2. r[i] = s[k] /\ r[j] = s[l]
      BY <1>3, <1>7, <1>8, <1>9, SMTT(30)
    <2> QED
      BY <1>4, <2>1, <2>2 DEF Increasing
  <1>11. Among(r, t)
    <2> SUFFICES ASSUME NEW i \in DOMAIN r PROVE \E j \in DOMAIN t : t[j] = r[i]
      BY DEF Among
    <2>1. \E k \in DOMAIN s : r[i] = s[k]
      <3>1. i \in DOMAIN s /\ i + 1 \in DOMAIN s
        BY <1>3, <1>7
      <3>2. CASE i <= Len(u)
        BY <1>8, <3>1, <3>2
      <3>3. CASE i > Len(u)
        BY <1>9, <3>1, <3>3
      <3> QED
        BY <1>3, <1>7, <3>2, <3>3
    <2> QED
      BY <1>4, <2>1 DEF Among
  <1> QED
    BY <1>1, <1>10, <1>11

\* Steps that leave the line of the requests as it is.
LEMMA OrderKept ==
  ASSUME AcceptedInOrder, NoneLostWhileWorking, Line' = Line, accepted' = accepted,
         socket' = "open" => socket = "open", broken => broken', starved => starved'
  PROVE  AcceptedInOrder' /\ NoneLostWhileWorking'
  <1>1. AcceptedInOrder'
    BY DEF AcceptedInOrder, Increasing, Among
  <1>2. NoneLostWhileWorking'
    BY DEF NoneLostWhileWorking
  <1> QED
    BY <1>1, <1>2

LEMMA LineKept ==
  ASSUME Transmitted' = Transmitted, UNCHANGED <<queue, sndFrame>>
  PROVE  Line' = Line
  BY DEF Line, InHand

\* A connection on which a send failed is not mended.
LEMMA SendBreaksForGood ==
  ASSUME broken
  PROVE  /\ SendFails => broken'
         /\ \A f, p : ~SendOk(f, p)
  BY DEF SendFails, SendOk

\* What the sender holds.
LEMMA InHandIs ==
  ASSUME TypeOK, Holding
  PROVE  /\ InHand = IF sndPc \in {"head", "tail"} THEN <<sndFrame.n>> ELSE << >>
         /\ InHand \in Seq(Nat) /\ sndFrame.n \in Nat
  <1>1. sndFrame.n \in Nat
    BY FrameTypes DEF TypeOK
  <1>2. sndPc \in {"head", "tail"} => sndFrame # NoFrame
    BY FrameFields DEF Holding
  <1>3. InHand = IF sndPc \in {"head", "tail"} THEN <<sndFrame.n>> ELSE << >>
    BY <1>2 DEF InHand, Holding
  <1> QED
    BY <1>1, <1>3

LEMMA OrderOfAdd ==
  ASSUME TypeOK, Placed, Holding, Numbered, AcceptedInOrder, NoneLostWhileWorking,
         Transmitted' = Transmitted, SendAdd
  PROVE  AcceptedInOrder' /\ NoneLostWhileWorking'
  <1>1. accepted' = Append(accepted, request) /\ UNCHANGED <<sndFrame, socket, broken>>
    BY DEF SendAdd, flagVars, wireVars
  <1>2. request \in Nat /\ queue \in Seq(Nat) /\ Transmitted \in Seq(Nat) /\ InHand \in Seq(Nat)
    BY TransmittedType, InHandIs DEF TypeOK
  <1>3. Line \in Seq(Nat) /\ accepted \in Seq(Nat)
    BY <1>2 DEF Line, TypeOK
  <1>4. \A i \in DOMAIN accepted : accepted[i] < request
    BY DEF Numbered, SendAdd
  <1>5. /\ Increasing(Append(Line, request))
        /\ Among(Append(Line, request), Append(accepted, request))
        /\ Among(Line, Append(accepted, request)) /\ Increasing(Line)
    <2>1. Increasing(Line) /\ Among(Line, accepted)
      BY DEF AcceptedInOrder
    <2> QED
      BY <1>2, <1>3, <1>4, <2>1, AddsInOrder
  <1>6. CASE queue' = Append(queue, request) /\ starved' = starved
    <2>1. Line' = Append(Line, request)
      <3>1. Append((Transmitted \o InHand) \o queue, request)
              = (Transmitted \o InHand) \o Append(queue, request)
        BY <1>2, RegroupAdd
      <3>2. InHand' = InHand
        BY <1>1 DEF InHand
      <3> QED
        BY <1>6, <3>1, <3>2, Zenon DEF Line
    <2>2. AcceptedInOrder'
      BY <1>1, <1>5, <2>1, Zenon DEF AcceptedInOrder, Increasing, Among
    <2>3. NoneLostWhileWorking'
      BY <1>1, <1>6, <2>1 DEF NoneLostWhileWorking
    <2> QED
      BY <2>2, <2>3
  <1>7. CASE queue' = queue /\ starved' = TRUE
    <2>1. Line' = Line
      BY <1>1, <1>7, LineKept
    <2>2. AcceptedInOrder'
      BY <1>1, <1>5, <2>1, Zenon DEF AcceptedInOrder, Increasing, Among
    <2>3. NoneLostWhileWorking'
      BY <1>7 DEF NoneLostWhileWorking
    <2> QED
      BY <2>2, <2>3
  <1> QED
    BY <1>6, <1>7 DEF SendAdd

LEMMA OrderOfTake ==
  ASSUME TypeOK, TypeOK', Placed, Holding, Holding', AcceptedInOrder, NoneLostWhileWorking,
         Transmitted' = Transmitted, SenderTake
  PROVE  AcceptedInOrder' /\ NoneLostWhileWorking'
  <1>1. UNCHANGED <<accepted, socket, broken, starved>>
    BY DEF SenderTake, flagVars, wireVars
  <1>2. CASE queue = << >>
    <2>1. Line' = Line
      BY <1>2, LineKept DEF SenderTake
    <2> QED
      BY <1>1, <2>1, OrderKept
  <1>3. CASE queue # << >>
    <2>1. /\ sndPc = "drain" /\ sndPc' = "head" /\ queue' = Tail(queue)
          /\ sndFrame' = Encrypted(Head(queue), NoKey)
      BY <1>3 DEF SenderTake
    <2>2. queue \in Seq(Nat) /\ Transmitted \in Seq(Nat)
      BY TransmittedType DEF TypeOK
    <2>3. InHand = << >>
      BY <2>1, InHandIs
    <2>4. InHand' = <<Head(queue)>>
      <3>1. sndFrame' # NoFrame /\ sndFrame'.n = Head(queue)
        BY <2>1, FrameFields
      <3> QED
        BY <3>1 DEF InHand
    <2>5. Line' = Line
      <3>1. (Transmitted \o << >>) \o queue = (Transmitted \o <<Head(queue)>>) \o Tail(queue)
        BY <1>3, <2>2, RegroupTake
      <3> QED
        BY <2>1, <2>3, <2>4, <3>1, Zenon DEF Line
    <2> QED
      BY <1>1, <2>5, OrderKept
  <1> QED
    BY <1>2, <1>3

LEMMA OrderOfSend ==
  ASSUME StoreOrder = "program", IInv, IInv', Placed, Holding, AcceptedInOrder,
         NoneLostWhileWorking, SenderSend
  PROVE  AcceptedInOrder' /\ NoneLostWhileWorking'
  <1>1. UNCHANGED <<accepted, queue, socket>> /\ (starved => starved')
    BY DEF SenderSend, flagVars
  <1>2. TypeOK /\ sndPc \in {"head", "tail"}
    BY DEF IInv, SenderSend
  <1>3. /\ queue \in Seq(Nat) /\ Transmitted \in Seq(Nat) /\ sndFrame.n \in Nat
        /\ accepted \in Seq(Nat)
    BY <1>2, TransmittedType, InHandIs DEF TypeOK
  <1>4. InHand = <<sndFrame.n>>
    BY <1>2, InHandIs
  <1>5. CASE SendsRequest /\ Transmitted' = Append(Transmitted, sndFrame.n)
    <2>1. InHand' = << >> /\ broken' = broken
      BY <1>5 DEF SendsRequest, SendOk, InHand
    <2>2. Line' = Line
      <3>1. (Transmitted \o <<sndFrame.n>>) \o queue
              = (Append(Transmitted, sndFrame.n) \o << >>) \o queue
        BY <1>3, RegroupSend
      <3> QED
        BY <1>1, <1>4, <1>5, <2>1, <3>1, Zenon DEF Line
    <2> QED
      BY <1>1, <2>1, <2>2, OrderKept
  <1>6. CASE /\ Transmitted' = Transmitted /\ sndFrame' = NoFrame
             /\ broken' \/ socket # "open" \/ starved'
    <2>1. NoneLostWhileWorking'
      BY <1>1, <1>6 DEF NoneLostWhileWorking
    <2>2. InHand' = << >>
      BY <1>6 DEF InHand
    <2>3. Increasing((Transmitted \o <<sndFrame.n>>) \o queue)
          /\ Among((Transmitted \o <<sndFrame.n>>) \o queue, accepted)
      BY <1>4, Zenon DEF AcceptedInOrder, Line
    <2>4. Increasing((Transmitted \o << >>) \o queue)
          /\ Among((Transmitted \o << >>) \o queue, accepted)
      BY <1>3, <2>3, DropsInOrder
    <2>5. Line' = (Transmitted \o << >>) \o queue
      BY <1>1, <1>6, <2>2, Zenon DEF Line
    <2>6. AcceptedInOrder'
      BY <1>1, <2>4, <2>5, Zenon DEF AcceptedInOrder, Increasing, Among
    <2> QED
      BY <2>1, <2>6
  <1>7. CASE Transmitted' = Transmitted /\ sndPc = "head" /\ sndPc' = "tail"
    <2>1. /\ SendOk(Encrypted(sndFrame.n, key), "head")
          /\ sndFrame' = Encrypted(sndFrame.n, key)
      BY <1>7 DEF SenderSend
    <2>2. InHand' = InHand /\ broken' = broken
      <3>1. sndFrame' # NoFrame /\ sndFrame'.n = sndFrame.n
        BY <2>1, FrameFields
      <3> QED
        BY <1>4, <2>1, <3>1 DEF InHand, SendOk
    <2>3. Line' = Line
      BY <1>1, <1>7, <2>2, Zenon DEF Line
    <2> QED
      BY <1>1, <2>2, <2>3, OrderKept
  <1>8. CASE SendsRequest
    BY <1>5, <1>8, SenderTransmits DEF SendsRequest, SendOk
  <1>9. CASE ~SendsRequest
    <2>1. Transmitted' = Transmitted
      BY <1>9, SenderTransmits
    <2>2. key # NoKey
      <3>1. sendKeyComplete
        BY <1>2 DEF IInv, InHands
      <3>2. key = ServerKey /\ srv = "keyed"
        BY <3>1 DEF IInv, KeyStages, ServerStages, Agreed
      <3>3. srvRound \in Rounds
        BY <3>2 DEF IInv, ServerStages
      <3> QED
        BY <3>2, <3>3, SessionAssumption DEF ServerKey, NoKey, Rounds
    <2>3. CASE sndPc = "head" /\ sndPc' = "tail"
      BY <1>7, <2>1, <2>3
    <2>4. CASE sndFrame' = NoFrame /\ (SendFails \/ starved')
      BY <1>6, <2>1, <2>4 DEF SendFails
    <2> QED
      BY <1>9, <2>2, <2>3, <2>4, Zenon DEF SenderSend, SendsRequest
  <1> QED
    BY <1>8, <1>9

\* Before there are threads nothing was accepted.
LEMMA OrderAtConnect ==
  ASSUME IInv, SocketLife, AcceptedInOrder, Transmitted' = Transmitted,
         ConnectOk \/ ConnectFails
  PROVE  AcceptedInOrder' /\ NoneLostWhileWorking'
  <1>1. colPc = "off" /\ wire = << >>
    BY DEF IInv, Phases, ConnectOk, ConnectFails
  <1>2. UNCHANGED <<accepted, queue, sndFrame>>
    BY DEF ConnectOk, ConnectFails, appVars
  <1>3. accepted' = << >> /\ queue' = << >> /\ InHand' = << >>
    BY <1>1, <1>2 DEF SocketLife, InHand
  <1>4. Transmitted = << >>
    <2>1. SentPlaces = {}
      BY <1>1 DEF SentPlaces
    <2>2. Cardinality({}) = 0
      BY FS_EmptySet
    <2> QED
      BY <2>1, <2>2 DEF Transmitted
  <1>5. Line' = accepted'
    <2>1. (<< >> \o << >>) \o << >> = << >>
      OBVIOUS
    <2> QED
      BY <1>3, <1>4, <2>1, Zenon DEF Line
  <1>6. NoneLostWhileWorking'
    BY <1>5 DEF NoneLostWhileWorking
  <1>7. Line' = Line
    BY <1>2, LineKept
  <1>8. AcceptedInOrder'
    BY <1>2, <1>7, Zenon DEF AcceptedInOrder, Increasing, Among
  <1> QED
    BY <1>6, <1>8

LEMMA AcceptedInOrderStep ==
  ASSUME StoreOrder = "program", IInv, IInv', SocketLife, Placed, Holding, Holding',
         Numbered, AcceptedInOrder, NoneLostWhileWorking, Next
  PROVE  AcceptedInOrder' /\ NoneLostWhileWorking'
  <1>0. TypeOK /\ TypeOK'
    BY DEF IInv
  <1>1. CASE SenderSend
    BY <1>1, OrderOfSend
  <1>2. CASE ~SenderSend
    <2>1. Transmitted' = Transmitted
      BY <1>2, OthersTransmitNothing
    <2>2. CASE SendAdd
      BY <1>0, <2>1, <2>2, OrderOfAdd
    <2>3. CASE SenderTake
      BY <1>0, <2>1, <2>3, OrderOfTake
    <2>4. CASE ConnectOk \/ ConnectFails
      BY <2>1, <2>4, OrderAtConnect
    <2>5. CASE SendId \/ CheckConnected \/ SendCheck \/ Destroy
      <3>1. UNCHANGED <<accepted, starved, queue, sndFrame>>
        BY <2>5 DEF SendId, CheckConnected, SendCheck, Destroy, appVars
      <3>2. socket' = "open" => socket = "open"
        BY <2>5 DEF SendId, CheckConnected, SendCheck, Destroy, flagVars
      <3>3. broken => broken'
        BY <2>5, SendBreaksForGood DEF SendId, CheckConnected, SendCheck, Destroy, wireVars
      <3> QED
        BY <2>1, <3>1, <3>2, <3>3, LineKept, OrderKept
    <2>6. CASE UserNext \/ SenderLoop \/ Terminated
      <3>1. UNCHANGED <<accepted, starved, queue, sndFrame, socket, broken>>
        BY <2>6 DEF UserNext, UiRequest, UiNullService, ForceExit, SenderLoop, Terminated,
                    vars, appVars, flagVars, wireVars
      <3> QED
        BY <2>1, <3>1, LineKept, OrderKept
    <2>7. CASE CollectorNext
      <3>1. UNCHANGED <<accepted, starved, queue, sndFrame>>
        BY <2>7 DEF CollectorNext, CollectorRecv, CollectorStop, HandleParams, HandleKey,
                    HandleOther, SendB, PublishStore, CollectorClose, appVars
      <3>2. socket' = "open" => socket = "open"
        BY <2>7 DEF CollectorNext, CollectorRecv, CollectorStop, HandleParams, HandleKey,
                    HandleOther, SendB, PublishStore, CollectorClose, SessionCloseMessage,
                    CleanNetwork, flagVars
      <3>3. broken => broken'
        BY <2>7, SendBreaksForGood
           DEF CollectorNext, CollectorRecv, CollectorStop, HandleParams, HandleKey,
               HandleOther, SendB, PublishStore, CollectorClose, wireVars
      <3> QED
        BY <2>1, <3>1, <3>2, <3>3, LineKept, OrderKept
    <2>8. CASE ServerNext
      <3>1. UNCHANGED <<accepted, starved, queue, sndFrame, socket, broken>>
        BY <2>8 DEF ServerNext, ServerHandshake, SrvOffer, SrvAnswer, SrvPush, SrvLeave,
                    appVars, flagVars, wireVars
      <3> QED
        BY <2>1, <3>1, LineKept, OrderKept
    <2> QED
      BY <1>2, <2>2, <2>3, <2>4, <2>5, <2>6, <2>7, <2>8, Zenon DEF Next, MainNext, SenderNext
  <1> QED
    BY <1>1, <1>2

(***************************************************************************)
(* The refinement: the phase of the channel is read off the threads and    *)
(* flags; each action is a step of SecureChannel or leaves it as it is.    *)
(***************************************************************************)
Phase == IF sndPc = "off" THEN "down"
         ELSE IF socket # "open" THEN "closed"
         ELSE IF sendKeyComplete THEN "keyed"
         ELSE "open"

ChannelKept ==
    Phase' = Phase /\ starved' = starved /\ accepted' = accepted
        /\ Transmitted' = Transmitted /\ delivered' = delivered

\* The request that goes out next.
GoesNext(i) ==
    /\ \A j \in i .. Len(accepted) : \A k \in DOMAIN Transmitted :
          Transmitted[k] # accepted[j]
    /\ ~starved => i = Len(Transmitted) + 1

\* What a step of the channel is, with its variables named.
LEMMA ChannelSteps ==
  /\ (/\ Phase = "down" /\ Phase' = "open"
      /\ UNCHANGED <<starved, accepted, Transmitted, delivered>>) => Channel!Next
  /\ (/\ Phase = "open" /\ Phase' = "keyed"
      /\ UNCHANGED <<starved, accepted, Transmitted, delivered>>) => Channel!Next
  /\ (\E m \in Requests :
        /\ Phase # "down" /\ m \notin {accepted[i] : i \in DOMAIN accepted}
        /\ accepted' = Append(accepted, m) /\ starved' \in {starved, TRUE}
        /\ Phase' = Phase /\ Transmitted' = Transmitted /\ delivered' = delivered) => Channel!Next
  /\ (/\ Phase # "down" /\ starved' = TRUE /\ Phase' = Phase
      /\ accepted' = accepted /\ Transmitted' = Transmitted /\ delivered' = delivered) => Channel!Next
  /\ (/\ Phase = "keyed"
      /\ \E i \in DOMAIN accepted :
            GoesNext(i) /\ Transmitted' = Append(Transmitted, accepted[i])
      /\ Phase' = Phase /\ starved' = starved /\ accepted' = accepted
      /\ delivered' = delivered) => Channel!Next
  /\ (/\ Phase = "keyed" /\ delivered' = Append(delivered, Len(delivered) + 1)
      /\ Phase' = Phase /\ starved' = starved /\ accepted' = accepted
      /\ Transmitted' = Transmitted) => Channel!Next
  /\ (/\ Phase \in {"open", "keyed"} /\ Phase' = "closed"
      /\ UNCHANGED <<starved, accepted, Transmitted, delivered>>) => Channel!Next
  <1> USE DEF Phase, Channel!Next
  <1>1. (/\ Phase = "down" /\ Phase' = "open"
         /\ UNCHANGED <<starved, accepted, Transmitted, delivered>>) => Channel!Open
    BY DEF Channel!Open
  <1>2. (/\ Phase = "open" /\ Phase' = "keyed"
         /\ UNCHANGED <<starved, accepted, Transmitted, delivered>>) => Channel!AgreeKey
    BY DEF Channel!AgreeKey
  <1>3. ASSUME NEW m \in Requests,
               Phase # "down", m \notin {accepted[i] : i \in DOMAIN accepted},
               accepted' = Append(accepted, m), starved' \in {starved, TRUE},
               Phase' = Phase, Transmitted' = Transmitted, delivered' = delivered
        PROVE  Channel!Accept(m)
    BY <1>3 DEF Channel!Accept
  <1>4. (/\ Phase = "keyed"
         /\ \E i \in DOMAIN accepted :
               GoesNext(i) /\ Transmitted' = Append(Transmitted, accepted[i])
         /\ Phase' = Phase /\ starved' = starved /\ accepted' = accepted
         /\ delivered' = delivered) => Channel!Transmit
    BY Zenon DEF Channel!Transmit, GoesNext
  <1>5. (/\ Phase = "keyed" /\ delivered' = Append(delivered, Len(delivered) + 1)
         /\ Phase' = Phase /\ starved' = starved /\ accepted' = accepted
         /\ Transmitted' = Transmitted) => Channel!Deliver
    BY DEF Channel!Deliver
  <1>6. (/\ Phase \in {"open", "keyed"} /\ Phase' = "closed"
         /\ UNCHANGED <<starved, accepted, Transmitted, delivered>>) => Channel!Close
    BY DEF Channel!Close
  <1>7. (/\ Phase # "down" /\ starved' = TRUE /\ Phase' = Phase
         /\ accepted' = accepted /\ Transmitted' = Transmitted /\ delivered' = delivered) => Channel!GiveUp
    BY DEF Channel!GiveUp
  <1> HIDE DEF Phase
  <1> QED
    BY <1>1, <1>2, <1>3, <1>4, <1>5, <1>6, <1>7, Zenon

LEMMA ChannelOpens ==
  ASSUME IInv, Transmitted' = Transmitted, ConnectOk
  PROVE  Channel!Next
  <1>1. Phase = "down" /\ Phase' = "open"
    BY DEF IInv, Phases, ConnectOk, keyVars, Phase
  <1>2. UNCHANGED <<starved, accepted, delivered>>
    BY DEF ConnectOk, appVars
  <1> QED
    BY <1>1, <1>2, ChannelSteps

LEMMA ChannelAccepts ==
  ASSUME IInv, Numbered, Transmitted' = Transmitted, SendAdd
  PROVE  Channel!Next
  <1>1. /\ Phase' = Phase /\ delivered' = delivered /\ accepted' = Append(accepted, request)
        /\ starved' \in {starved, TRUE}
    BY DEF SendAdd, flagVars, keyVars, Phase
  <1>2. Phase # "down"
    BY DEF IInv, Phases, SendAdd, Phase
  <1>3. request \in Requests /\ request \notin {accepted[i] : i \in DOMAIN accepted}
    <2>1. request = nreq /\ nreq \in Requests /\ \A i \in DOMAIN accepted : accepted[i] < nreq
      BY DEF Numbered, SendAdd
    <2>2. nreq \in Nat /\ \A i \in DOMAIN accepted : accepted[i] \in Nat
      BY SessionAssumption DEF IInv, TypeOK
    <2> QED
      BY <2>1, <2>2
  <1> QED
    BY <1>1, <1>2, <1>3, ChannelSteps

LEMMA ChannelTransmits ==
  ASSUME IInv, Placed, Holding, Numbered, AcceptedInOrder, NoneLostWhileWorking, SenderSend,
         SendsRequest, Transmitted' = Append(Transmitted, sndFrame.n)
  PROVE  Channel!Next
  <1>1. socket = "open" /\ ~broken /\ sndPc = "tail" /\ sndPc' = "drain"
    BY DEF SendsRequest, SendOk
  <1>2. UNCHANGED <<socket, sendKeyComplete, accepted, delivered>>
    BY DEF SenderSend, flagVars, keyVars
  <1>3. sendKeyComplete
    BY <1>1 DEF IInv, InHands
  <1>4. Phase = "keyed" /\ Phase' = Phase
    BY <1>1, <1>2, <1>3 DEF Phase
  <1>5. queue \in Seq(Nat) /\ Transmitted \in Seq(Nat) /\ InHand = <<sndFrame.n>> /\ sndFrame.n \in Nat
    BY <1>1, TransmittedType, InHandIs DEF IInv, TypeOK
  <1>6. accepted \in Seq(Nat)
    BY DEF IInv, TypeOK
  <1> DEFINE t == Len(Transmitted)
             n == sndFrame.n
  <1>7. t \in Nat /\ DOMAIN Transmitted = 1 .. t
    BY <1>5
  <1>8. /\ t + 1 \in DOMAIN Line /\ Line[t + 1] = n
        /\ \A k \in 1 .. t : k \in DOMAIN Line /\ Line[k] = Transmitted[k]
    <2>1. Line = (Transmitted \o <<n>>) \o queue
      BY <1>5, Zenon DEF Line
    <2> QED
      BY <1>5, <2>1
  <1>9. \A k \in DOMAIN Transmitted : Transmitted[k] < n
    BY <1>7, <1>8 DEF AcceptedInOrder, Increasing
  <1>10. \A k \in DOMAIN Transmitted : Transmitted[k] \in Nat
    BY <1>5
  <1>11. \A i \in DOMAIN accepted : accepted[i] = n =>
            \A j \in i .. Len(accepted) : accepted[j] \in Nat /\ n <= accepted[j]
    <2> SUFFICES ASSUME NEW i \in DOMAIN accepted, accepted[i] = n,
                        NEW j \in i .. Len(accepted)
                 PROVE  accepted[j] \in Nat /\ n <= accepted[j]
      OBVIOUS
    <2>1. DOMAIN accepted = 1 .. Len(accepted) /\ Len(accepted) \in Nat
      BY <1>6
    <2>2. j \in DOMAIN accepted /\ (i < j \/ i = j)
      BY <2>1
    <2>3. accepted[i] \in Nat /\ accepted[j] \in Nat
      BY <1>6, <2>2
    <2>4. i < j => accepted[i] < accepted[j]
      BY <2>2 DEF Numbered, Increasing
    <2> QED
      BY <2>2, <2>3, <2>4
  <1>12. PICK i \in DOMAIN accepted : accepted[i] = n /\ (~starved => i = t + 1)
    <2>1. CASE ~starved
      <3>1. accepted = Line
        BY <1>1, <2>1 DEF NoneLostWhileWorking
      <3> QED
        BY <1>8, <2>1, <3>1
    <2>2. CASE starved
      BY <1>8, <2>2 DEF AcceptedInOrder, Among
    <2> QED
      BY <2>1, <2>2
  <1>13. \A j \in i .. Len(accepted) : \A k \in DOMAIN Transmitted : Transmitted[k] # accepted[j]
    <2> SUFFICES ASSUME NEW j \in i .. Len(accepted), NEW k \in DOMAIN Transmitted
                 PROVE  Transmitted[k] # accepted[j]
      OBVIOUS
    <2>1. accepted[j] \in Nat /\ n <= accepted[j]
      BY <1>11, <1>12
    <2>2. Transmitted[k] < n /\ Transmitted[k] \in Nat
      BY <1>9, <1>10
    <2> QED
      BY <1>5, <2>1, <2>2
  <1>14. GoesNext(i)
    BY <1>12, <1>13 DEF GoesNext
  <1>15. starved' = starved
    BY <1>1 DEF SenderSend
  <1> QED
    BY <1>2, <1>4, <1>12, <1>14, <1>15, ChannelSteps

\* A request that was not sent left the channel as it is, or made it lossy.
LEMMA ChannelGivesUp ==
  ASSUME IInv, Transmitted' = Transmitted, SenderSend
  PROVE  Channel!Next \/ ChannelKept
  <1>1. UNCHANGED <<socket, sendKeyComplete, accepted, delivered>>
    BY DEF SenderSend, flagVars, keyVars
  <1>2. Phase # "down" /\ Phase' = Phase
    BY <1>1 DEF SenderSend, Phase
  <1>3. starved' = starved \/ starved' = TRUE
    BY DEF SenderSend
  <1> QED
    BY <1>1, <1>2, <1>3, ChannelSteps DEF ChannelKept

LEMMA ChannelDelivers ==
  ASSUME IInv, SocketLife, Counted, Transmitted' = Transmitted, HandleOther
  PROVE  Channel!Next
  <1>1. /\ sendKeyComplete /\ srv = "keyed" /\ colMsg.kind = "enc"
        /\ delivered' = Append(delivered, colMsg.n)
    BY HandledIsDelivered
  <1>2. colPc = "handle" /\ UNCHANGED <<sndPc, socket, sendKeyComplete, starved, accepted>>
    BY DEF HandleOther, flagVars, keyVars, appVars
  <1>3. colMsg.n = Len(delivered) + 1
    <2>1. InCollector = 1
      BY <1>1, <1>2 DEF InCollector
    <2> QED
      BY <1>1, <1>2, <2>1 DEF Counted, Closing
  <1>4. socket = "open" /\ sndPc # "off"
    BY <1>2 DEF IInv, Phases, SocketLife
  <1>5. Phase = "keyed" /\ Phase' = Phase
    BY <1>1, <1>2, <1>4 DEF Phase
  <1> QED
    BY <1>1, <1>2, <1>3, <1>5, ChannelSteps

LEMMA ChannelAgrees ==
  ASSUME StoreOrder = "program", IInv, IInv', Transmitted' = Transmitted, PublishStore
  PROVE  Channel!Next \/ ChannelKept
  <1>1. UNCHANGED <<sndPc, socket, starved, accepted, delivered>>
    BY DEF PublishStore, flagVars, appVars
  <1>2. ~sendKeyComplete
    BY DEF IInv, KeyStages, PublishStore
  <1>3. CASE sendKeyComplete' /\ sndPc # "off" /\ socket = "open"
    <2>1. Phase = "open" /\ Phase' = "keyed"
      BY <1>1, <1>2, <1>3 DEF Phase
    <2> QED
      BY <1>1, <2>1, ChannelSteps
  <1>4. CASE ~sendKeyComplete' \/ sndPc = "off" \/ socket # "open"
    <2>1. Phase' = Phase
      BY <1>1, <1>2, <1>4 DEF Phase
    <2> QED
      BY <1>1, <2>1 DEF ChannelKept
  <1> QED
    BY <1>3, <1>4

LEMMA ChannelCloses ==
  ASSUME IInv, SocketLife, Transmitted' = Transmitted, CollectorClose
  PROVE  Channel!Next \/ ChannelKept
  <1>1. UNCHANGED <<sndPc, sendKeyComplete, starved, accepted, delivered>>
    BY DEF CollectorClose, keyVars, appVars
  <1>2. CASE socket' = socket
    <2>1. Phase' = Phase
      BY <1>1, <1>2 DEF Phase
    <2> QED
      BY <1>1, <2>1 DEF ChannelKept
  <1>3. CASE colPc = "close" /\ socket' = "stale"
    <2>1. socket = "open" /\ sndPc # "off"
      BY <1>3 DEF IInv, Phases, SocketLife
    <2>2. Phase \in {"open", "keyed"} /\ Phase' = "closed"
      BY <1>1, <1>3, <2>1 DEF Phase
    <2> QED
      BY <1>1, <2>2, ChannelSteps
  <1>4. CASE colPc = "forget" /\ socket' = "none"
    <2>1. socket # "open"
      BY <1>4 DEF IInv, Phases
    <2>2. Phase' = Phase
      BY <1>1, <1>4, <2>1 DEF Phase
    <2> QED
      BY <1>1, <2>2 DEF ChannelKept
  <1> QED
    BY <1>2, <1>3, <1>4 DEF CollectorClose, SessionCloseMessage, CleanNetwork

\* No socket is closed under a connection that works: destroySession joins the
\* collector first, which has closed it.
LEMMA ChannelDestroyed ==
  ASSUME IInv, Transmitted' = Transmitted, Destroy
  PROVE  ChannelKept
  <1>1. UNCHANGED <<sndPc, sendKeyComplete, starved, accepted, delivered>>
    BY DEF Destroy, keyVars, appVars
  <1>2. socket' = socket \/ (socket' = "none" /\ colPc \in {"off", "done"})
    BY DEF Destroy
  <1>3. colPc \in {"off", "done"} => sndPc = "off" \/ socket # "open"
    BY DEF IInv, Phases
  <1>4. Phase' = Phase
    BY <1>1, <1>2, <1>3 DEF Phase
  <1> QED
    BY <1>1, <1>4 DEF ChannelKept

\* The rest leaves the channel as it is.
LEMMA ChannelOthers ==
  ASSUME IInv, Transmitted' = Transmitted,
         \/ ConnectFails \/ SendId \/ CheckConnected \/ SendCheck
         \/ UserNext \/ SenderLoop \/ SenderTake \/ Terminated \/ ServerNext
         \/ CollectorRecv \/ CollectorStop \/ HandleParams \/ HandleKey \/ SendB
  PROVE  ChannelKept
  <1>1. ASSUME UNCHANGED <<starved, accepted, delivered, sendKeyComplete, socket>>,
               sndPc' = "off" <=> sndPc = "off"
        PROVE  ChannelKept
    BY <1>1 DEF Phase, ChannelKept
  <1>2. CASE ConnectFails
    <2>1. sndPc = "off" /\ UNCHANGED <<sndPc, starved, accepted, delivered>>
      BY <1>2 DEF ConnectFails, IInv, Phases, appVars
    <2> QED
      BY <2>1 DEF Phase, ChannelKept
  <1>3. CASE SendId \/ CheckConnected \/ SendCheck \/ UserNext \/ Terminated
    BY <1>1, <1>3 DEF SendId, CheckConnected, SendCheck, UserNext, UiRequest, UiNullService,
                      ForceExit, Terminated, vars, flagVars, keyVars, appVars
  <1>4. CASE SenderLoop \/ SenderTake
    BY <1>1, <1>4 DEF SenderLoop, SenderTake, flagVars, keyVars, appVars
  <1>5. CASE ServerNext
    BY <1>1, <1>5 DEF ServerNext, ServerHandshake, SrvOffer, SrvAnswer, SrvPush, SrvLeave,
                      flagVars, keyVars, appVars
  <1>6. CASE CollectorRecv \/ CollectorStop \/ HandleParams \/ HandleKey
    BY <1>1, <1>6 DEF CollectorRecv, CollectorStop, HandleParams, HandleKey, flagVars,
                      keyVars, appVars
  <1>7. CASE SendB
    <2>1. ~sendKeyComplete
      BY <1>7 DEF SendB, IInv, InHands, ServerStages, Agreed
    <2>2. sendKeyComplete' = sendKeyComplete
      <3>1. sendKeyComplete' = FALSE \/ sendKeyComplete' = sendKeyComplete
        BY <1>7 DEF SendB
      <3>2. sendKeyComplete \in BOOLEAN
        BY DEF IInv, TypeOK
      <3> QED
        BY <2>1, <3>1, <3>2
    <2>3. UNCHANGED <<sndPc, starved, accepted, delivered, socket>>
      BY <1>7 DEF SendB, flagVars, appVars
    <2> QED
      BY <1>1, <2>2, <2>3
  <1> QED
    BY <1>2, <1>3, <1>4, <1>5, <1>6, <1>7

LEMMA ChannelStep ==
  ASSUME StoreOrder = "program", CInv, CInv', Next
  PROVE  Channel!Next \/ ChannelKept
  <1>0. /\ IInv /\ IInv' /\ SocketLife /\ Holding /\ Numbered /\ Placed /\ Counted
        /\ AcceptedInOrder /\ NoneLostWhileWorking
    BY DEF CInv
  <1>1. CASE SenderSend
    <2>1. CASE SendsRequest /\ Transmitted' = Append(Transmitted, sndFrame.n)
      BY <1>0, <1>1, <2>1, ChannelTransmits
    <2>2. CASE Transmitted' = Transmitted
      BY <1>0, <1>1, <2>2, ChannelGivesUp
    <2> QED
      BY <1>0, <1>1, <2>1, <2>2, SenderTransmits
  <1>2. CASE ~SenderSend
    <2>1. Transmitted' = Transmitted
      BY <1>0, <1>2, OthersTransmitNothing
    <2>2. CASE MainNext
      BY <1>0, <2>1, <2>2, ChannelOpens, ChannelAccepts, ChannelDestroyed, ChannelOthers, Zenon
         DEF MainNext
    <2>3. CASE CollectorNext
      BY <1>0, <2>1, <2>3, ChannelDelivers, ChannelAgrees, ChannelCloses, ChannelOthers, Zenon
         DEF CollectorNext
    <2>4. CASE SenderNext \/ UserNext \/ ServerNext \/ Terminated
      BY <1>0, <1>2, <2>1, <2>4, ChannelOthers, Zenon DEF SenderNext
    <2> QED
      BY <2>2, <2>3, <2>4, Zenon DEF Next
  <1> QED
    BY <1>1, <1>2

(***************************************************************************)
(* The theorems.                                                           *)
(***************************************************************************)
LEMMA CInvInit == Init => CInv
  <1> SUFFICES ASSUME Init PROVE CInv
    OBVIOUS
  <1>1. IInv
    BY IInvInit
  <1>2. SocketLife /\ Holding /\ Numbered /\ Counted
    BY DEF Init, SocketLife, Holding, Numbered, Increasing, Counted
  <1>3. SentPlaces = {}
    BY DEF Init, SentPlaces
  <1>4. Cardinality({}) = 0
    BY FS_EmptySet
  <1>5. Placed
    BY <1>3, <1>4 DEF Placed
  <1>6. Transmitted = << >>
    BY <1>3, <1>4 DEF Transmitted
  <1>7. InHand = << >> /\ queue = << >> /\ accepted = << >>
    BY DEF Init, InHand
  <1>8. Line = << >>
    <2>1. (<< >> \o << >>) \o << >> = << >>
      OBVIOUS
    <2> QED
      BY <1>6, <1>7, <2>1, Zenon DEF Line
  <1>9. AcceptedInOrder /\ NoneLostWhileWorking
    BY <1>7, <1>8 DEF AcceptedInOrder, NoneLostWhileWorking, Increasing, Among
  <1> QED
    BY <1>1, <1>2, <1>5, <1>9 DEF CInv

LEMMA CInvStep ==
  ASSUME StoreOrder = "program", CInv, IInv', [Next]_vars
  PROVE  CInv'
  <1>0. /\ IInv /\ SocketLife /\ Holding /\ Numbered /\ Placed /\ Counted
        /\ AcceptedInOrder /\ NoneLostWhileWorking
    BY DEF CInv
  <1>1. CASE Next
    <2>1. SocketLife' /\ Holding' /\ Numbered' /\ Counted'
      BY <1>0, <1>1, SocketLifeStep, HoldingStep, NumberedStep, CountedStep
    <2>2. Placed'
      BY <1>0, <1>1, SenderTransmits, OthersTransmitNothing
    <2>3. AcceptedInOrder' /\ NoneLostWhileWorking'
      BY <1>0, <1>1, <2>1, AcceptedInOrderStep
    <2> QED
      BY <2>1, <2>2, <2>3 DEF CInv
  <1>2. CASE UNCHANGED vars
    <2>1. SocketLife' /\ Holding' /\ Numbered'
      BY <1>0, <1>2 DEF vars, flagVars, appVars, SocketLife, Holding, Numbered, Increasing
    <2>2. Counted'
      BY <1>0, <1>2 DEF vars, srvVars, Counted, AheadOfPushes, InCollector
    <2>3. Placed' /\ Transmitted' = Transmitted
      BY <1>0, <1>2, TransmittedStays DEF vars, wireVars, srvVars
    <2>4. AcceptedInOrder' /\ NoneLostWhileWorking'
      <3>1. /\ UNCHANGED <<accepted, queue, sndFrame, socket, broken, starved>>
            /\ Line' = Line
        BY <1>2, <2>3, LineKept DEF vars, appVars, flagVars, wireVars
      <3> QED
        BY <1>0, <3>1, OrderKept
    <2> QED
      BY <2>1, <2>2, <2>3, <2>4 DEF CInv
  <1> QED
    BY <1>1, <1>2

\* The counting of requests and pushes holds in every reachable state.
LEMMA ChannelInvariant ==
  ASSUME StoreOrder = "program" PROVE Spec => []CInv
  <1>1. CInv /\ IInv' /\ [Next]_vars => CInv'
    BY CInvStep
  <1> QED
    BY CInvInit, <1>1, Invariant, PTL DEF Spec

\* Where stores become visible in program order: whatever fails, no request is
\* sent twice or overtaken on its way through the queue and the sender's hands
\* (session.c:312-326, 541-570).
THEOREM NoneTwiceOrOvertaken ==
  ASSUME StoreOrder = "program" PROVE Spec => []AcceptedInOrder
  <1>1. CInv => AcceptedInOrder
    BY DEF CInv
  <1> QED
    BY ChannelInvariant, <1>1, PTL

\* Where stores become visible in program order: until a send, an allocation or
\* RAND_bytes fails, every request that was handed over is on the wire, in the
\* sender's hands or in the queue; above all none is taken before there is a
\* key to encrypt it with (session.c:551, 808-820, 885-890).
THEOREM NoneLost ==
  ASSUME StoreOrder = "program" PROVE Spec => []NoneLostWhileWorking
  <1>1. CInv => NoneLostWhileWorking
    BY DEF CInv
  <1> QED
    BY ChannelInvariant, <1>1, PTL

\* Where stores become visible in program order, the three threads, their flags
\* and the socket are a secure channel: it opens once, agrees on a key once and
\* never reopens; requests go out at most once, in order and under that key, all
\* of them until memory or RAND_bytes fails; the server's messages are delivered
\* in order and only while it is keyed.
THEOREM SessionIsAChannel ==
  ASSUME StoreOrder = "program" PROVE Spec => ImplementsChannel
  <1>1. Init => Channel!Init
    <2> SUFFICES ASSUME Init PROVE Channel!Init
      OBVIOUS
    <2>1. SentPlaces = {} /\ Cardinality({}) = 0
      BY FS_EmptySet DEF Init, SentPlaces
    <2>2. Transmitted = << >>
      BY <2>1 DEF Transmitted
    <2> QED
      BY <2>2 DEF Init, Channel!Init
  <1>2. CInv /\ CInv' /\ [Next]_vars => [Channel!Next]_(Channel!cvars)
    <2> SUFFICES ASSUME CInv, CInv', [Next]_vars
                 PROVE  Channel!Next \/ UNCHANGED Channel!cvars
      OBVIOUS
    <2>1. ChannelKept => UNCHANGED Channel!cvars
      BY DEF ChannelKept, Phase, Channel!cvars
    <2>2. UNCHANGED vars => ChannelKept
      <3> SUFFICES ASSUME UNCHANGED vars PROVE ChannelKept
        OBVIOUS
      <3>1. Transmitted' = Transmitted
        BY TransmittedStays DEF vars, wireVars, srvVars, CInv
      <3> QED
        BY <3>1 DEF vars, flagVars, keyVars, appVars, ChannelKept, Phase
    <2> QED
      BY <2>1, <2>2, ChannelStep
  <1> QED
    BY <1>1, <1>2, ChannelInvariant, PTL DEF Spec, ImplementsChannel, Channel!Spec
=============================================================================
