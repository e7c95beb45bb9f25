--------------------------- MODULE SessionInvariant ---------------------------
(***************************************************************************)
(* The inductive invariants behind the theorems about the session.  IInv   *)
(* says which of the three threads may be doing what at each stage of the  *)
(* key exchange, and what is then under way between client and server.     *)
(* CInv adds where each accepted request and each pushed message is.       *)
(***************************************************************************)
EXTENDS SessionProperties

Closing == {"closing", "clean", "close", "forget", "detach", "done"}
Closed == {"close", "forget", "detach", "done"}

\* The stages of a connection's life, as the program counters see them.
Phases ==
    /\ colPc = "off" <=> sndPc = "off"
    /\ mainPc = "connect" => colPc = "off"
    /\ colPc = "off" =>
          /\ mainPc \notin {"idHead", "idTail", "check", "gtk", "sendCheck",
                            "sendAdd"}
          /\ ~connected /\ service /\ ~isClosed /\ ~sendKeyComplete
          /\ srv = "idle" /\ wire = << >> /\ ~broken
    /\ isClosed => colPc \in Closing \ {"closing"}
    /\ colPc \in Closed => ~connected
    /\ ~service => colPc = "done"
    /\ colPc # "off" /\ socket = "open" => colPc \notin {"forget", "detach", "done"}

\* The key is agreed as far as the collector knows.
Agreed == sendKeyComplete \/ colPc = "publish"

\* What the server has said and asked so far; r is its current round.
ServerStages ==
    /\ srv = "idle" =>
          /\ srvRound = 0 /\ toClient = << >> /\ ~Agreed
          /\ colPc \notin {"handle", "bHead", "bTail"}
          /\ \A i \in DOMAIN wire : wire[i].frame = IdFrame
    /\ srv # "idle" =>
          /\ srvRound \in Rounds
          /\ mainPc \notin {"connect", "idHead", "idTail"}
          /\ Whole(IdFrame)
    /\ \A i \in DOMAIN wire : wire[i].frame.kind = "dh" => wire[i].frame.n <= srvRound
    /\ (srv = "offered" /\ Whole(BFrame(srvRound))) =>
          /\ toClient = << >> /\ bbRound = srvRound
          /\ colPc \notin {"handle", "bHead", "bTail"}
    /\ srv = "keyed" => bbRound = srvRound
    /\ Agreed => srv = "keyed"

\* What may be on its way to the client; and where the server's A is.
UnderWay ==
    /\ \A i \in DOMAIN toClient :
        /\ toClient[i].kind \in {"dh", "key", "enc"}
        /\ toClient[i].kind = "dh" =>
              /\ srv = "offered" /\ toClient[i].n = srvRound
              /\ i = Len(toClient) /\ ~Whole(BFrame(srvRound))
              /\ colPc \notin {"bHead", "bTail"}
              /\ colPc = "handle" => colMsg.kind = "key" /\ ~colMsg.ok
        /\ toClient[i].kind = "key" =>
              /\ i = 1 /\ ~Agreed
              /\ colPc \notin {"handle", "bHead", "bTail"}
              /\ toClient[i].ok => srv = "keyed" /\ toClient[i].n = srvRound
              /\ ~toClient[i].ok => srv \in {"offered", "rejected"}
        /\ toClient[i].kind = "enc" => srv = "keyed"
    /\ srv = "keyed" =>
          \/ Agreed \/ colPc \in Closing
          \/ toClient # << >> /\ toClient[1].kind = "key"
          \/ colPc = "handle" /\ colMsg.kind = "key" /\ colMsg.ok

\* What the collector holds when it handles a message or answers with B.
InHands ==
    /\ colPc = "handle" =>
          /\ colMsg.kind = "dh" =>
                /\ srv = "offered" /\ colMsg.n = srvRound
                /\ toClient = << >> /\ ~Whole(BFrame(srvRound))
          /\ colMsg.kind = "key" =>
                /\ ~sendKeyComplete
                /\ colMsg.ok => srv = "keyed" /\ colMsg.n = srvRound
                /\ ~colMsg.ok => srv \in {"offered", "rejected"}
          /\ colMsg.kind = "enc" => sendKeyComplete
          /\ colMsg.kind \in {"dh", "key", "enc"}
    /\ colPc \in {"bHead", "bTail"} =>
          /\ srv = "offered" /\ bbRound = srvRound
          /\ toClient = << >> /\ ~Whole(BFrame(srvRound))
    /\ colPc = "publish" => colMsg.n = srvRound
    /\ sndPc \in {"drain", "head", "tail"} => sendKeyComplete

\* Who is in the middle of a frame: its head is the last piece on the wire.
LastIs(f) == Len(wire) > 0 /\ wire[Len(wire)] = [frame |-> f, part |-> "head"]
Writers ==
    /\ mainPc = "idHead" => wire = << >>
    /\ mainPc = "idTail" => Len(wire) = 1 /\ LastIs(IdFrame)
    /\ colPc = "bTail" => LastIs(BFrame(bbRound))
    /\ sndPc = "tail" => LastIs(sndFrame) /\ sndFrame.kind = "enc"
    /\ (Len(wire) > 0 /\ wire[Len(wire)].part = "head") =>
          \/ mainPc = "idTail" \/ colPc = "bTail" \/ sndPc = "tail"
          \/ broken \/ socket # "open"

\* The key as the stores of compute_shared_key become visible; only their
\* program order makes it the agreed one whenever the flag is seen.
KeyStages ==
    /\ colPc # "publish" /\ ~sendKeyComplete => key = NoKey
    /\ colPc = "publish" /\ sendKeyComplete =>
          \A i \in DOMAIN pending : pending[i] # "flag"
    /\ StoreOrder = "program" =>
          /\ sendKeyComplete => key = ServerKey /\ colPc # "publish"
          /\ colPc = "publish" =>
                \/ pending = KeyStores /\ key = NoKey
                \/ pending = <<"contents", "flag">> /\ key = Unfilled
                \/ pending = <<"flag">> /\ key = ServerKey
          /\ \A i \in DOMAIN wire :
                wire[i].frame.kind = "enc" =>
                    srv = "keyed" /\ wire[i].frame.key = ServerKey
          /\ sndPc = "tail" => sndFrame.key = ServerKey

IInv ==
    /\ TypeOK
    /\ Phases
    /\ ServerStages
    /\ UnderWay
    /\ InHands
    /\ Writers
    /\ KeyStages
    /\ WireFramesWhole
-----------------------------------------------------------------------------
(***************************************************************************)
(* What the refinement of SecureChannel needs besides: the requests and    *)
(* the server's messages are counted through all the hands they pass.      *)
(***************************************************************************)

\* The socket is there for as long as the collector has not closed it, and
\* nothing was handed over before there were threads.
SocketLife ==
    /\ colPc \notin {"off", "forget", "detach", "done"} => socket = "open"
    /\ colPc = "off" => accepted = << >> /\ queue = << >> /\ sndFrame = NoFrame

\* The sender holds a request from the queue until it is sent or given up.
Holding ==
    IF sndPc \in {"head", "tail"} THEN sndFrame.kind = "enc" ELSE sndFrame = NoFrame

\* Requests are numbered as they are made and accepted in that order; the one
\* being handed over is the newest and not accepted yet.
Numbered ==
    /\ \A i \in DOMAIN accepted : accepted[i] <= nreq
    /\ Increasing(accepted)
    /\ mainPc \in {"sendCheck", "sendAdd"} =>
          /\ request = nreq /\ nreq \in Requests
          /\ \A i \in DOMAIN accepted : accepted[i] < nreq

\* The places of the requests sent can be counted.
Placed == \A k \in 1 .. Cardinality(SentPlaces) : Nth(SentPlaces, k) \in SentPlaces

\* Until the collector closes, every message the server has pushed is on its
\* way, in the collector's hands or delivered, in the order of their numbers.
AheadOfPushes == IF toClient # << >> /\ toClient[1].kind = "key" THEN 1 ELSE 0
InCollector == IF colPc = "handle" /\ colMsg.kind = "enc" THEN 1 ELSE 0
Counted ==
    /\ srv # "keyed" => pushes = 0 /\ delivered = << >>
    /\ \A i \in DOMAIN toClient :
          toClient[i].kind = "enc" => toClient[i].n = pushes - Len(toClient) + i
    /\ (srv = "keyed" /\ colPc \notin Closing) =>
          /\ pushes + AheadOfPushes = Len(delivered) + InCollector + Len(toClient)
          /\ InCollector = 1 => colMsg.n = Len(delivered) + 1

CInv ==
    /\ IInv
    /\ SocketLife
    /\ Holding
    /\ Numbered
    /\ Placed
    /\ Counted
    /\ AcceptedInOrder
    /\ NoneLostWhileWorking
=============================================================================
