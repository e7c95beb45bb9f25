------------------------------- MODULE Session -------------------------------
(***************************************************************************)
(* The connection of the chat client: src/network/session.c as main.c and  *)
(* the GTK callbacks drive it.  Three threads share it: the main (GTK)     *)
(* thread connects, hands requests over and tears down; the sender drains  *)
(* the queue of requests; the collector reads, exchanges the key, passes   *)
(* messages to the controller and closes.  Two of them write to the socket *)
(* without a lock, and all flags are plain variables.                      *)
(*                                                                         *)
(* A frame is sent by several calls of send(); they are modelled as two,   *)
(* its head and its tail, each of which may fail.  The queue's own steps   *)
(* are in MessageQueue, the arithmetic of the key in KeyExchange.          *)
(* The server is not part of the repository: it is the well-behaved peer   *)
(* the client's protocol expects, which may leave at any moment.           *)
(* An operator whose comment begins "Variant" is the next definition with  *)
(* a plausible defect: no specification uses it, PROJECT.json names the    *)
(* property that notices it.                                               *)
(***************************************************************************)
EXTENDS Integers, Sequences, FiniteSets

CONSTANTS
    MaxRequests,   \* bound: requests the user makes
    MaxPushes,     \* bound: messages the server sends once keyed
    MaxRounds,     \* bound: times the server offers DH parameters
    ParamKinds,    \* what it offers: "sound" (p prime) and perhaps "weak"
    ServerName,    \* how main was given the server: "address" or "hostname"
    StoreOrder,    \* "program" (x64) or "any" (ARM64, no barrier)
    QueueCapacity  \* what message_queue_create is asked for (10)

ASSUME SessionAssumption ==
    /\ MaxRequests \in Nat /\ MaxPushes \in Nat /\ MaxRounds \in Nat
    /\ ParamKinds \subseteq {"sound", "weak"}
    /\ ServerName \in {"address", "hostname"}
    /\ StoreOrder \in {"program", "any"}
    /\ QueueCapacity \in Nat \ {0}

VARIABLES
    mainPc, colPc, sndPc,     \* where the three threads are
    connected, service,       \* session->connected; handler and service set
    socket,                   \* "none" (-1), "open" or "stale" (fd closed)
    isClosed,
    sendKeyComplete, key,     \* private->sendKeyComplete, private->key
    pending,                  \* stores of compute_shared_key not yet visible
    bbRound,                  \* the round key->bb was drawn in
    sndRunning, colRunning,   \* sender->running, collector->running
    queue,                    \* sender->queue
    request,                  \* the message session_send_message was given
    sndFrame, colMsg,         \* what the sender and the collector hold
    wire,                     \* every piece written to the socket, in order
    broken,                   \* a send failed: all later ones fail as well
    srvUp, srv, srvRound,     \* the server: connected?, handshake state
    toClient, pushes,         \* its messages under way; how many it pushed
    nreq, accepted,           \* requests made, handed to message_queue_add
    starved,                  \* has memory or RAND_bytes failed a request?
    delivered                 \* pushes dispatched

appVars == <<request, queue, nreq, accepted, starved>>
keyVars == <<sendKeyComplete, key, pending, bbRound>>
flagVars == <<connected, service, socket, isClosed, sndRunning, colRunning>>
srvVars == <<srvUp, srv, srvRound, pushes>>
wireVars == <<wire, broken>>

vars == <<mainPc, colPc, sndPc, flagVars, keyVars, appVars, wireVars,
          sndFrame, colMsg, srvVars, toClient, delivered>>

Requests == 1 .. MaxRequests
Rounds == 1 .. MaxRounds

\* private->key: NULL, the built-in test key, allocated but not yet derived,
\* or derived from the client's secret of one round and the server's of one.
Keys == Nat \X Nat
NoKey == <<0, 0>>
TestKey == <<0, 1>>
Unfilled == <<0, 2>>

\* Frames of the client: the request for a session, its public value B of a
\* round, and request n encrypted under key k.
IdFrame == [kind |-> "id", n |-> 0, key |-> NoKey]
\* Variant: B goes out as TRADE_KEY.
BFrameAsKey(r) == [kind |-> "key", n |-> r, key |-> NoKey]
BFrame(r) == [kind |-> "dh", n |-> r, key |-> NoKey]
Encrypted(m, k) == [kind |-> "enc", n |-> m, key |-> k]
Frames == [kind : {"none", "id", "dh", "enc"}, n : Nat, key : Keys]
NoFrame == [kind |-> "none", n |-> 0, key |-> NoKey]
Parts == {"head", "tail"}
Pieces == [frame : Frames, part : Parts]

\* Messages of the server: DH parameters, its public value A (A or the shared
\* key is zero when not ok), and encrypted message number n.
Offer(r, k) == [kind |-> "dh", n |-> r, ok |-> k = "sound"]
PublicA(r, b) == [kind |-> "key", n |-> r, ok |-> b]
Push(n) == [kind |-> "enc", n |-> n, ok |-> TRUE]
NoMsg == [kind |-> "none", n |-> 0, ok |-> FALSE]
ServerMsgs == [kind : {"none", "dh", "key", "enc"}, n : Nat, ok : BOOLEAN]

MainPcs == {"connect", "idHead", "idTail", "check", "gtk", "sendCheck",
            "sendAdd", "destroy", "joinSender", "joinCollector", "exited",
            "crashed", "blocked"}
ColPcs == {"off", "loop", "handle", "bHead", "bTail", "publish", "closing",
           "clean", "close", "forget", "detach", "done"}
SndPcs == {"off", "loop", "drain", "head", "tail", "done"}

\* Nothing more will happen in the process.
Alive == mainPc \notin {"exited", "crashed", "blocked"}

\* Every piece of f is on the wire.
Whole(f) == \E i \in DOMAIN wire : wire[i] = [frame |-> f, part |-> "tail"]

Init ==
    /\ mainPc = "connect" /\ colPc = "off" /\ sndPc = "off"
    /\ connected = FALSE /\ service = TRUE /\ socket = "none"
    /\ isClosed = FALSE /\ sndRunning = FALSE /\ colRunning = FALSE
    /\ sendKeyComplete = FALSE /\ key = NoKey /\ pending = << >>
    /\ bbRound = 0
    /\ queue = << >> /\ request = 0 /\ nreq = 0 /\ accepted = << >>
    /\ starved = FALSE
    /\ sndFrame = NoFrame /\ colMsg = NoMsg
    /\ wire = << >> /\ broken = FALSE
    /\ srvUp = TRUE /\ srv = "idle" /\ srvRound = 0 /\ pushes = 0
    /\ toClient = << >> /\ delivered = << >>

(***************************************************************************)
(* send() on the session's socket.  It writes the piece, or fails because  *)
(* the descriptor is closed or the peer is gone.  The first sends after    *)
(* the peer left may still succeed.                                        *)
(***************************************************************************)
SendOk(f, p) ==
    /\ socket = "open" /\ ~broken
    /\ wire' = Append(wire, [frame |-> f, part |-> p])
    /\ UNCHANGED broken

SendFails ==
    /\ socket # "open" \/ broken \/ ~srvUp
    /\ broken' = (broken \/ socket = "open")
    /\ UNCHANGED wire

(***************************************************************************)
(* The main thread: main(), session_do_connect, session_send_message, the  *)
(* exit button, destroySession.                                            *)
(***************************************************************************)
ConnectOk ==
    /\ mainPc = "connect" /\ srvUp /\ ServerName = "address"
    /\ mainPc' = "idHead" /\ colPc' = "loop" /\ sndPc' = "loop"
    /\ socket' = "open" /\ connected' = TRUE
    /\ sndRunning' = TRUE /\ colRunning' = TRUE
    /\ UNCHANGED <<service, isClosed, keyVars, appVars, wireVars, sndFrame,
                   colMsg, srvVars, toClient, delivered>>

\* Nobody listens, or inet_addr() cannot read the name: main gives up.
ConnectFails ==
    /\ mainPc = "connect"
    /\ ~srvUp \/ ServerName = "hostname"
    /\ mainPc' = "destroy"
    /\ socket' \in {"none", "open"}
    /\ UNCHANGED <<colPc, sndPc, connected, service, isClosed, sndRunning,
                   colRunning, keyVars, appVars, wireVars, sndFrame, colMsg,
                   srvVars, toClient, delivered>>

\* GET_SESSION_ID goes out on this thread, past the queue.
SendId ==
    /\ \/ /\ mainPc = "idHead" /\ SendOk(IdFrame, "head")
          /\ mainPc' = "idTail"
       \/ /\ mainPc = "idTail" /\ SendOk(IdFrame, "tail")
          /\ mainPc' = "check"
       \/ /\ mainPc \in {"idHead", "idTail"} /\ SendFails
          /\ mainPc' = "check"
    /\ UNCHANGED <<colPc, sndPc, flagVars, keyVars, appVars, sndFrame, colMsg,
                   srvVars, toClient, delivered>>

CheckConnected ==
    /\ mainPc = "check"
    /\ mainPc' = IF connected THEN "gtk" ELSE "destroy"
    /\ UNCHANGED <<colPc, sndPc, flagVars, keyVars, appVars, wireVars,
                   sndFrame, colMsg, srvVars, toClient, delivered>>

\* A callback makes a request: login and register through the user object,
\* everything else through session->service.
UiRequest(via) ==
    /\ mainPc = "gtk" /\ nreq < MaxRequests
    /\ via = "user" \/ service
    /\ mainPc' = "sendCheck"
    /\ nreq' = nreq + 1 /\ request' = nreq + 1
    /\ UNCHANGED <<colPc, sndPc, flagVars, keyVars, queue, accepted, starved,
                   wireVars, sndFrame, colMsg, srvVars, toClient, delivered>>

\* session->service is NULL and the callback dereferences it.
UiNullService ==
    /\ mainPc = "gtk" /\ ~service
    /\ mainPc' = "crashed"
    /\ UNCHANGED <<colPc, sndPc, flagVars, keyVars, appVars, wireVars,
                   sndFrame, colMsg, srvVars, toClient, delivered>>

\* session_send_message: the flags are read here ...
SendCheck ==
    /\ mainPc = "sendCheck"
    /\ mainPc' = IF connected /\ sndRunning THEN "sendAdd" ELSE "gtk"
    /\ UNCHANGED <<colPc, sndPc, flagVars, keyVars, appVars, wireVars,
                   sndFrame, colMsg, srvVars, toClient, delivered>>

\* Variant: once there is a key the request goes out at once, on this thread.
SendAddAtOnce ==
    /\ mainPc = "sendAdd"
    /\ mainPc' = "gtk"
    /\ accepted' = Append(accepted, request)
    /\ IF sendKeyComplete
       THEN /\ socket = "open" /\ ~broken
            /\ LET f == Encrypted(request, key) IN
               wire' = wire \o <<[frame |-> f, part |-> "head"],
                                 [frame |-> f, part |-> "tail"]>>
            /\ UNCHANGED <<queue, broken>>
       ELSE queue' = Append(queue, request) /\ UNCHANGED wireVars
    /\ UNCHANGED <<colPc, sndPc, flagVars, keyVars, request, nreq, starved,
                   sndFrame, colMsg, srvVars, toClient, delivered>>

\* ... and the message is queued here, whatever they are by now; or dropped
\* without a word, when the array is full and cannot grow.
SendAdd ==
    /\ mainPc = "sendAdd"
    /\ mainPc' = "gtk"
    /\ accepted' = Append(accepted, request)
    /\ \/ queue' = Append(queue, request) /\ UNCHANGED starved
       \/ /\ Len(queue) >= QueueCapacity
          /\ starved' = TRUE /\ UNCHANGED queue
    /\ UNCHANGED <<colPc, sndPc, flagVars, keyVars, request, nreq, wireVars,
                   sndFrame, colMsg, srvVars, toClient, delivered>>

\* force_exit: exit(0) with whatever is queued.
ForceExit ==
    /\ mainPc = "gtk"
    /\ mainPc' = "exited"
    /\ UNCHANGED <<colPc, sndPc, flagVars, keyVars, appVars, wireVars,
                   sndFrame, colMsg, srvVars, toClient, delivered>>

\* destroySession: stop and join the sender, free the queue, stop and join the
\* collector.  Joining a thread that was never created reads an uninitialised
\* pthread_t: the join may return, bring the process down or never return.
Destroy ==
    /\ \/ /\ mainPc = "destroy"
          /\ mainPc' = "joinSender" /\ sndRunning' = FALSE
          /\ UNCHANGED <<colRunning, socket>>
       \/ /\ mainPc = "joinSender" /\ sndPc \in {"off", "done"}
          /\ \/ mainPc' = "joinCollector" /\ colRunning' = FALSE
             \/ /\ sndPc = "off" /\ mainPc' \in {"crashed", "blocked"}
                /\ UNCHANGED colRunning
          /\ UNCHANGED <<sndRunning, socket>>
       \/ /\ mainPc = "joinCollector" /\ colPc \in {"off", "done"}
          /\ \/ mainPc' = "exited" /\ socket' = "none"
             \/ /\ colPc = "off" /\ mainPc' \in {"crashed", "blocked"}
                /\ UNCHANGED socket
          /\ UNCHANGED <<sndRunning, colRunning>>
    /\ UNCHANGED <<colPc, sndPc, connected, service, isClosed, keyVars,
                   appVars, wireVars, sndFrame, colMsg, srvVars, toClient,
                   delivered>>

(***************************************************************************)
(* The sender thread.                                                      *)
(***************************************************************************)
\* Variant: the loop does not wait for the key.
SenderLoopEager ==
    /\ sndPc = "loop"
    /\ sndPc' = IF connected /\ sndRunning THEN "drain" ELSE "done"
    /\ UNCHANGED <<mainPc, colPc, flagVars, keyVars, appVars, wireVars,
                   sndFrame, colMsg, srvVars, toClient, delivered>>

\* Variant: no key yet, no sender.
SenderLoopGivesUp ==
    /\ sndPc = "loop"
    /\ sndPc' = IF connected /\ sndRunning /\ sendKeyComplete THEN "drain"
                ELSE "done"
    /\ UNCHANGED <<mainPc, colPc, flagVars, keyVars, appVars, wireVars,
                   sndFrame, colMsg, srvVars, toClient, delivered>>

\* Variant: the sender looks at connected and running only when it has a key.
SenderLoopDeaf ==
    /\ sndPc = "loop" /\ sendKeyComplete
    /\ sndPc' = IF connected /\ sndRunning THEN "drain" ELSE "done"
    /\ UNCHANGED <<mainPc, colPc, flagVars, keyVars, appVars, wireVars,
                   sndFrame, colMsg, srvVars, toClient, delivered>>

SenderLoop ==
    /\ sndPc = "loop"
    /\ \/ ~(connected /\ sndRunning) /\ sndPc' = "done"
       \/ connected /\ sndRunning /\ sendKeyComplete /\ sndPc' = "drain"
    /\ UNCHANGED <<mainPc, colPc, flagVars, keyVars, appVars, wireVars,
                   sndFrame, colMsg, srvVars, toClient, delivered>>

\* Variant: message_queue_remove takes the last message.
SenderTakeNewest ==
    /\ sndPc = "drain"
    /\ \/ /\ queue = << >> /\ sndPc' = "loop"
          /\ UNCHANGED <<queue, sndFrame>>
       \/ /\ queue # << >> /\ sndPc' = "head"
          /\ sndFrame' = Encrypted(queue[Len(queue)], NoKey)
          /\ queue' = SubSeq(queue, 1, Len(queue) - 1)
    /\ UNCHANGED <<mainPc, colPc, flagVars, keyVars, request, nreq, accepted,
                   starved, wireVars, colMsg, srvVars, toClient, delivered>>

\* Variant: message_queue_get instead of message_queue_remove.
SenderTakeKeeps ==
    /\ sndPc = "drain" /\ queue # << >>
    /\ sndPc' = "head"
    /\ sndFrame' = Encrypted(Head(queue), NoKey)
    /\ UNCHANGED <<mainPc, colPc, flagVars, keyVars, appVars, wireVars, colMsg,
                   srvVars, toClient, delivered>>

\* while (queue->size > 0): take the oldest, or go back to sleep.
SenderTake ==
    /\ sndPc = "drain"
    /\ \/ /\ queue = << >> /\ sndPc' = "loop"
          /\ UNCHANGED <<queue, sndFrame>>
       \/ /\ queue # << >> /\ sndPc' = "head"
          /\ sndFrame' = Encrypted(Head(queue), NoKey)
          /\ queue' = Tail(queue)
    /\ UNCHANGED <<mainPc, colPc, flagVars, keyVars, request, nreq, accepted,
                   starved, wireVars, colMsg, srvVars, toClient, delivered>>

\* do_send_message of a request.  The result is ignored: a request whose frame
\* could not be encrypted (no key, no random bytes, no memory) or sent is
\* destroyed.
SenderSend ==
    /\ \/ /\ sndPc = "head" /\ key # NoKey
          /\ SendOk(Encrypted(sndFrame.n, key), "head")
          /\ sndPc' = "tail" /\ sndFrame' = Encrypted(sndFrame.n, key)
          /\ UNCHANGED starved
       \/ /\ sndPc = "head"
          /\ \/ key = NoKey /\ UNCHANGED starved
             \/ starved' = TRUE
          /\ sndPc' = "drain" /\ sndFrame' = NoFrame /\ UNCHANGED wireVars
       \/ /\ sndPc = "tail" /\ SendOk(sndFrame, "tail")
          /\ sndPc' = "drain" /\ sndFrame' = NoFrame /\ UNCHANGED starved
       \/ /\ sndPc = "tail" \/ (sndPc = "head" /\ key # NoKey)
          /\ SendFails
          /\ sndPc' = "drain" /\ sndFrame' = NoFrame /\ UNCHANGED starved
    /\ UNCHANGED <<mainPc, colPc, flagVars, keyVars, request, queue, nreq,
                   accepted, colMsg, srvVars, toClient, delivered>>

SenderNext == SenderLoop \/ SenderTake \/ SenderSend

(***************************************************************************)
(* The collector thread.                                                   *)
(***************************************************************************)
\* Variant: the test key is installed whether there is a key or not.
CollectorRecvTestKey ==
    /\ colPc = "loop" /\ connected /\ colRunning /\ toClient # << >>
    /\ toClient' = Tail(toClient)
    /\ colMsg' = Head(toClient)
    /\ key' = IF colMsg'.kind = "enc" THEN TestKey ELSE key
    /\ colPc' = "handle"
    /\ UNCHANGED <<mainPc, sndPc, flagVars, sendKeyComplete, pending, bbRound,
                   appVars, wireVars, sndFrame, srvVars, delivered>>

\* session_read_message returns a message.  An encrypted one that arrives when
\* there is no key installs the test key.  With a key that is not the server's
\* decryption fails, or yields a message of no meaning.
CollectorRecv ==
    /\ colPc = "loop" /\ connected /\ colRunning /\ toClient # << >>
    /\ toClient' = Tail(toClient)
    /\ LET m == Head(toClient)
           k == IF m.kind = "enc" /\ key = NoKey THEN TestKey ELSE key
       IN  /\ key' = k
           /\ colMsg' = m
           /\ colPc' \in IF m.kind = "enc" /\ k # <<srvRound, srvRound>>
                         THEN {"handle", "closing"} ELSE {"handle"}
    /\ UNCHANGED <<mainPc, sndPc, flagVars, sendKeyComplete, pending, bbRound,
                   appVars, wireVars, sndFrame, srvVars, delivered>>

\* Variant: recv() is tested for < 0, not <= 0.
CollectorStopOnError ==
    /\ colPc = "loop" /\ ~(connected /\ colRunning)
    /\ colPc' = "closing"
    /\ UNCHANGED <<mainPc, sndPc, flagVars, keyVars, appVars, wireVars,
                   sndFrame, colMsg, srvVars, toClient, delivered>>

\* The loop ends: stopped, or recv() returned nothing.
CollectorStop ==
    /\ colPc = "loop"
    /\ ~(connected /\ colRunning) \/ (toClient = << >> /\ ~srvUp)
    /\ colPc' = "closing"
    /\ UNCHANGED <<mainPc, sndPc, flagVars, keyVars, appVars, wireVars,
                   sndFrame, colMsg, srvVars, toClient, delivered>>

\* Variant: the test of B for zero is inverted.
HandleParamsInverted ==
    /\ colPc = "handle" /\ ~sendKeyComplete /\ colMsg.kind = "dh"
    /\ \/ colMsg.ok /\ colPc' = "loop" /\ bbRound' \in {bbRound, colMsg.n}
       \/ ~colMsg.ok /\ colPc' = "bHead" /\ bbRound' = colMsg.n
    /\ UNCHANGED <<mainPc, sndPc, flagVars, sendKeyComplete, key, pending,
                   appVars, wireVars, sndFrame, colMsg, srvVars, toClient,
                   delivered>>

\* send_private_key: a fresh secret bb and its B; no reply if p or g is zero,
\* before bb is drawn, or if B is.
HandleParams ==
    /\ colPc = "handle" /\ ~sendKeyComplete /\ colMsg.kind = "dh"
    /\ \/ colPc' = "bHead" /\ bbRound' = colMsg.n
       \/ ~colMsg.ok /\ colPc' = "loop" /\ bbRound' \in {bbRound, colMsg.n}
    /\ UNCHANGED <<mainPc, sndPc, flagVars, sendKeyComplete, key, pending,
                   appVars, wireVars, sndFrame, colMsg, srvVars, toClient,
                   delivered>>

\* The three stores of compute_shared_key, in program order.
KeyStores == <<"pointer", "contents", "flag">>

\* Variant: a shared key that is zero is taken.
HandleKeyUnchecked ==
    /\ colPc = "handle" /\ ~sendKeyComplete /\ colMsg.kind = "key"
    /\ colPc' = "publish" /\ pending' = KeyStores
    /\ UNCHANGED <<mainPc, sndPc, flagVars, sendKeyComplete, key, bbRound,
                   appVars, wireVars, sndFrame, colMsg, srvVars, toClient,
                   delivered>>

\* compute_shared_key: nothing when A or K is zero.
HandleKey ==
    /\ colPc = "handle" /\ ~sendKeyComplete /\ colMsg.kind = "key"
    /\ \/ colMsg.ok /\ colPc' = "publish" /\ pending' = KeyStores
       \/ ~colMsg.ok /\ colPc' = "loop" /\ UNCHANGED pending
    /\ UNCHANGED <<mainPc, sndPc, flagVars, sendKeyComplete, key, bbRound,
                   appVars, wireVars, sndFrame, colMsg, srvVars, toClient,
                   delivered>>

\* trade_key ignores the rest before the key; after it, process_message gives
\* the controller everything, unless the session is closed.
HandleOther ==
    /\ colPc = "handle"
    /\ sendKeyComplete \/ colMsg.kind = "enc"
    /\ colPc' = "loop"
    /\ delivered' = IF sendKeyComplete /\ ~isClosed /\ service
                       /\ colMsg.kind = "enc"
                    THEN Append(delivered, colMsg.n) ELSE delivered
    /\ UNCHANGED <<mainPc, sndPc, flagVars, keyVars, appVars, wireVars,
                   sndFrame, colMsg, srvVars, toClient>>

\* B goes out on this thread, past the queue; a failure is ignored.
SendB ==
    /\ \/ /\ colPc = "bHead" /\ SendOk(BFrame(bbRound), "head")
          /\ colPc' = "bTail"
       \/ /\ colPc = "bTail" /\ SendOk(BFrame(bbRound), "tail")
          /\ colPc' = "loop"
       \/ /\ colPc \in {"bHead", "bTail"} /\ SendFails
          /\ colPc' = "loop"
    /\ sendKeyComplete' = IF colPc' = "loop" THEN FALSE ELSE sendKeyComplete
    /\ UNCHANGED <<mainPc, sndPc, flagVars, key, pending, bbRound, appVars,
                   sndFrame, colMsg, srvVars, toClient, delivered>>

\* One store of compute_shared_key becomes visible to the sender.
PublishStore ==
    /\ colPc = "publish" /\ pending # << >>
    /\ \E i \in DOMAIN pending :
          /\ StoreOrder = "program" => i = 1
          /\ LET left == {pending[j] : j \in DOMAIN pending \ {i}} IN
             /\ pending' = [j \in 1 .. Len(pending) - 1 |->
                               pending[IF j < i THEN j ELSE j + 1]]
             /\ sendKeyComplete' = ("flag" \notin left)
             /\ key' = IF "pointer" \in left THEN key
                       ELSE IF "contents" \in left THEN Unfilled
                       ELSE <<bbRound, colMsg.n>>
    /\ colPc' = IF Len(pending) = 1 THEN "loop" ELSE "publish"
    /\ UNCHANGED <<mainPc, sndPc, flagVars, bbRound, appVars, wireVars,
                   sndFrame, colMsg, srvVars, toClient, delivered>>

\* session_close_message: only the first call goes on to clean_network ...
SessionCloseMessage ==
    /\ colPc = "closing"
    /\ isClosed' = TRUE
    /\ colPc' = IF isClosed THEN "done" ELSE "clean"
    /\ UNCHANGED <<connected, socket, service>>

\* ... which makes its stores to the session one at a time.
CleanNetwork ==
    \/ /\ colPc = "clean"
       /\ connected' = FALSE
       /\ colPc' = IF socket # "none" THEN "close" ELSE "detach"
       /\ UNCHANGED <<isClosed, socket, service>>
    \/ /\ colPc = "close" /\ socket' = "stale" /\ colPc' = "forget"
       /\ UNCHANGED <<isClosed, connected, service>>
    \/ /\ colPc = "forget" /\ socket' = "none" /\ colPc' = "detach"
       /\ UNCHANGED <<isClosed, connected, service>>
    \/ /\ colPc = "detach" /\ service' = FALSE /\ colPc' = "done"
       /\ UNCHANGED <<isClosed, connected, socket>>

CollectorClose ==
    /\ SessionCloseMessage \/ CleanNetwork
    /\ UNCHANGED <<mainPc, sndPc, sndRunning, colRunning, keyVars, appVars,
                   wireVars, sndFrame, colMsg, srvVars, toClient, delivered>>

CollectorNext ==
    \/ CollectorRecv \/ CollectorStop
    \/ HandleParams \/ HandleKey \/ HandleOther
    \/ SendB \/ PublishStore \/ CollectorClose

(***************************************************************************)
(* The server (external): answers a whole GET_SESSION_ID with parameters,  *)
(* a whole B with its A, may then offer new parameters when the key came   *)
(* out as zero or B does not suit it, and pushes messages once keyed.      *)
(***************************************************************************)
SrvOffer ==
    /\ srvUp /\ srvRound < MaxRounds
    /\ \/ srv = "idle" /\ Whole(IdFrame)
       \/ srv = "offered" /\ Whole(BFrame(srvRound))
       \/ srv = "rejected"
    /\ \E k \in ParamKinds :
          toClient' = Append(toClient, Offer(srvRound + 1, k))
    /\ srvRound' = srvRound + 1 /\ srv' = "offered"
    /\ UNCHANGED <<mainPc, colPc, sndPc, flagVars, keyVars, appVars, wireVars,
                   sndFrame, colMsg, srvUp, pushes, delivered>>

SrvAnswer ==
    /\ srvUp /\ srv = "offered" /\ Whole(BFrame(srvRound))
    /\ \E ok \in IF ParamKinds = {"sound"} THEN {TRUE} ELSE BOOLEAN :
          /\ toClient' = Append(toClient, PublicA(srvRound, ok))
          /\ srv' = IF ok THEN "keyed" ELSE "rejected"
    /\ UNCHANGED <<mainPc, colPc, sndPc, flagVars, keyVars, appVars, wireVars,
                   sndFrame, colMsg, srvUp, srvRound, pushes, delivered>>

SrvPush ==
    /\ srvUp /\ srv = "keyed" /\ pushes < MaxPushes
    /\ pushes' = pushes + 1
    /\ toClient' = Append(toClient, Push(pushes + 1))
    /\ UNCHANGED <<mainPc, colPc, sndPc, flagVars, keyVars, appVars, wireVars,
                   sndFrame, colMsg, srvUp, srv, srvRound, delivered>>

\* The server closes the connection, or the network fails for good.
SrvLeave ==
    /\ srvUp
    /\ srvUp' = FALSE
    /\ UNCHANGED <<mainPc, colPc, sndPc, flagVars, keyVars, appVars, wireVars,
                   sndFrame, colMsg, srv, srvRound, pushes, toClient,
                   delivered>>

\* The process is over: nothing happens any more.
Terminated == ~Alive /\ UNCHANGED vars

MainNext ==
    \/ ConnectOk \/ ConnectFails \/ SendId \/ CheckConnected
    \/ SendCheck \/ SendAdd \/ Destroy

UserNext ==
    \/ \E via \in {"user", "service"} : UiRequest(via)
    \/ UiNullService
    \/ ForceExit

ServerHandshake == SrvOffer \/ SrvAnswer
ServerNext == ServerHandshake \/ SrvPush \/ SrvLeave

Next ==
    \/ Alive /\ MainNext
    \/ Alive /\ UserNext
    \/ Alive /\ SenderNext
    \/ Alive /\ CollectorNext
    \/ Alive /\ ServerNext
    \/ Terminated

Spec == Init /\ [][Next]_vars

\* Each thread is scheduled; the user and the server need do nothing.
FairSpec ==
    /\ Spec
    /\ WF_vars(Alive /\ MainNext)
    /\ WF_vars(Alive /\ SenderNext)
    /\ WF_vars(Alive /\ CollectorNext)
    /\ WF_vars(Alive /\ ServerHandshake)
=============================================================================
