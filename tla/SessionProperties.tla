-------------------------- MODULE SessionProperties --------------------------
(***************************************************************************)
(* What the connection must guarantee, stated over Session.                *)
(***************************************************************************)
EXTENDS Session

InHand == IF sndFrame = NoFrame THEN << >> ELSE <<sndFrame.n>>

\* The agreed key, once the server has answered.
ServerKey == <<srvRound, srvRound>>

\* The requests whose frame left whole and under the agreed key, in order.
SentWhole(p) == /\ p.part = "tail" /\ p.frame.kind = "enc"
                /\ p.frame.key = ServerKey
SentPlaces == {i \in DOMAIN wire : SentWhole(wire[i])}
\* The k-th smallest of a finite set of numbers.
Nth(S, k) == CHOOSE i \in S : Cardinality({j \in S : j <= i}) = k
Transmitted ==
    [k \in 1 .. Cardinality(SentPlaces) |-> wire[Nth(SentPlaces, k)].frame.n]

\* Every variable holds a value of its type.
TypeOK ==
    /\ mainPc \in MainPcs /\ colPc \in ColPcs /\ sndPc \in SndPcs
    /\ connected \in BOOLEAN /\ service \in BOOLEAN
    /\ socket \in {"none", "open", "stale"} /\ isClosed \in BOOLEAN
    /\ sndRunning \in BOOLEAN /\ colRunning \in BOOLEAN
    /\ sendKeyComplete \in BOOLEAN /\ key \in Keys
    /\ pending \in Seq({"pointer", "contents", "flag"}) /\ bbRound \in Nat
    /\ queue \in Seq(Nat) /\ accepted \in Seq(Nat)
    /\ request \in Nat /\ nreq \in 0 .. MaxRequests /\ starved \in BOOLEAN
    /\ sndFrame \in Frames /\ colMsg \in ServerMsgs
    /\ wire \in Seq(Pieces) /\ broken \in BOOLEAN
    /\ srvUp \in BOOLEAN /\ srv \in {"idle", "offered", "rejected", "keyed"}
    /\ srvRound \in 0 .. MaxRounds /\ pushes \in 0 .. MaxPushes
    /\ toClient \in Seq(ServerMsgs) /\ delivered \in Seq(Nat)

\* Three threads write frames to one socket and no lock is held across the
\* send() calls of a frame (session.c:772-855).  The pieces of two frames are
\* never interleaved all the same: on the wire every tail follows the head of
\* its own frame, and only the last head may lack its tail.
WireFramesWhole ==
    \A i \in DOMAIN wire :
        IF wire[i].part = "tail"
        THEN i > 1 /\ wire[i - 1] = [frame |-> wire[i].frame, part |-> "head"]
        ELSE i = Len(wire) \/ wire[i + 1].part = "tail"

\* Once the client considers the exchange complete (session.c:464) its key is
\* derived from the same two secrets as the server's.
KeyAgreement == sendKeyComplete => srv = "keyed" /\ key = ServerKey

\* No request was ever sent under another key than the agreed one: not the
\* test key of session.c:736, not one whose bytes are not there yet.
RequestsUnderAgreedKey ==
    \A i \in DOMAIN wire :
        wire[i].frame.kind = "enc" => wire[i].frame.key = ServerKey

\* The requests that went out under the agreed key, the one in the sender's
\* hands and those in the queue.
Line == (Transmitted \o InHand) \o queue

Increasing(s) == \A i, j \in DOMAIN s : i < j => s[i] < s[j]
Among(s, t) == \A i \in DOMAIN s : \E j \in DOMAIN t : t[j] = s[i]

\* A request goes out at most once and none overtakes another, whatever fails
\* on the way: requests are numbered as they are made, and those that were
\* sent, the one in hand and the queue are in the order of their numbers, each
\* one handed over by the user interface (session.c:312-326, 541-570).
AcceptedInOrder == Increasing(Line) /\ Among(Line, accepted)

\* A request is dropped without a word when its queue cannot grow
\* (session.c:885-890), when there are no random bytes or no memory to encrypt
\* it, or when a send fails (session.c:808-820, 559-560), and for no other
\* reason: as long as none of that has happened, all are still there.
NoneLostWhileWorking ==
    (socket = "open" /\ ~broken /\ ~starved) => accepted = Line

\* The key never changes and is never withdrawn once requests may be
\* encrypted with it (session.c:396-399, 442, 727-737).
KeyNeverChanges ==
    [][sendKeyComplete => sendKeyComplete' /\ key' = key]_vars

\* The client gives up connecting only when no server is there to connect to
\* (main.c:25-46, session.c:278-287).
ConnectsToListeningServer ==
    (mainPc = "destroy" /\ colPc = "off") => ~srvUp

\* The session is a SecureChannel.
Channel == INSTANCE SecureChannel WITH
    phase <- IF sndPc = "off" THEN "down"
             ELSE IF socket # "open" THEN "closed"
             ELSE IF sendKeyComplete THEN "keyed"
             ELSE "open",
    lossy <- starved,
    transmitted <- Transmitted

ImplementsChannel == Channel!Spec

\* With sound parameters and a server that answers, the key exchange ends with
\* a key unless the connection is lost or the user leaves (session.c:388-465).
HandshakeEnds ==
    (mainPc = "gtk" /\ Whole(IdFrame))
        ~> (sendKeyComplete \/ ~srvUp \/ ~Alive)

\* A queued request leaves the queue unless the connection is lost or the
\* user exits (session.c:541-570).
Queued(m) == \E i \in DOMAIN queue : queue[i] = m
QueueDrains ==
    \A m \in Requests :
        (sendKeyComplete /\ Queued(m)) ~> (~Queued(m) \/ ~srvUp \/ ~Alive)

\* When the server is gone the collector notices, whatever it was doing, and
\* detaches the session (session.c:572-604, 515-539).
LossIsNoticed == (~srvUp /\ colPc # "off") ~> (~service \/ ~Alive)

\* destroySession ends when there are threads to join: neither of them keeps it
\* waiting for ever (session.c:183-197).  When connecting failed there are none.
DestroyEnds == (mainPc = "destroy" /\ colPc # "off") ~> mainPc = "exited"
=============================================================================
