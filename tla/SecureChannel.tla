---------------------------- MODULE SecureChannel ----------------------------
(***************************************************************************)
(* What the network layer promises the user interface: requests that were  *)
(* accepted go to the server at most once, in order, and only after a key  *)
(* has been agreed, all of them until the channel is short of memory; the  *)
(* server's messages are delivered in order, and only while the channel is *)
(* keyed; a channel never reopens.                                         *)
(***************************************************************************)
EXTENDS Naturals, Sequences

CONSTANT Requests   \* the requests the user interface may hand over

VARIABLES
    phase,        \* "down", "open", "keyed" or "closed"
    lossy,        \* has there been a request without memory to carry it?
    accepted,     \* the requests the user interface handed over, in order
    transmitted,  \* those whose whole frame was sent under the agreed key
    delivered     \* the server's messages that reached the controller, by number

cvars == <<phase, lossy, accepted, transmitted, delivered>>

Init ==
    /\ phase = "down"
    /\ lossy = FALSE
    /\ accepted = << >>
    /\ transmitted = << >>
    /\ delivered = << >>

Open ==
    /\ phase = "down"
    /\ phase' = "open"
    /\ UNCHANGED <<lossy, accepted, transmitted, delivered>>

AgreeKey ==
    /\ phase = "open"
    /\ phase' = "keyed"
    /\ UNCHANGED <<lossy, accepted, transmitted, delivered>>

\* A request may be accepted at any time after the connection was opened:
\* nothing promises that one accepted late, or without memory for it, is ever
\* transmitted.
Accept(m) ==
    /\ phase # "down"
    /\ m \notin {accepted[i] : i \in DOMAIN accepted}
    /\ accepted' = Append(accepted, m)
    /\ lossy' \in {lossy, TRUE}
    /\ UNCHANGED <<phase, transmitted, delivered>>

\* An accepted request is given up for want of memory.
GiveUp ==
    /\ phase # "down"
    /\ lossy' = TRUE
    /\ UNCHANGED <<phase, accepted, transmitted, delivered>>

\* The next request: none accepted later has gone before it, and none is left
\* out while the channel is not lossy.
Transmit ==
    /\ phase = "keyed"
    /\ \E i \in DOMAIN accepted :
          /\ \A j \in i .. Len(accepted) : \A k \in DOMAIN transmitted :
                transmitted[k] # accepted[j]
          /\ ~lossy => i = Len(transmitted) + 1
          /\ transmitted' = Append(transmitted, accepted[i])
    /\ UNCHANGED <<phase, lossy, accepted, delivered>>

Deliver ==
    /\ phase = "keyed"
    /\ delivered' = Append(delivered, Len(delivered) + 1)
    /\ UNCHANGED <<phase, lossy, accepted, transmitted>>

Close ==
    /\ phase \in {"open", "keyed"}
    /\ phase' = "closed"
    /\ UNCHANGED <<lossy, accepted, transmitted, delivered>>

Next ==
    \/ Open
    \/ AgreeKey
    \/ \E m \in Requests : Accept(m)
    \/ GiveUp
    \/ Transmit
    \/ Deliver
    \/ Close

Spec == Init /\ [][Next]_cvars
=============================================================================
