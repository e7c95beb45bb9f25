------------------------------ MODULE FifoQueue ------------------------------
(***************************************************************************)
(* What the queue of outgoing messages promises: what was added comes out  *)
(* once and in the order it went in.                                       *)
(***************************************************************************)
EXTENDS Sequences

CONSTANT Message

VARIABLES
    contents,   \* the messages in the queue, oldest first
    taken       \* the messages removed so far, in order

fvars == <<contents, taken>>

Init == contents = << >> /\ taken = << >>

Add(m) ==
    /\ contents' = Append(contents, m)
    /\ UNCHANGED taken

Remove ==
    /\ contents # << >>
    /\ taken' = Append(taken, Head(contents))
    /\ contents' = Tail(contents)

Next == (\E m \in Message : Add(m)) \/ Remove

Spec == Init /\ [][Next]_fvars
=============================================================================
