----------------------- MODULE MessageBufferProperties -----------------------
(***************************************************************************)
(* What a Message must do, stated over MessageBuffer, and the instance TLC *)
(* checks.                                                                 *)
(***************************************************************************)
EXTENDS MessageBuffer

\* Every variable holds a value of its type.
TypeOK ==
    /\ mode \in {"idle", "writing", "growing", "copying", "sent", "dropped",
                 "reading", "given up", "handed on"}
    /\ cells \in Seq(Byte) /\ position \in Nat /\ newSize \in Nat
    /\ meant \in Seq(Fields) /\ todo \in Seq(Seq(Byte))
    /\ failed \in BOOLEAN /\ failures \in 0 .. MaxFailures
    /\ cipher.plain \in Seq(Byte) /\ cipher.len \in Nat
    /\ handler \in Handlers
    /\ \A i \in DOMAIN got : got[i].ok \in BOOLEAN /\ got[i].pos \in Nat

\* No write leaves the buffer, however often it has had to grow first: when
\* memcpy runs there is room for all it copies (message.c:62-116).
CopyFits == mode = "copying" => Required <= Len(cells)

\* What is read is what was written, field by field, up to the first read that
\* fails, and one fails only if its string is longer than the handler's buffer
\* or there was no memory for it (message.c:139-205, 333-506, 529-569).  A
\* string exactly as long as the buffer is left out: message_read_string
\* accepts it (message.c:193), and its final zero has no place (message.c:203).
Fits(f) == f.type = "string" => Len(f.value) <= StringCap
NoRoomForZero(f) == f.type = "string" /\ Len(f.value) = StringCap
MayFail(f) == ~Fits(f) \/ (f.type = "utf" /\ failures > 0)
ReadsBack ==
    ~failed =>
        \A i \in DOMAIN got \cap DOMAIN meant :
            (/\ \A j \in 1 .. i : ~NoRoomForZero(meant[j])
             /\ \A j \in 1 .. i - 1 : got[j].ok) =>
                IF got[i].ok THEN Fits(meant[i]) /\ got[i].value = meant[i].value
                ELSE MayFail(meant[i])

\* A handler that returns on a failed read, such as receive_user_message
\* (controller.c:935-944), passes a message on whole or not at all.  One that
\* only warns, such as get_chat_connected (controller.c:532-546), passes on
\* something else only after it was told of a failed read.
HandedOnWhole ==
    (mode = "handed on" /\ ~failed /\ \A i \in DOMAIN meant : ~NoRoomForZero(meant[i])) =>
        \/ \A i \in DOMAIN meant : got[i].value = meant[i].value
        \/ ~handler.strict /\ \E i \in DOMAIN meant : ~got[i].ok
-----------------------------------------------------------------------------
(***************************************************************************)
(* The instance: numbers whose bytes differ, strings that are empty, fit,  *)
(* fill the handler's buffer and do not fit.                               *)
(***************************************************************************)
MCFields ==
    [type : {"bool"}, value : {1}] \cup [type : {"short"}, value : {5}]
        \cup [type : {"int"}, value : {7, 80}] \cup [type : {"long"}, value : {5 * 81 + 7}]
        \cup [type : {"string"}, value : {<< >>, <<1>>, <<2, 1>>, <<1, 2, 2>>}]
        \cup [type : {"utf"}, value : {<< >>, <<2, 1>>, [i \in 1 .. 9 |-> 1]}]
=============================================================================
