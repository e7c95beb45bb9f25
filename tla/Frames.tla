------------------------------- MODULE Frames -------------------------------
(***************************************************************************)
(* A message as bytes on the connection: do_send_message puts a frame onto *)
(* it piece by piece, session_read_message takes it off with recv(), which *)
(* returns as many bytes as happen to have arrived.  Both are in           *)
(* src/network/session.c.  The module joins the two ends: each end of the  *)
(* program faces a server that is assumed to do as its other end does.     *)
(*                                                                         *)
(* A byte is known by the frame, the field and the place it was sent in.   *)
(* A header field of which recv() returned only a part leaves the reader   *)
(* out of step ("derailed"): the rest of the variable is what the stack    *)
(* held, and what is read from then on may mean anything.                  *)
(* An operator whose comment begins "Variant" is the next definition with  *)
(* a plausible defect, used only to show which property notices it.        *)
(***************************************************************************)
EXTENDS Integers, Sequences, FiniteSets

CONSTANTS
    MaxFrames,   \* bound: frames sent
    MaxSize      \* bound: bytes of a body (2^32 - 1 in the program)

ASSUME FramesAssumption ==
    MaxFrames \in Nat /\ MaxSize \in Nat \ {0}

Headers == {"command", "size", "iv", "original", "encrypted"}

\* Bytes of a header field; more than one is what matters (the program's are
\* 1, 4, 16, 4 and 4).
Width(field) == IF field = "command" THEN 1 ELSE 2

\* GET_SESSION_ID, TRADE_KEY and TRADE_DH_PARAMS go out in clear, and may be
\* empty; the cipher text of a message is never empty.
FrameSet == [kind : {"clear"}, size : 0 .. MaxSize]
                \cup [kind : {"encrypted"}, size : 1 .. MaxSize]

VARIABLES
    frames,     \* the frames do_send_message was called for
    pieces,     \* the calls of send() the last of them still needs
    stream,     \* bytes sent and not received
    open,       \* is the connection up?
    next,       \* what the reader receives next, or "stopped"
    command,    \* the command byte of the frame under way, as received
    size,       \* the size of its body, as received
    body,       \* the bytes received of its body
    handed,     \* what process_message was called with
    derailed    \* has a recv() returned a part of a header field?

vars == <<frames, pieces, stream, open, next, command, size, body, handed, derailed>>
sendVars == <<frames, pieces>>
readVars == <<next, command, size, body, handed, derailed>>

NoCell == [frame |-> 0, field |-> "command", at |-> 1]

Init ==
    /\ frames = << >> /\ pieces = << >> /\ stream = << >> /\ open = TRUE
    /\ next = "command" /\ command = NoCell /\ size = 0 /\ body = << >>
    /\ handed = << >> /\ derailed = FALSE

(***************************************************************************)
(* do_send_message.                                                        *)
(***************************************************************************)
Pieces(f) ==
    IF f.kind = "encrypted"
    THEN <<"command", "iv", "original", "encrypted", "body">>
    ELSE <<"command", "size">> \o IF f.size = 0 THEN << >> ELSE <<"body">>

Length(n, piece) == IF piece = "body" THEN frames[n].size ELSE Width(piece)

Cells(n, piece) ==
    [i \in 1 .. Length(n, piece) |-> [frame |-> n, field |-> piece, at |-> i]]

Begin(f) ==
    /\ pieces = << >> /\ Len(frames) < MaxFrames
    /\ frames' = Append(frames, f) /\ pieces' = Pieces(f)
    /\ UNCHANGED <<stream, open, readVars>>

\* send() on a connected socket takes the whole piece.
SendPiece ==
    /\ pieces # << >> /\ open
    /\ stream' = stream \o Cells(Len(frames), Head(pieces))
    /\ pieces' = Tail(pieces)
    /\ UNCHANGED <<frames, open, readVars>>

\* send() < 0: the rest of the frame is not sent.
SendFails ==
    /\ pieces # << >> /\ ~open
    /\ pieces' = << >>
    /\ UNCHANGED <<frames, stream, open, readVars>>

\* The connection is lost, and with it any bytes still under way.
Lose ==
    /\ open /\ open' = FALSE
    /\ \E k \in 0 .. Len(stream) : stream' = SubSeq(stream, 1, k)
    /\ UNCHANGED <<sendVars, readVars>>

(***************************************************************************)
(* session_read_message, called over and over by the collector thread.     *)
(***************************************************************************)
\* How many bytes a recv() asking for n may return.
Received(n) == IF n <= Len(stream) THEN 1 .. n ELSE 1 .. Len(stream)

Whole(field, cells) == Len(cells) = Width(field)

\* What a field of the frame the cells come from holds.  original_size is
\* received and not used.
Kinds(cells, ok) ==
    IF ok /\ cells[1].field = "command"
    THEN {frames[cells[1].frame].kind} ELSE {"clear", "encrypted"}
Sizes(cells, ok) ==
    IF ok /\ cells[1].field \in {"size", "encrypted"}
    THEN {frames[cells[1].frame].size} ELSE 0 .. MaxSize

HandOn(bytes) ==
    /\ handed' = Append(handed, [command |-> command, body |-> bytes])
    /\ next' = "command" /\ body' = << >> /\ size' = 0

\* It returned NULL: the collector closes the session.
Stop ==
    /\ next' = "stopped" /\ open' = FALSE /\ stream' = << >>
    /\ UNCHANGED <<command, size, body, handed>>

\* Variant: the part that came is not asked for again, the whole is.
RecvBodyGreedy ==
    /\ next = "body"
    /\ \E k \in Received(size) :
       LET bytes == body \o SubSeq(stream, 1, k) IN
           \/ /\ Len(bytes) < size
              /\ body' = bytes /\ stream' = SubSeq(stream, k + 1, Len(stream))
              /\ UNCHANGED <<open, next, command, size, handed>>
           \/ /\ Len(bytes) >= size
              /\ HandOn(bytes) /\ stream' = SubSeq(stream, k + 1, Len(stream))
              /\ UNCHANGED <<open, command>>
    /\ UNCHANGED <<sendVars, derailed>>

\* One recv() of a loop that ends when the whole body is there.  Bytes that
\* are no message's cipher text do not decrypt, or decrypt to nonsense.
RecvBody ==
    /\ next = "body"
    /\ \E k \in Received(size - Len(body)) :
       LET bytes == body \o SubSeq(stream, 1, k) IN
           \/ /\ Len(bytes) < size
              /\ body' = bytes /\ stream' = SubSeq(stream, k + 1, Len(stream))
              /\ UNCHANGED <<open, next, command, size, handed>>
           \/ /\ Len(bytes) = size
              /\ HandOn(bytes) /\ stream' = SubSeq(stream, k + 1, Len(stream))
              /\ UNCHANGED <<open, command>>
           \/ Len(bytes) = size /\ derailed /\ Stop
    /\ UNCHANGED <<sendVars, derailed>>

\* The command tells which fields follow.
AfterCommand(cells, ok) ==
    /\ command' = cells[1]
    /\ next' \in {IF kind = "clear" THEN "size" ELSE "iv" : kind \in Kinds(cells, ok)}
    /\ UNCHANGED <<size, body, handed>>

\* Variant: a clear message without a body is not handed on, its body waited for.
AfterSizeWaits(n) ==
    /\ size' = n /\ next' = "body" /\ UNCHANGED <<command, body, handed>>

\* The size of the body, for which memory is allocated.  A clear message
\* without a body is complete; an encrypted one does not decrypt.
AfterSize(n) ==
    \/ n > 0 /\ size' = n /\ next' = "body" /\ UNCHANGED <<command, body, handed>>
    \/ n = 0 /\ next = "size" /\ HandOn(<< >>) /\ UNCHANGED command

AfterOther ==
    /\ next' = IF next = "iv" THEN "original" ELSE "encrypted"
    /\ UNCHANGED <<command, size, body, handed>>

\* One recv() of a header field: only a result of 0 or less is noticed.
RecvHeader ==
    /\ next \in Headers
    /\ \E k \in Received(Width(next)) :
       LET cells == SubSeq(stream, 1, k)
           ok == ~derailed /\ Whole(next, cells)
       IN  /\ derailed' = ~ok
           /\ \/ /\ \/ next = "command" /\ AfterCommand(cells, ok)
                    \/ next \in {"size", "encrypted"} /\ \E n \in Sizes(cells, ok) : AfterSize(n)
                    \/ next \in {"iv", "original"} /\ AfterOther
                 /\ stream' = SubSeq(stream, k + 1, Len(stream)) /\ UNCHANGED open
              \/ derailed' /\ next \in {"size", "encrypted"} /\ Stop
    /\ UNCHANGED sendVars

\* Variant: in the middle of a body the end is not noticed.
RecvEndsHeaders ==
    /\ next \in Headers /\ ~open /\ stream = << >>
    /\ Stop
    /\ UNCHANGED <<sendVars, derailed>>

\* recv() returns 0 or less: what was received of a message is dropped.
RecvEnds ==
    /\ next # "stopped" /\ ~open /\ stream = << >>
    /\ Stop
    /\ UNCHANGED <<sendVars, derailed>>

Next ==
    \/ \E f \in FrameSet : Begin(f)
    \/ SendPiece \/ SendFails \/ Lose
    \/ RecvHeader \/ RecvBody \/ RecvEnds

Spec == Init /\ [][Next]_vars

\* The writer finishes a frame it has begun, and the collector runs.
FairSpec ==
    /\ Spec
    /\ WF_vars(SendPiece \/ SendFails)
    /\ WF_vars(RecvHeader \/ RecvBody \/ RecvEnds)
-----------------------------------------------------------------------------
\* Every variable holds a value of its type; a body stays inside the memory
\* allocated for it, whatever the size field held (session.c:652-664, 712-724).
TypeOK ==
    /\ frames \in Seq(FrameSet) /\ Len(frames) <= MaxFrames
    /\ open \in BOOLEAN /\ derailed \in BOOLEAN
    /\ next \in Headers \cup {"body", "stopped"}
    /\ size \in 0 .. MaxSize
    /\ next = "body" => Len(body) < size

\* The message of frame n, as it was given to do_send_message.
MessageOf(n) == [command |-> Cells(n, "command")[1], body |-> Cells(n, "body")]

\* However the bytes of bodies arrive and wherever the connection breaks, the
\* handlers get the messages whole and in order, none twice and no half one
\* at the end, as long as no header field came in parts.
HandedInOrder ==
    derailed \/ \A n \in DOMAIN handed : n <= Len(frames) /\ handed[n] = MessageOf(n)

\* Every frame whose last piece was sent is handed to a handler, if the
\* connection stays and no header field comes in parts.
FramesHandedOn ==
    \A n \in 1 .. MaxFrames :
        (Len(frames) >= n) ~> (Len(handed) >= n \/ ~open \/ derailed)

\* Out of step or not, the collector notices the end of the connection.
LossStopsReader == ~open ~> next = "stopped"
=============================================================================
