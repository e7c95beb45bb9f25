---------------------------- MODULE MessageBuffer ----------------------------
(***************************************************************************)
(* The life of a Message (src/network/message.c): its typed writes into a  *)
(* growing buffer, its encryption, and on the other side its decryption    *)
(* and the typed reads of a controller's handler.  Writer and reader agree *)
(* on the types, so what one wrote is what the other expects; the server   *)
(* is assumed to write its messages in the same format.                    *)
(*                                                                         *)
(* Memory is a sequence of bytes of base Base (256 in the program; widths  *)
(* are the program's).  Memory from malloc holds some byte of Junk, the    *)
(* same one throughout.  A float or a double is written and read as the    *)
(* int or long of its bits.                                                *)
(* An operator whose comment begins "Variant" is the next definition with  *)
(* a plausible defect, used only to show which property notices it.        *)
(***************************************************************************)
EXTENDS Integers, Sequences, SequencesExt

CONSTANTS
    Base,          \* values of a byte
    InitialSize,   \* INITIAL_BUFFER_SIZE
    Block,         \* the cipher's block length, 16
    StringCap,     \* buffer_size of the handlers' calls of message_read_string
    Fields,        \* what may be written
    Junk,          \* bytes that memory from malloc may hold
    MaxFields,     \* bound: fields of a message
    MaxFailures    \* bound: allocations that fail

Byte == 0 .. Base - 1
Numbers == [type : {"bool", "byte", "short", "int", "long"}, value : Nat]
Strings == [type : {"string", "utf"}, value : Seq(Byte \ {0})]

ASSUME MessageAssumption ==
    /\ Base \in Nat /\ Base > 1
    /\ InitialSize \in Nat \ {0} /\ Block \in Nat \ {0} /\ StringCap \in Nat \ {0}
    /\ Fields \subseteq Numbers \cup Strings
    /\ Junk \subseteq Byte /\ Junk # {}
    /\ MaxFields \in Nat /\ MaxFailures \in Nat

VARIABLES
    mode,        \* what the message's holder is doing
    cells,       \* msg->buffer; its length is msg->size
    position,    \* msg->position
    meant,       \* the fields the writer has asked to write
    todo,        \* the calls of message_write its current field still needs
    newSize,     \* new_size of message_ensure_capacity
    failed,      \* has a write returned false?  No caller looks.
    failures,    \* allocations that have failed
    cipher,      \* the message encrypted: its plain text and its length
    handler,     \* how the reading handler goes about it
    got          \* the results of its reads

vars == <<mode, cells, position, meant, todo, newSize, failed, failures,
          cipher, handler, got>>

\* A handler that is strict returns when a string cannot be read, another
\* only warns; some expect a further field, such as read_error_message.
Handlers == [strict : BOOLEAN, extra : {"none", "bool", "int", "string"}]
NoHandler == [strict |-> FALSE, extra |-> "none"]
NoCipher == [plain |-> << >>, len |-> 0]

Fresh(n) == {[i \in 1 .. n |-> b] : b \in Junk}

\* message_create.
Init ==
    /\ mode = "idle" /\ cells \in Fresh(InitialSize) /\ position = 0
    /\ meant = << >> /\ todo = << >> /\ newSize = 0
    /\ failed = FALSE /\ failures = 0
    /\ cipher = NoCipher /\ handler = NoHandler /\ got = << >>

(***************************************************************************)
(* Numbers as bytes: the typed writes use network order, the length of a   *)
(* string is written in the order of the host, the lowest byte first.      *)
(***************************************************************************)

Power[n \in Nat] == IF n = 0 THEN 1 ELSE Base * Power[n - 1]

\* Variant: a byte takes the higher ones along.
LittleEndianUncut(v, w) == [i \in 1 .. w |-> v \div Power[i - 1]]

LittleEndian(v, w) == [i \in 1 .. w |-> (v \div Power[i - 1]) % Base]
BigEndian(v, w) == Reverse(LittleEndian(v, w))
FromBig(b) ==
    LET upTo[n \in 0 .. Len(b)] == IF n = 0 THEN 0 ELSE upTo[n - 1] * Base + b[n]
    IN  upTo[Len(b)]
FromLittle(b) == FromBig(Reverse(b))
High(v) == v \div Power[4]
Low(v) == v % Power[4]
WidthOf(type) == CASE type \in {"bool", "byte"} -> 1
                   [] type = "short" -> 2
                   [] type = "int" -> 4
                   [] type = "long" -> 8

\* What C's types and the length of a string (a size_t) can hold.
ASSUME FieldAssumption ==
    \A f \in Fields :
        /\ f \in Numbers => f.value < Power[WidthOf(f.type)]
        /\ f.type = "bool" => f.value \in {0, 1}
        /\ f \in Strings => Len(f.value) < Power[8]

\* The calls of message_write that make up a typed write: of a number, of the
\* two halves of a long, ...
NumberParts(v, w) == <<BigEndian(v, w)>>

LongParts(v) == NumberParts(High(v), 4) \o NumberParts(Low(v), 4)

\* ... and of a string: an empty one has no bytes to write after its length.
Bytes(str) == IF str = << >> THEN << >> ELSE <<str>>
StringParts(str) == <<LittleEndian(Len(str), 8)>> \o Bytes(str)
UtfParts(str) == NumberParts(Len(str), 2) \o Bytes(str)

Parts(f) ==
    CASE f.type \in {"bool", "byte", "short", "int"} -> NumberParts(f.value, WidthOf(f.type))
      [] f.type = "long" -> LongParts(f.value)
      [] f.type = "string" -> StringParts(f.value)
      [] f.type = "utf" -> UtfParts(f.value)

(***************************************************************************)
(* Writing.                                                                *)
(***************************************************************************)
readerVars == <<cipher, handler, got>>

\* message_write_utf has two bytes for the length and refuses a longer string.
TooLong(f) == f.type = "utf" /\ Len(f.value) >= Power[2]

\* A typed write begins.
Write(f) ==
    /\ mode = "idle" /\ Len(meant) < MaxFields
    /\ meant' = Append(meant, f)
    /\ IF TooLong(f) THEN failed' = TRUE /\ UNCHANGED <<todo, mode>>
       ELSE todo' = Parts(f) /\ mode' = "writing" /\ UNCHANGED failed
    /\ UNCHANGED <<cells, position, newSize, failures, readerVars>>

Required == position + Len(Head(todo))

\* message_ensure_capacity: there is room, or new_size must be found.
EnsureCapacity ==
    /\ mode = "writing"
    /\ IF Required > Len(cells)
       THEN mode' = "growing" /\ newSize' = Len(cells)
       ELSE mode' = "copying" /\ UNCHANGED newSize
    /\ UNCHANGED <<cells, position, meant, todo, failed, failures, readerVars>>

\* One turn of the loop that doubles new_size.
Double ==
    /\ mode = "growing" /\ newSize < Required
    /\ newSize' = 2 * newSize
    /\ UNCHANGED <<mode, cells, position, meant, todo, failed, failures, readerVars>>

\* Variant: the loop is left after the first doubling.
ReallocOnce ==
    /\ mode = "growing" /\ newSize > Len(cells)
    /\ \E f \in Fresh(newSize - Len(cells)) : cells' = cells \o f
    /\ mode' = "copying"
    /\ UNCHANGED <<position, meant, todo, newSize, failed, failures, readerVars>>

\* realloc keeps the bytes it had.
Realloc ==
    /\ mode = "growing" /\ newSize >= Required
    /\ \E f \in Fresh(newSize - Len(cells)) : cells' = cells \o f
    /\ mode' = "copying"
    /\ UNCHANGED <<position, meant, todo, newSize, failed, failures, readerVars>>

\* realloc fails: the write returns false, and what an earlier call of the
\* same typed write put into the buffer stays there.
ReallocFails ==
    /\ mode = "growing" /\ newSize >= Required
    /\ failures < MaxFailures /\ failures' = failures + 1
    /\ failed' = TRUE /\ todo' = << >> /\ mode' = "idle"
    /\ UNCHANGED <<cells, position, meant, newSize, readerVars>>

\* memcpy, and position moves on; the typed write goes to its next call.
Copy ==
    /\ mode = "copying"
    /\ LET part == Head(todo) IN
       /\ cells' = [i \in 1 .. Len(cells) |->
                       IF i \in position + 1 .. position + Len(part)
                       THEN part[i - position] ELSE cells[i]]
       /\ position' = position + Len(part)
    /\ todo' = Tail(todo)
    /\ mode' = IF todo' = << >> THEN "idle" ELSE "writing"
    /\ UNCHANGED <<meant, newSize, failed, failures, readerVars>>

(***************************************************************************)
(* Encryption and decryption.                                              *)
(***************************************************************************)
CipherLength(n) == (n \div Block + 1) * Block

\* message_encrypt as do_send_message calls it: a message without contents,
\* or for which there is no memory, is not sent.
Encrypt ==
    /\ mode = "idle"
    /\ mode' = IF position = 0 THEN "dropped" ELSE "sent"
    /\ cipher' = [plain |-> SubSeq(cells, 1, position),
                  len |-> CipherLength(position)]
    /\ UNCHANGED <<cells, position, meant, todo, newSize, failed, failures,
                   handler, got>>

EncryptFails ==
    /\ mode = "idle"
    /\ failures < MaxFailures /\ failures' = failures + 1
    /\ mode' = "dropped"
    /\ UNCHANGED <<cells, position, meant, todo, newSize, failed, readerVars>>

\* message_decrypt as session_read_message calls it: the size of the buffer
\* is the length of the cipher text, longer than what is decrypted.  The
\* handler reads from position 0.
Decrypt ==
    /\ mode = "sent"
    /\ mode' = "reading" /\ position' = 0
    /\ \E f \in Fresh(cipher.len - Len(cipher.plain)) : cells' = cipher.plain \o f
    /\ handler' \in Handlers
    /\ UNCHANGED <<meant, todo, newSize, failed, failures, cipher, got>>

\* No memory for the plain text: session_read_message drops the message.
DecryptFails ==
    /\ mode = "sent"
    /\ failures < MaxFailures /\ failures' = failures + 1
    /\ mode' = "dropped"
    /\ UNCHANGED <<cells, position, meant, todo, newSize, failed, readerVars>>

(***************************************************************************)
(* Reading.  Each operator gives the result of a read at pos: was it all   *)
(* right as far as the handler is told, the value, where position is then, *)
(* and how many bytes of the handler's own buffer were written.            *)
(***************************************************************************)
Result(ok, value, pos, top) == [ok |-> ok, value |-> value, pos |-> pos, top |-> top]

\* message_read.
HasBytes(pos, n) == n # 0 /\ pos + n <= Len(cells)
BytesAt(pos, n) == SubSeq(cells, pos + 1, pos + n)

\* The reads of numbers: 0 if there are not enough bytes left.
ReadNumber(pos, w) ==
    IF HasBytes(pos, w) THEN Result(TRUE, FromBig(BytesAt(pos, w)), pos + w, w)
    ELSE Result(TRUE, 0, pos, 0)

ReadBool(pos) ==
    LET r == ReadNumber(pos, 1)
    IN  [r EXCEPT !.value = IF @ # 0 THEN 1 ELSE 0]

ReadLong(pos) ==
    LET high == ReadNumber(pos, 4)
        low == ReadNumber(high.pos, 4)
    IN  Result(TRUE, high.value * Power[4] + low.value, low.pos, 8)

\* Variant: the position is left behind a string that is too long.
ReadStringCut(pos) ==
    LET length == FromLittle(BytesAt(pos, 8))
        kept == IF length > StringCap THEN StringCap ELSE length
    IN  IF ~HasBytes(pos, 8) THEN Result(FALSE, << >>, pos, 0)
        ELSE IF kept > 0 /\ ~HasBytes(pos + 8, kept)
             THEN Result(FALSE, << >>, pos + 8, 0)
        ELSE Result(TRUE, BytesAt(pos + 8, kept), pos + 8 + kept, kept + 1)

\* message_read_string: its length, then its bytes into the handler's buffer,
\* and a final zero.
ReadString(pos) ==
    LET length == FromLittle(BytesAt(pos, 8))
    IN  IF ~HasBytes(pos, 8) THEN Result(FALSE, << >>, pos, 0)
        ELSE IF length > StringCap \/ (length > 0 /\ ~HasBytes(pos + 8, length))
             THEN Result(FALSE, << >>, pos + 8, 0)
        ELSE Result(TRUE, BytesAt(pos + 8, length), pos + 8 + length, length + 1)

\* message_read_utf when there is memory for the string.
ReadUtf(pos) ==
    LET r == ReadNumber(pos, 2)
    IN  IF r.value = 0 THEN Result(TRUE, << >>, r.pos, 0)
        ELSE IF ~HasBytes(r.pos, r.value) THEN Result(FALSE, << >>, r.pos, 0)
        ELSE Result(TRUE, BytesAt(r.pos, r.value), r.pos + r.value, 0)

Read(type, pos) ==
    CASE type = "bool" -> ReadBool(pos)
      [] type \in {"byte", "short", "int"} -> ReadNumber(pos, WidthOf(type))
      [] type = "long" -> ReadLong(pos)
      [] type = "string" -> ReadString(pos)
      [] type = "utf" -> ReadUtf(pos)

\* The types the handler reads, in order.
Expected ==
    [i \in DOMAIN meant |-> meant[i].type]
        \o IF handler.extra = "none" THEN << >> ELSE <<handler.extra>>

\* Variant: a strict handler goes on as well.
ReadNextLenient ==
    /\ mode = "reading" /\ Len(got) < Len(Expected)
    /\ LET r == Read(Expected[Len(got) + 1], position) IN
       /\ got' = Append(got, r)
       /\ position' = r.pos
    /\ UNCHANGED <<mode, cells, meant, todo, newSize, failed, failures, cipher, handler>>

\* The handler's next read; a strict one returns if it is told it failed.
ReadNext ==
    /\ mode = "reading" /\ Len(got) < Len(Expected)
    /\ LET r == Read(Expected[Len(got) + 1], position) IN
       /\ got' = Append(got, r)
       /\ position' = r.pos
       /\ mode' = IF handler.strict /\ ~r.ok THEN "given up" ELSE "reading"
    /\ UNCHANGED <<cells, meant, todo, newSize, failed, failures, cipher, handler>>

\* message_read_utf finds no memory for the string, an empty one included:
\* its length has been read, its bytes have not, and the handler gets NULL.
ReadUtfFails ==
    /\ mode = "reading" /\ Len(got) < Len(Expected) /\ Expected[Len(got) + 1] = "utf"
    /\ failures < MaxFailures /\ failures' = failures + 1
    /\ LET length == ReadNumber(position, 2) IN
       /\ length.value = 0 \/ HasBytes(length.pos, length.value)
       /\ got' = Append(got, Result(FALSE, << >>, length.pos, 0))
       /\ position' = length.pos
    /\ mode' = IF handler.strict THEN "given up" ELSE "reading"
    /\ UNCHANGED <<cells, meant, todo, newSize, failed, cipher, handler>>

\* The handler passes on what it has read.
HandOn ==
    /\ mode = "reading" /\ Len(got) = Len(Expected)
    /\ mode' = "handed on"
    /\ UNCHANGED <<cells, position, meant, todo, newSize, failed, failures,
                   cipher, handler, got>>

Next ==
    \/ \E f \in Fields : Write(f)
    \/ EnsureCapacity \/ Double \/ Realloc \/ ReallocFails \/ Copy
    \/ Encrypt \/ EncryptFails \/ Decrypt \/ DecryptFails
    \/ ReadNext \/ ReadUtfFails \/ HandOn

Spec == Init /\ [][Next]_vars
=============================================================================
