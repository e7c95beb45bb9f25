----------------------------- MODULE FramesProofs -----------------------------
(***************************************************************************)
(* Handlers get the messages whole and in order, for any number of frames  *)
(* and bodies of any size, however the bytes arrive and wherever the       *)
(* connection breaks, as long as no header field comes in parts.           *)
(***************************************************************************)
EXTENDS Frames, TLAPS

FieldNames == Headers \cup {"body"}
Cell == [frame : Nat, field : FieldNames, at : Nat]
CellOf(n, field, i) == [frame |-> n, field |-> field, at |-> i]

FrameTypes ==
    /\ TypeOK
    /\ pieces \in Seq(FieldNames) /\ stream \in Seq(Cell)
    /\ command \in Cell /\ body \in Seq(Cell) /\ (next \in Headers => body = << >>)
    /\ handed \in Seq([command : Cell, body : Seq(Cell)])

\* The fields of a frame, and which of them comes after another.
FieldsOf(f) ==
    IF f.kind = "clear"
    THEN {"command", "size"} \cup {field \in {"body"} : f.size > 0}
    ELSE {"command", "iv", "original", "encrypted", "body"}

After(f, field) ==
    CASE field = "command" -> IF f.kind = "clear" THEN "size" ELSE "iv"
      [] field = "size" -> IF f.size = 0 THEN "end" ELSE "body"
      [] field = "iv" -> "original"
      [] field = "original" -> "encrypted"
      [] field = "encrypted" -> "body"
      [] field = "body" -> "end"

\* The first byte of what comes after the field of a byte.
FirstAfter(c) ==
    LET field == After(frames[c.frame], c.field)
    IN  IF field = "end" THEN CellOf(c.frame + 1, "command", 1)
        ELSE CellOf(c.frame, field, 1)

InFrame(c) ==
    /\ c.frame \in 1 .. Len(frames)
    /\ c.field \in FieldsOf(frames[c.frame])
    /\ c.at \in 1 .. Length(c.frame, c.field)

\* The writer: the pieces it still has to send are the rest of its frame.
RestOfFrame ==
    pieces # << >> =>
        /\ frames # << >>
        /\ \A i \in DOMAIN pieces :
              /\ pieces[i] \in FieldsOf(frames[Len(frames)])
              /\ After(frames[Len(frames)], pieces[i])
                    = IF i = Len(pieces) THEN "end" ELSE pieces[i + 1]

WriterAt ==
    IF pieces = << >> THEN CellOf(Len(frames) + 1, "command", 1)
    ELSE CellOf(Len(frames), Head(pieces), 1)

\* The bytes under way: the bytes of a field follow one another, the first of
\* the next field the last of the one before.
Unbroken ==
    /\ \A i \in DOMAIN stream : InFrame(stream[i])
    /\ \A i, j \in DOMAIN stream :
          (i <= j /\ stream[i].at + (j - i) <= Length(stream[i].frame, stream[i].field))
             => stream[j] = CellOf(stream[i].frame, stream[i].field, stream[i].at + (j - i))
    /\ \A i \in DOMAIN stream :
          (i < Len(stream) /\ stream[i].at = Length(stream[i].frame, stream[i].field))
             => stream[i + 1] = FirstAfter(stream[i])

\* The reader: where it is in the frame after the last it handed on.
Current == Len(handed) + 1
ReaderAt == CellOf(Current, next, IF next = "body" THEN Len(body) + 1 ELSE 1)

FrameSoFar ==
    /\ next # "command" =>
          /\ Current <= Len(frames) /\ command = CellOf(Current, "command", 1)
          /\ next \in FieldsOf(frames[Current])
    /\ next = "body" => /\ size = frames[Current].size
                        /\ body = [i \in 1 .. Len(body) |-> CellOf(Current, "body", i)]

InFrameSoFar == FrameSoFar /\ (stream # << >> => stream[1] = ReaderAt)

\* While the connection is up only whole pieces are under way, and what comes
\* after them is what the writer sends next.
UpToWriter ==
    /\ \A i \in DOMAIN stream :
          i + (Length(stream[i].frame, stream[i].field) - stream[i].at) <= Len(stream)
    /\ WriterAt = IF stream = << >> THEN ReaderAt ELSE FirstAfter(stream[Len(stream)])

AllHanded == \A n \in DOMAIN handed : n <= Len(frames) /\ handed[n] = MessageOf(n)

InOrder ==
    /\ AllHanded /\ Unbroken
    /\ next = "stopped" => stream = << >> /\ ~open
    /\ next # "stopped" => InFrameSoFar /\ (open => UpToWriter)

FInv == FrameTypes /\ RestOfFrame /\ (derailed \/ InOrder)

(***************************************************************************)
(* Frames and their fields.                                                *)
(***************************************************************************)
LEMMA InitFInv == Init => FInv
<1> SUFFICES ASSUME Init PROVE FInv
  OBVIOUS
<1>1. FrameTypes
  <2>1. /\ frames = << >> /\ open = TRUE /\ derailed = FALSE
        /\ next = "command" /\ size = 0
    BY DEF Init
  <2>4. /\ frames \in Seq(FrameSet) /\ Len(frames) <= MaxFrames
        /\ size \in 0 .. MaxSize
    BY <2>1, FramesAssumption
  <2>5. /\ open \in BOOLEAN /\ derailed \in BOOLEAN
        /\ next \in Headers \cup {"body", "stopped"} /\ next # "body"
    BY <2>1 DEF Headers
  <2>2. command \in Cell
    BY DEF Init, NoCell, Cell, FieldNames, Headers
  <2>3. pieces = << >> /\ stream = << >> /\ body = << >> /\ handed = << >>
    BY DEF Init
  <2> QED BY <2>2, <2>3, <2>4, <2>5 DEF FrameTypes, TypeOK
<1>2. RestOfFrame
  BY DEF Init, RestOfFrame
<1>3. AllHanded /\ Unbroken /\ next = "command" /\ open
  BY DEF Init, AllHanded, Unbroken
<1>4. InFrameSoFar /\ UpToWriter
  BY DEF Init, InFrameSoFar, FrameSoFar, UpToWriter, WriterAt, ReaderAt, Current
<1> QED BY <1>1, <1>2, <1>3, <1>4 DEF FInv, InOrder

LEMMA NothingBehind == ASSUME NEW S, NEW s \in Seq(S) PROVE s \o << >> = s
OBVIOUS

\* What do_send_message sends of a frame, in which order.
LEMMA PiecesOfFrame ==
    ASSUME NEW f \in FrameSet
    PROVE  /\ Pieces(f) \in Seq(FieldNames) /\ Pieces(f) # << >>
           /\ Head(Pieces(f)) = "command"
           /\ \A i \in DOMAIN Pieces(f) :
                 /\ Pieces(f)[i] \in FieldsOf(f)
                 /\ After(f, Pieces(f)[i])
                       = IF i = Len(Pieces(f)) THEN "end" ELSE Pieces(f)[i + 1]
<1>1. f.kind \in {"clear", "encrypted"} /\ f.size \in Nat
  BY FramesAssumption DEF FrameSet
<1>2. CASE f.kind = "encrypted"
  <2>1. Pieces(f) = <<"command", "iv", "original", "encrypted", "body">>
    BY <1>2 DEF Pieces
  <2> QED BY <1>2, <2>1 DEF FieldNames, Headers, FieldsOf, After
<1>3. CASE f.kind = "clear" /\ f.size = 0
  <2>1. Pieces(f) = <<"command", "size">>
    <3>1. Pieces(f) = <<"command", "size">> \o << >> /\ <<"command", "size">> \in Seq(FieldNames)
      BY <1>3 DEF Pieces, FieldNames, Headers
    <3> QED BY <3>1, NothingBehind
  <2> QED BY <1>3, <2>1 DEF FieldNames, Headers, FieldsOf, After
<1>4. CASE f.kind = "clear" /\ f.size # 0
  <2>1. /\ Pieces(f) = <<"command", "size">> \o <<"body">>
        /\ <<"command", "size">> \in Seq(FieldNames) /\ <<"body">> \in Seq(FieldNames)
    BY <1>4 DEF Pieces, FieldNames, Headers
  <2>2. /\ Pieces(f) \in Seq(FieldNames) /\ Len(Pieces(f)) = 3
        /\ Pieces(f)[1] = "command" /\ Pieces(f)[2] = "size" /\ Pieces(f)[3] = "body"
    BY <2>1
  <2>3. /\ FieldsOf(f) = {"command", "size", "body"} /\ After(f, "command") = "size"
        /\ After(f, "size") = "body" /\ After(f, "body") = "end"
    BY <1>1, <1>4 DEF FieldsOf, After
  <2> QED BY <2>2, <2>3
<1> QED BY <1>1, <1>2, <1>3, <1>4

\* No field of a frame is empty.
LEMMA FieldHasBytes ==
    ASSUME FrameTypes, NEW n \in 1 .. Len(frames), NEW field \in FieldsOf(frames[n])
    PROVE  Length(n, field) \in Nat \ {0} /\ field \in FieldNames
<1>1. frames[n] \in FrameSet
  BY DEF FrameTypes, TypeOK
<1> QED BY <1>1, FramesAssumption DEF FieldsOf, Length, Width, FrameSet, FieldNames, Headers

\* A byte of a sent frame stays what it is when a frame is begun.
LEMMA FrameStays ==
    ASSUME NEW n, frames'[n] = frames[n]
    PROVE  /\ \A field : Length(n, field)' = Length(n, field)
           /\ \A field : Cells(n, field)' = Cells(n, field)
           /\ MessageOf(n)' = MessageOf(n)
           /\ \A c : c.frame = n => FirstAfter(c)' = FirstAfter(c)
BY DEF Length, Cells, MessageOf, FirstAfter

(***************************************************************************)
(* The bytes under way.                                                    *)
(***************************************************************************)
LEMMA EmptyOrNot == ASSUME NEW S, NEW s \in Seq(S) PROVE s = << >> <=> Len(s) = 0
OBVIOUS

\* t is what is left of a sequence of bytes behind its first k.
Behind(s, k, t) ==
    /\ t \in Seq(Cell) /\ Len(t) = Len(s) - k /\ DOMAIN t = 1 .. (Len(s) - k)
    /\ \A i \in 1 .. (Len(s) - k) : t[i] = s[i + k]
    /\ t = << >> <=> k = Len(s)
    /\ k < Len(s) => t[1] = s[k + 1] /\ t[Len(t)] = s[Len(s)]

LEMMA RestOfSequence ==
    ASSUME NEW s \in Seq(Cell), NEW k \in 1 .. Len(s), NEW t,
           t = SubSeq(s, k + 1, Len(s))
    PROVE  Behind(s, k, t)
<1>1. t \in Seq(Cell) /\ Len(t) = Len(s) - k
  OBVIOUS
<1>2. DOMAIN t = 1 .. (Len(s) - k)
  BY <1>1
<1>3. ASSUME NEW i \in 1 .. (Len(s) - k) PROVE t[i] = s[i + k]
  OBVIOUS
<1>4. t = << >> <=> k = Len(s)
  <2>1. t = << >> <=> Len(t) = 0
    BY <1>1, EmptyOrNot
  <2> QED BY <1>1, <2>1
<1>5. k < Len(s) => t[1] = s[k + 1] /\ t[Len(t)] = s[Len(s)]
  <2> SUFFICES ASSUME k < Len(s) PROVE t[1] = s[k + 1] /\ t[Len(t)] = s[Len(s)]
    OBVIOUS
  <2>1. /\ 1 \in 1 .. (Len(s) - k) /\ Len(s) - k \in 1 .. (Len(s) - k)
        /\ (Len(s) - k) + k = Len(s) /\ 1 + k = k + 1
    OBVIOUS
  <2>2. t[1] = s[1 + k] /\ t[Len(s) - k] = s[(Len(s) - k) + k]
    BY <1>3, <2>1
  <2> QED BY <1>1, <2>1, <2>2
<1> QED BY <1>1, <1>2, <1>3, <1>4, <1>5 DEF Behind

\* A field starts where it should, goes on behind the bytes received, and is
\* followed by what comes after it.
LEMMA ReadRun ==
    ASSUME FrameTypes, Unbroken, InFrameSoFar, open => UpToWriter,
           NEW k \in 1 .. Len(stream), NEW first \in Nat,
           ReaderAt = CellOf(Current, next, first),
           first + (k - 1) <= Length(Current, next)
    PROVE  /\ InFrame(ReaderAt)
           /\ \A j \in 1 .. k : stream[j] = CellOf(Current, next, first + (j - 1))
           /\ k < Len(stream) =>
                 stream[k + 1] = IF first + (k - 1) = Length(Current, next)
                                 THEN FirstAfter(CellOf(Current, next, first + (k - 1)))
                                 ELSE CellOf(Current, next, first + k)
           /\ open /\ k = Len(stream) =>
                 /\ first + (k - 1) = Length(Current, next)
                 /\ WriterAt = FirstAfter(CellOf(Current, next, first + (k - 1)))
<1> DEFINE c == CellOf(Current, next, first)
<1>1. stream[1] = c /\ 1 \in DOMAIN stream /\ stream \in Seq(Cell) /\ Len(stream) \in Nat
  BY DEF InFrameSoFar, FrameSoFar, FrameTypes
<1>2. c.frame = Current /\ c.field = next /\ c.at = first
  BY DEF CellOf
<1>3. InFrame(c)
  BY <1>1 DEF Unbroken
<1>4. Length(Current, next) \in Nat
  <2>1. Current \in 1 .. Len(frames) /\ next \in FieldsOf(frames[Current])
    BY <1>2, <1>3 DEF InFrame
  <2> QED BY <2>1, FieldHasBytes
<1>5. \A j \in 1 .. Len(stream) : first + (j - 1) <= Length(Current, next) =>
          stream[j] = CellOf(Current, next, first + (j - 1))
  <2>1. \A j \in DOMAIN stream :
            (1 <= j /\ stream[1].at + (j - 1) <= Length(stream[1].frame, stream[1].field))
              => stream[j] = CellOf(stream[1].frame, stream[1].field, stream[1].at + (j - 1))
    BY <1>1 DEF Unbroken
  <2> HIDE DEF c
  <2>2. \A j \in DOMAIN stream :
            (1 <= j /\ first + (j - 1) <= Length(Current, next))
              => stream[j] = CellOf(Current, next, first + (j - 1))
    BY <1>1, <1>2, <2>1
  <2> QED BY <1>1, <2>2, SMTT(30)
<1>6. \A j \in 1 .. k : stream[j] = CellOf(Current, next, first + (j - 1))
  BY <1>1, <1>4, <1>5
<1> DEFINE d == CellOf(Current, next, first + (k - 1))
<1>7. stream[k] = d /\ d.frame = Current /\ d.field = next /\ d.at = first + (k - 1)
  BY <1>6 DEF CellOf
<1>8. k < Len(stream) /\ first + (k - 1) = Length(Current, next)
        => stream[k + 1] = FirstAfter(d)
  <2>1. k \in DOMAIN stream
    BY <1>1
  <2>2. (k < Len(stream) /\ stream[k].at = Length(stream[k].frame, stream[k].field))
            => stream[k + 1] = FirstAfter(stream[k])
    BY <2>1 DEF Unbroken
  <2> HIDE DEF c, d
  <2> QED BY <1>7, <2>2
<1>9. k < Len(stream) /\ first + (k - 1) # Length(Current, next)
        => stream[k + 1] = CellOf(Current, next, first + k)
  <2> SUFFICES ASSUME k < Len(stream), first + (k - 1) # Length(Current, next)
               PROVE  stream[k + 1] = CellOf(Current, next, first + k)
    OBVIOUS
  <2>1. k + 1 \in 1 .. Len(stream) /\ first + ((k + 1) - 1) <= Length(Current, next)
        /\ first + ((k + 1) - 1) = first + k
    BY <1>1, <1>4
  <2> QED BY <1>5, <2>1
<1>10. open /\ k = Len(stream) =>
          /\ first + (k - 1) = Length(Current, next) /\ WriterAt = FirstAfter(d)
  <2> SUFFICES ASSUME open, k = Len(stream)
               PROVE  first + (k - 1) = Length(Current, next) /\ WriterAt = FirstAfter(d)
    OBVIOUS
  <2>1. 1 + (Length(stream[1].frame, stream[1].field) - stream[1].at) <= Len(stream)
    BY <1>1 DEF UpToWriter
  <2>2. stream # << >>
    BY <1>1
  <2>3. WriterAt = FirstAfter(stream[Len(stream)])
    BY <2>2 DEF UpToWriter
  <2> HIDE DEF c, d
  <2>4. first + (k - 1) = Length(Current, next)
    BY <1>1, <1>2, <1>4, <2>1
  <2> QED BY <1>7, <2>3, <2>4
<1> QED BY <1>3, <1>6, <1>8, <1>9, <1>10

\* What is left when bytes are received from the front is unbroken.
LEMMA ReadRest ==
    ASSUME FrameTypes, Unbroken, NEW k \in 1 .. Len(stream),
           Behind(stream, k, stream'), UNCHANGED sendVars
    PROVE  /\ Unbroken' /\ stream' \in Seq(Cell)
           /\ stream' = << >> <=> k = Len(stream)
           /\ k < Len(stream) => /\ stream'[1] = stream[k + 1]
                                 /\ stream'[Len(stream')] = stream[Len(stream)]
           /\ UpToWriter =>
                 /\ \A i \in DOMAIN stream' :
                       i + (Length(stream[i].frame, stream[i].field)' - stream'[i].at)
                          <= Len(stream')
                 /\ WriterAt' = IF k = Len(stream) THEN WriterAt
                                ELSE FirstAfter(stream[Len(stream)])'
<1> DEFINE n == Len(stream)
<1>1. stream \in Seq(Cell) /\ n \in Nat /\ frames' = frames /\ pieces' = pieces
  BY DEF FrameTypes, sendVars
<1>2. /\ stream' \in Seq(Cell) /\ Len(stream') = n - k /\ DOMAIN stream' = 1 .. (n - k)
      /\ \A i \in 1 .. (n - k) : stream'[i] = stream[i + k]
      /\ stream' = << >> <=> k = n
      /\ k < n => stream'[1] = stream[k + 1] /\ stream'[Len(stream')] = stream[n]
  BY DEF Behind
<1>3. /\ \A m, field : Length(m, field)' = Length(m, field)
      /\ \A c : FirstAfter(c)' = FirstAfter(c)
      /\ \A c : InFrame(c)' <=> InFrame(c)
  BY <1>1 DEF Length, FirstAfter, InFrame
<1>4. Unbroken'
  <2>1. ASSUME NEW i \in DOMAIN stream' PROVE InFrame(stream[i])'
    <3>1. i + k \in DOMAIN stream /\ stream'[i] = stream[i + k]
      BY <1>1, <1>2
    <3>2. InFrame(stream[i + k])
      BY <3>1 DEF Unbroken
    <3> QED BY <1>1, <3>1, <3>2 DEF InFrame, Length
  <2>2. ASSUME NEW i \in DOMAIN stream', NEW j \in DOMAIN stream', i <= j,
               stream'[i].at + (j - i) <= Length(stream[i].frame, stream[i].field)'
        PROVE  stream'[j] = CellOf(stream'[i].frame, stream'[i].field, stream'[i].at + (j - i))
    <3>0. i \in 1 .. (n - k) /\ j \in 1 .. (n - k)
      BY <1>2
    <3>1. i + k \in DOMAIN stream /\ j + k \in DOMAIN stream /\ i + k <= j + k
          /\ (j + k) - (i + k) = j - i
          /\ stream'[i] = stream[i + k] /\ stream'[j] = stream[j + k]
      <4>1. /\ i + k \in 1 .. n /\ j + k \in 1 .. n /\ i + k <= j + k
            /\ (j + k) - (i + k) = j - i
        BY <1>1, <2>2, <3>0
      <4>2. stream'[i] = stream[i + k] /\ stream'[j] = stream[j + k]
        BY <1>2, <3>0
      <4>3. DOMAIN stream = 1 .. n
        BY <1>1
      <4> QED BY <4>1, <4>2, <4>3
    <3>2. stream[i + k].at + ((j + k) - (i + k))
             <= Length(stream[i + k].frame, stream[i + k].field)
      BY <1>3, <2>2, <3>1
    <3>3. stream[j + k] = CellOf(stream[i + k].frame, stream[i + k].field,
                                 stream[i + k].at + ((j + k) - (i + k)))
      BY <3>1, <3>2 DEF Unbroken
    <3> QED BY <3>1, <3>3
  <2>3. ASSUME NEW i \in DOMAIN stream', i < Len(stream'),
               stream'[i].at = Length(stream[i].frame, stream[i].field)'
        PROVE  stream'[i + 1] = FirstAfter(stream[i])'
    <3>0. i \in 1 .. (n - k) /\ i + 1 \in 1 .. (n - k)
      BY <1>1, <1>2, <2>3
    <3>1. i + k \in DOMAIN stream /\ i + k < Len(stream) /\ (i + k) + 1 = (i + 1) + k
          /\ stream'[i] = stream[i + k] /\ stream'[i + 1] = stream[(i + 1) + k]
      <4>1. i + k \in 1 .. n /\ i + k < n /\ (i + k) + 1 = (i + 1) + k
        BY <1>1, <3>0
      <4>2. stream'[i] = stream[i + k] /\ stream'[i + 1] = stream[(i + 1) + k]
        BY <1>2, <3>0
      <4>3. DOMAIN stream = 1 .. n
        BY <1>1
      <4> QED BY <4>1, <4>2, <4>3
    <3>2. stream[i + k].at = Length(stream[i + k].frame, stream[i + k].field)
      BY <1>3, <2>3, <3>1
    <3>3. stream[(i + k) + 1] = FirstAfter(stream[i + k])
      BY <3>1, <3>2 DEF Unbroken
    <3> QED BY <1>3, <3>1, <3>3
  <2> QED BY <2>1, <2>2, <2>3 DEF Unbroken
<1>5. /\ stream' = << >> <=> k = Len(stream)
      /\ k < Len(stream) => /\ stream'[1] = stream[k + 1]
                            /\ stream'[Len(stream')] = stream[Len(stream)]
  BY <1>2
<1>6. ASSUME UpToWriter
      PROVE  /\ \A i \in DOMAIN stream' :
                   i + (Length(stream[i].frame, stream[i].field)' - stream'[i].at)
                      <= Len(stream')
             /\ WriterAt' = IF k = Len(stream) THEN WriterAt
                            ELSE FirstAfter(stream[Len(stream)])'
  <2>1. ASSUME NEW i \in DOMAIN stream'
        PROVE  i + (Length(stream[i].frame, stream[i].field)' - stream'[i].at)
                      <= Len(stream')
    <3>1. i + k \in DOMAIN stream /\ stream'[i] = stream[i + k] /\ InFrame(stream[i + k])
      BY <1>1, <1>2, SMTT(30) DEF Unbroken
    <3>2. Length(stream[i + k].frame, stream[i + k].field) \in Nat /\ stream[i + k].at \in Nat
      <4>1. stream[i + k] \in Cell
        BY <1>1, <3>1
      <4>2. stream[i + k].at \in Nat
        BY <4>1 DEF Cell
      <4> QED BY <3>1, <4>2, FieldHasBytes DEF InFrame
    <3>3. (i + k) + (Length(stream[i + k].frame, stream[i + k].field) - stream[i + k].at)
             <= Len(stream)
      BY <1>6, <3>1 DEF UpToWriter
    <3> QED BY <1>1, <1>2, <1>3, <3>1, <3>2, <3>3
  <2>2. WriterAt' = WriterAt
    BY <1>1 DEF WriterAt
  <2>3. stream # << >> /\ WriterAt = FirstAfter(stream[Len(stream)])
    BY <1>1, <1>6 DEF UpToWriter
  <2>4. k < Len(stream) => FirstAfter(stream[Len(stream)])' = FirstAfter(stream[Len(stream)])
    BY <1>1, <1>5 DEF FirstAfter
  <2> QED BY <2>1, <2>2, <2>3, <2>4
<1> QED BY <1>2, <1>4, <1>5, <1>6

\* The bytes of a field of a sent frame.
LEMMA CellsOfField ==
    ASSUME FrameTypes, NEW n \in 1 .. Len(frames), NEW field \in FieldsOf(frames[n])
    PROVE  /\ Cells(n, field) \in Seq(Cell) /\ Len(Cells(n, field)) = Length(n, field)
           /\ \A i \in 1 .. Length(n, field) :
                 Cells(n, field)[i] = CellOf(n, field, i) /\ InFrame(CellOf(n, field, i))
<1>1. Length(n, field) \in Nat /\ field \in FieldNames /\ Len(frames) \in Nat /\ n \in Nat
  BY FieldHasBytes DEF FrameTypes, TypeOK
<1>2. ASSUME NEW i \in 1 .. Length(n, field)
      PROVE  CellOf(n, field, i) \in Cell /\ InFrame(CellOf(n, field, i))
  BY <1>1 DEF CellOf, Cell, InFrame
<1>3. Cells(n, field) = [i \in 1 .. Length(n, field) |-> CellOf(n, field, i)]
  BY DEF Cells, CellOf
<1> QED BY <1>1, <1>2, <1>3

\* recv() returns at least one byte, and only bytes that are under way.
LEMMA ReceivedBounds ==
    ASSUME FrameTypes, NEW n \in Nat, NEW k \in Received(n)
    PROVE  k \in 1 .. Len(stream) /\ k <= n /\ stream \in Seq(Cell) /\ Len(stream) \in Nat
<1>1. stream \in Seq(Cell) /\ Len(stream) \in Nat
  BY DEF FrameTypes
<1> QED BY <1>1 DEF Received

LEMMA ReceivedBytes ==
    ASSUME NEW s \in Seq(Cell), NEW k \in 1 .. Len(s)
    PROVE  /\ SubSeq(s, 1, k) \in Seq(Cell) /\ Len(SubSeq(s, 1, k)) = k
           /\ \A i \in 1 .. k : SubSeq(s, 1, k)[i] = s[i]
           /\ SubSeq(s, k + 1, Len(s)) \in Seq(Cell)
           /\ SubSeq(s, 1, k)[1] \in Cell
<1>1. /\ SubSeq(s, 1, k) \in Seq(Cell) /\ Len(SubSeq(s, 1, k)) = k
      /\ \A i \in 1 .. k : SubSeq(s, 1, k)[i] = s[i]
  OBVIOUS
<1>2. SubSeq(s, k + 1, Len(s)) \in Seq(Cell)
  OBVIOUS
<1>3. 1 \in 1 .. k /\ s[1] \in Cell
  OBVIOUS
<1> QED BY <1>1, <1>2, <1>3

(***************************************************************************)
(* Types.                                                                  *)
(***************************************************************************)
LEMMA StopTypes == FrameTypes /\ Stop /\ UNCHANGED sendVars /\ derailed' \in BOOLEAN => FrameTypes'
<1> SUFFICES ASSUME FrameTypes, Stop, UNCHANGED sendVars, derailed' \in BOOLEAN
             PROVE  FrameTypes'
  OBVIOUS
<1>1. /\ frames' = frames /\ pieces' = pieces /\ open' = FALSE /\ next' = "stopped"
      /\ stream' = << >> /\ command' = command /\ size' = size /\ body' = body
      /\ handed' = handed
  BY DEF Stop, sendVars
<1>2. FALSE \in BOOLEAN /\ "stopped" \in Headers \cup {"body", "stopped"} /\ "stopped" # "body"
  OBVIOUS
<1>3. TypeOK'
  BY <1>1, <1>2 DEF FrameTypes, TypeOK
<1>4. "stopped" \notin Headers
  BY DEF Headers
<1> QED BY <1>1, <1>3, <1>4 DEF FrameTypes

LEMMA HandedGrows == ASSUME NEW S, NEW s \in Seq(S), NEW e \in S PROVE Append(s, e) \in Seq(S)
OBVIOUS

LEMMA HandOnTypes ==
    ASSUME FrameTypes, NEW bytes \in Seq(Cell), HandOn(bytes)
    PROVE  /\ handed' \in Seq([command : Cell, body : Seq(Cell)])
           /\ next' = "command" /\ body' = << >> /\ size' = 0
<1>1. [command |-> command, body |-> bytes] \in [command : Cell, body : Seq(Cell)]
  BY DEF FrameTypes
<1>2. handed \in Seq([command : Cell, body : Seq(Cell)])
  BY DEF FrameTypes
<1>3. handed' = Append(handed, [command |-> command, body |-> bytes])
  BY DEF HandOn
<1>4. handed' \in Seq([command : Cell, body : Seq(Cell)])
  BY <1>1, <1>2, <1>3, HandedGrows
<1> QED BY <1>4 DEF HandOn

LEMMA WriterTypes ==
    ASSUME FrameTypes, RestOfFrame,
           (\E f \in FrameSet : Begin(f)) \/ SendPiece \/ SendFails \/ Lose
    PROVE  FrameTypes'
<1>1. UNCHANGED readVars => UNCHANGED <<next, command, size, body, handed, derailed>>
  BY DEF readVars
<1>2. ASSUME NEW f \in FrameSet, Begin(f) PROVE FrameTypes'
  <2>1. /\ frames' = Append(frames, f) /\ pieces' = Pieces(f) /\ Len(frames) < MaxFrames
        /\ UNCHANGED <<stream, open, next, command, size, body, handed, derailed>>
    BY <1>1, <1>2 DEF Begin
  <2>2. frames' \in Seq(FrameSet) /\ Len(frames') <= MaxFrames
    BY <2>1, FramesAssumption DEF FrameTypes, TypeOK
  <2>3. pieces' \in Seq(FieldNames)
    BY <2>1, PiecesOfFrame
  <2> QED BY <2>1, <2>2, <2>3 DEF FrameTypes, TypeOK
<1>3. CASE SendPiece
  <2>1. /\ stream' = stream \o Cells(Len(frames), Head(pieces)) /\ pieces' = Tail(pieces)
        /\ pieces # << >>
        /\ UNCHANGED <<frames, open, next, command, size, body, handed, derailed>>
    BY <1>1, <1>3 DEF SendPiece
  <2>2. /\ Head(pieces) = pieces[1] /\ 1 \in DOMAIN pieces /\ pieces' \in Seq(FieldNames)
        /\ stream \in Seq(Cell)
    BY <2>1 DEF FrameTypes
  <2>3. Len(frames) \in 1 .. Len(frames) /\ Head(pieces) \in FieldsOf(frames[Len(frames)])
    <3>1. frames # << >> /\ frames \in Seq(FrameSet)
      BY <2>1 DEF RestOfFrame, FrameTypes, TypeOK
    <3>2. pieces[1] \in FieldsOf(frames[Len(frames)])
      BY <2>1, <2>2 DEF RestOfFrame
    <3> QED BY <2>2, <3>1, <3>2
  <2>4. Cells(Len(frames), Head(pieces)) \in Seq(Cell)
    BY <2>3, CellsOfField
  <2>5. stream' \in Seq(Cell)
    BY <2>1, <2>2, <2>4
  <2> QED BY <2>1, <2>2, <2>5 DEF FrameTypes, TypeOK
<1>4. CASE SendFails
  BY <1>1, <1>4 DEF SendFails, FrameTypes, TypeOK
<1>5. CASE Lose
  <2>1. /\ open' = FALSE
        /\ UNCHANGED <<frames, pieces, next, command, size, body, handed, derailed>>
    BY <1>1, <1>5 DEF Lose, sendVars
  <2>2. stream' \in Seq(Cell)
    BY <1>5 DEF Lose, FrameTypes
  <2> QED BY <2>1, <2>2 DEF FrameTypes, TypeOK
<1> QED BY <1>2, <1>3, <1>4, <1>5

LEMMA BodyTypes ==
    ASSUME FrameTypes, RecvBody
    PROVE  FrameTypes'
<1>1. next = "body" /\ UNCHANGED <<frames, pieces, derailed>>
  BY DEF RecvBody, sendVars
<1>2. size - Len(body) \in Nat /\ body \in Seq(Cell)
  BY <1>1 DEF FrameTypes, TypeOK
<1>3. PICK k \in Received(size - Len(body)) :
        LET bytes == body \o SubSeq(stream, 1, k) IN
           \/ /\ Len(bytes) < size
              /\ body' = bytes /\ stream' = SubSeq(stream, k + 1, Len(stream))
              /\ UNCHANGED <<open, next, command, size, handed>>
           \/ /\ Len(bytes) = size
              /\ HandOn(bytes) /\ stream' = SubSeq(stream, k + 1, Len(stream))
              /\ UNCHANGED <<open, command>>
           \/ Len(bytes) = size /\ derailed /\ Stop
  BY DEF RecvBody
<1> DEFINE bytes == body \o SubSeq(stream, 1, k)
<1>4. bytes \in Seq(Cell) /\ SubSeq(stream, k + 1, Len(stream)) \in Seq(Cell)
  BY <1>2, ReceivedBounds, ReceivedBytes
<1> HIDE DEF bytes
<1>5. CASE /\ Len(bytes) < size
           /\ body' = bytes /\ stream' = SubSeq(stream, k + 1, Len(stream))
           /\ UNCHANGED <<open, next, command, size, handed>>
  BY <1>1, <1>4, <1>5 DEF FrameTypes, TypeOK, Headers
<1>6. CASE /\ HandOn(bytes) /\ stream' = SubSeq(stream, k + 1, Len(stream))
           /\ UNCHANGED <<open, command>>
  <2>1. /\ handed' \in Seq([command : Cell, body : Seq(Cell)])
        /\ next' = "command" /\ body' = << >> /\ size' = 0
    BY <1>4, <1>6, HandOnTypes
  <2>2. 0 \in 0 .. MaxSize /\ "command" \in Headers /\ "command" # "body"
    BY FramesAssumption DEF Headers
  <2>3. TypeOK'
    BY <1>1, <1>6, <2>1, <2>2 DEF FrameTypes, TypeOK
  <2> QED BY <1>1, <1>4, <1>6, <2>1, <2>3 DEF FrameTypes
<1>7. CASE Stop
  BY <1>1, <1>7, StopTypes DEF sendVars, FrameTypes, TypeOK
<1> QED BY <1>3, <1>5, <1>6, <1>7 DEF bytes

LEMMA HeaderTypes ==
    ASSUME FInv, RecvHeader
    PROVE  FrameTypes'
<1> USE DEF FInv
<1>1. next \in Headers /\ UNCHANGED <<frames, pieces>> /\ Width(next) \in Nat
  BY DEF RecvHeader, sendVars, Width
<1>2. PICK k \in Received(Width(next)) :
        LET cells == SubSeq(stream, 1, k)
            ok == ~derailed /\ Whole(next, cells)
        IN  /\ derailed' = ~ok
            /\ \/ /\ \/ next = "command" /\ AfterCommand(cells, ok)
                     \/ next \in {"size", "encrypted"} /\ \E n \in Sizes(cells, ok) : AfterSize(n)
                     \/ next \in {"iv", "original"} /\ AfterOther
                  /\ stream' = SubSeq(stream, k + 1, Len(stream)) /\ UNCHANGED open
               \/ derailed' /\ next \in {"size", "encrypted"} /\ Stop
  BY DEF RecvHeader
<1> DEFINE cells == SubSeq(stream, 1, k)
           ok == ~derailed /\ Whole(next, cells)
<1>3. /\ cells[1] \in Cell /\ SubSeq(stream, k + 1, Len(stream)) \in Seq(Cell)
      /\ cells[1] = stream[1] /\ 1 \in DOMAIN stream
  <2>1. k \in 1 .. Len(stream) /\ stream \in Seq(Cell) /\ Len(stream) \in Nat
    BY <1>1, ReceivedBounds
  <2>2. 1 \in 1 .. k /\ 1 \in DOMAIN stream
    BY <2>1
  <2> QED BY <2>1, <2>2, ReceivedBytes
<1>4. derailed' = ~ok /\ ok \in BOOLEAN
  BY <1>2
<1>5. derailed' \in BOOLEAN
  BY <1>4
<1>6. CASE Stop
  BY <1>1, <1>5, <1>6, StopTypes DEF sendVars
<1>7. Sizes(cells, ok) \subseteq 0 .. MaxSize
  <2>1. CASE ok /\ cells[1].field \in {"size", "encrypted"}
    <3>1. frames[stream[1].frame].size \in 0 .. MaxSize
      <4>1. InFrame(stream[1])
        BY <1>1, <1>3, <2>1 DEF FInv, InOrder, Unbroken
      <4>2. frames[stream[1].frame] \in FrameSet
        BY <4>1 DEF InFrame, FInv, FrameTypes, TypeOK
      <4> QED BY <4>2, FramesAssumption DEF FrameSet
    <3>2. Sizes(cells, ok) = {frames[stream[1].frame].size}
      BY <1>3, <2>1 DEF Sizes
    <3> QED BY <3>1, <3>2
  <2>2. CASE ~(ok /\ cells[1].field \in {"size", "encrypted"})
    BY <2>2 DEF Sizes
  <2> QED BY <2>1, <2>2
<1> HIDE DEF cells, ok
<1>8. CASE /\ stream' = SubSeq(stream, k + 1, Len(stream)) /\ UNCHANGED open
           /\ next = "command" /\ AfterCommand(cells, ok)
  <2>1. command' = cells[1] /\ next' \in {"size", "iv"} /\ UNCHANGED <<size, body, handed>>
    BY <1>8 DEF AfterCommand
  <2>2. TypeOK'
    BY <1>1, <1>5, <1>8, <2>1 DEF FrameTypes, TypeOK, Headers
  <2> QED BY <1>1, <1>3, <1>8, <2>1, <2>2 DEF FrameTypes
<1>9. CASE /\ stream' = SubSeq(stream, k + 1, Len(stream)) /\ UNCHANGED open
           /\ next \in {"iv", "original"} /\ AfterOther
  <2>1. next' \in {"original", "encrypted"} /\ UNCHANGED <<command, size, body, handed>>
    BY <1>9 DEF AfterOther
  <2>2. TypeOK'
    BY <1>1, <1>5, <1>9, <2>1 DEF FrameTypes, TypeOK, Headers
  <2> QED BY <1>1, <1>3, <1>9, <2>1, <2>2 DEF FrameTypes
<1>10. ASSUME /\ stream' = SubSeq(stream, k + 1, Len(stream)) /\ UNCHANGED open
              /\ next \in {"size", "encrypted"},
              NEW n \in Sizes(cells, ok), AfterSize(n)
       PROVE  FrameTypes'
  <2>1. n \in 0 .. MaxSize
    BY <1>7
  <2>2. CASE n > 0 /\ size' = n /\ next' = "body" /\ UNCHANGED <<command, body, handed>>
    <3>1. Len(body) < n
      BY <1>1, <2>1, <2>2 DEF FrameTypes
    <3>2. TypeOK'
      BY <1>1, <1>5, <1>10, <2>1, <2>2, <3>1 DEF FrameTypes, TypeOK, Headers
    <3> QED BY <1>1, <1>3, <1>10, <2>2, <3>2 DEF FrameTypes
  <2>3. CASE n = 0 /\ next = "size" /\ HandOn(<< >>) /\ UNCHANGED command
    <3>1. << >> \in Seq(Cell)
      OBVIOUS
    <3>2. /\ handed' \in Seq([command : Cell, body : Seq(Cell)])
          /\ next' = "command" /\ body' = << >> /\ size' = 0
      BY <2>3, <3>1, HandOnTypes
    <3>3. 0 \in 0 .. MaxSize /\ "command" \in Headers /\ "command" # "body"
      BY FramesAssumption DEF Headers
    <3>4. TypeOK'
      BY <1>1, <1>5, <1>10, <3>2, <3>3 DEF FrameTypes, TypeOK
    <3> QED BY <1>1, <1>3, <1>10, <2>3, <3>2, <3>4 DEF FrameTypes
  <2> QED BY <1>10, <2>2, <2>3 DEF AfterSize
<1> QED BY <1>2, <1>6, <1>8, <1>9, <1>10 DEF cells, ok

(***************************************************************************)
(* The steps of the writer.                                                *)
(***************************************************************************)
LEMMA RestOfFrameStep ==
    ASSUME FInv, [Next]_vars
    PROVE  RestOfFrame'
<1>1. frames \in Seq(FrameSet) /\ pieces \in Seq(FieldNames)
  BY DEF FInv, FrameTypes, TypeOK
<1>2. ASSUME NEW f \in FrameSet, Begin(f) PROVE RestOfFrame'
  <2>1. frames' = Append(frames, f) /\ pieces' = Pieces(f)
    BY <1>2 DEF Begin
  <2>2. frames' # << >> /\ frames'[Len(frames')] = f
    BY <1>1, <2>1
  <2> QED BY <2>1, <2>2, PiecesOfFrame DEF RestOfFrame
<1>3. CASE SendPiece
  <2>1. /\ frames' = frames /\ pieces' = Tail(pieces) /\ pieces # << >>
        /\ Len(pieces') = Len(pieces) - 1 /\ pieces' \in Seq(FieldNames)
        /\ \A i \in DOMAIN pieces' : i + 1 \in DOMAIN pieces /\ pieces'[i] = pieces[i + 1]
    BY <1>1, <1>3 DEF SendPiece
  <2>2. /\ frames # << >>
        /\ \A i \in DOMAIN pieces :
              /\ pieces[i] \in FieldsOf(frames[Len(frames)])
              /\ After(frames[Len(frames)], pieces[i])
                    = IF i = Len(pieces) THEN "end" ELSE pieces[i + 1]
    BY <2>1 DEF FInv, RestOfFrame
  <2>3. ASSUME NEW i \in DOMAIN pieces'
        PROVE  /\ pieces'[i] \in FieldsOf(frames'[Len(frames')])
               /\ After(frames'[Len(frames')], pieces'[i])
                    = IF i = Len(pieces') THEN "end" ELSE pieces'[i + 1]
    <3>1. i + 1 \in DOMAIN pieces /\ pieces'[i] = pieces[i + 1]
      BY <2>1
    <3>2. /\ pieces'[i] \in FieldsOf(frames'[Len(frames')])
          /\ After(frames'[Len(frames')], pieces'[i])
               = IF i + 1 = Len(pieces) THEN "end" ELSE pieces[(i + 1) + 1]
      BY <2>1, <2>2, <3>1
    <3>3. i + 1 = Len(pieces) <=> i = Len(pieces')
      BY <1>1, <2>1
    <3>4. i # Len(pieces') => i + 1 \in DOMAIN pieces'
      BY <1>1, <2>1
    <3> QED BY <2>1, <3>2, <3>3, <3>4
  <2> QED BY <2>1, <2>2, <2>3 DEF RestOfFrame
<1>4. CASE SendFails
  BY <1>4 DEF SendFails, RestOfFrame
<1>5. CASE UNCHANGED sendVars
  BY <1>5 DEF sendVars, FInv, RestOfFrame
<1> QED BY <1>2, <1>3, <1>4, <1>5
        DEF Next, Lose, RecvHeader, RecvBody, RecvEnds, vars, sendVars

\* What was handed on stays as it is.
LEMMA HandedStays ==
    ASSUME FrameTypes, AllHanded, handed' = handed,
           frames' = frames \/ \E f \in FrameSet : frames' = Append(frames, f)
    PROVE  AllHanded'
<1>1. frames \in Seq(FrameSet) /\ Len(frames) \in Nat
      /\ handed \in Seq([command : Cell, body : Seq(Cell)])
  BY DEF FrameTypes, TypeOK
<1>2. \A n \in 1 .. Len(frames) : n <= Len(frames') /\ frames'[n] = frames[n]
  <2>1. CASE frames' = frames
    BY <1>1, <2>1
  <2>2. ASSUME NEW f \in FrameSet, frames' = Append(frames, f)
        PROVE  \A n \in 1 .. Len(frames) : n <= Len(frames') /\ frames'[n] = frames[n]
    BY <1>1, <2>2
  <2> QED BY <2>1, <2>2
<1>3. ASSUME NEW n \in DOMAIN handed'
      PROVE  n <= Len(frames') /\ handed'[n] = MessageOf(n)'
  <2>1. n \in DOMAIN handed /\ n <= Len(frames) /\ handed[n] = MessageOf(n)
    BY <1>3 DEF AllHanded
  <2>2. n \in 1 .. Len(frames)
    BY <1>1, <2>1
  <2>3. MessageOf(n)' = MessageOf(n)
    BY <1>2, <2>2, FrameStays
  <2> QED BY <1>2, <2>1, <2>2, <2>3
<1> QED BY <1>3 DEF AllHanded

LEMMA BeginInOrder ==
    ASSUME FInv, InOrder, NEW f \in FrameSet, Begin(f)
    PROVE  InOrder'
<1>1. /\ frames \in Seq(FrameSet) /\ Len(frames) \in Nat /\ stream \in Seq(Cell)
      /\ handed \in Seq([command : Cell, body : Seq(Cell)])
  BY DEF FInv, FrameTypes, TypeOK
<1>2. /\ frames' = Append(frames, f) /\ pieces' = Pieces(f) /\ pieces = << >>
      /\ UNCHANGED <<stream, open, next, command, size, body, handed, derailed>>
  BY DEF Begin, readVars
<1>3. \A n \in 1 .. Len(frames) : n \in 1 .. Len(frames') /\ frames'[n] = frames[n]
  BY <1>1, <1>2
<1>4. AllHanded'
  BY <1>2, HandedStays DEF FInv, InOrder
<1>5. ASSUME NEW i \in DOMAIN stream
      PROVE  /\ InFrame(stream[i]) /\ InFrame(stream[i])'
             /\ FirstAfter(stream[i])' = FirstAfter(stream[i])
             /\ Length(stream[i].frame, stream[i].field)' = Length(stream[i].frame, stream[i].field)
  <2>1. InFrame(stream[i])
    BY DEF InOrder, Unbroken
  <2>2. frames'[stream[i].frame] = frames[stream[i].frame] /\ stream[i].frame \in 1 .. Len(frames')
    BY <1>3, <2>1 DEF InFrame
  <2>3. stream'[i] = stream[i]
    BY <1>2
  <2> QED BY <2>1, <2>2, <2>3 DEF InFrame, Length, FirstAfter
<1>6. Unbroken'
  <2>1. \A i \in DOMAIN stream : InFrame(stream[i])'
    BY <1>5
  <2>2. \A i, j \in DOMAIN stream :
          (i <= j /\ stream[i].at + (j - i) <= Length(stream[i].frame, stream[i].field)')
             => stream[j] = CellOf(stream[i].frame, stream[i].field, stream[i].at + (j - i))
    BY <1>5 DEF InOrder, Unbroken
  <2>3. \A i \in DOMAIN stream :
          (i < Len(stream) /\ stream[i].at = Length(stream[i].frame, stream[i].field)')
             => stream[i + 1] = FirstAfter(stream[i])'
    BY <1>5 DEF InOrder, Unbroken
  <2> QED BY <1>2, <2>1, <2>2, <2>3 DEF Unbroken
<1>7. ASSUME next # "stopped" PROVE InFrameSoFar'
  <2>1. Current' = Current /\ Current \in Nat /\ ReaderAt' = ReaderAt
    BY <1>1, <1>2 DEF Current, ReaderAt
  <2>2. InFrameSoFar
    BY <1>7 DEF InOrder
  <2>3. next # "command" => Current \in 1 .. Len(frames)
    BY <1>1, <2>2 DEF InFrameSoFar, FrameSoFar, Current
  <2>4. next # "command" => Current \in 1 .. Len(frames') /\ frames'[Current] = frames[Current]
    BY <1>3, <2>3
  <2> HIDE DEF Current
  <2> QED BY <1>2, <2>1, <2>2, <2>4 DEF InFrameSoFar, FrameSoFar
<1>8. ASSUME next # "stopped", open PROVE UpToWriter'
  <2>1. UpToWriter
    BY <1>8 DEF InOrder
  <2>2. WriterAt' = WriterAt
    <3>1. Len(frames') = Len(frames) + 1
      BY <1>1, <1>2
    <3>2. pieces' # << >> /\ Head(pieces') = "command"
      BY <1>2, PiecesOfFrame
    <3> QED BY <1>2, <3>1, <3>2 DEF WriterAt
  <2>3. ReaderAt' = ReaderAt
    BY <1>2 DEF Current, ReaderAt
  <2>4. stream # << >> => Len(stream) \in DOMAIN stream
    BY <1>1
  <2>5. stream # << >> => FirstAfter(stream[Len(stream)])' = FirstAfter(stream[Len(stream)])
    <3> SUFFICES ASSUME stream # << >>
                 PROVE  FirstAfter(stream[Len(stream)])' = FirstAfter(stream[Len(stream)])
      OBVIOUS
    <3>1. stream[Len(stream)].frame \in 1 .. Len(frames)
      BY <1>5, <2>4 DEF InFrame
    <3>2. frames'[stream[Len(stream)].frame] = frames[stream[Len(stream)].frame]
      BY <1>3, <3>1
    <3> QED BY <1>2, <3>2 DEF FirstAfter
  <2>6. WriterAt' = IF stream' = << >> THEN ReaderAt' ELSE FirstAfter(stream[Len(stream)])'
    BY <1>2, <2>1, <2>2, <2>3, <2>5 DEF UpToWriter
  <2>7. \A i \in DOMAIN stream :
          i + (Length(stream[i].frame, stream[i].field)' - stream[i].at) <= Len(stream)
    BY <1>5, <2>1 DEF UpToWriter
  <2> QED BY <1>2, <2>6, <2>7 DEF UpToWriter
<1> QED BY <1>2, <1>4, <1>6, <1>7, <1>8 DEF InOrder

\* u is the bytes s and behind them the bytes t.
Joined(s, t, u) ==
    /\ u \in Seq(Cell) /\ Len(u) = Len(s) + Len(t) /\ DOMAIN u = 1 .. (Len(s) + Len(t))
    /\ \A i \in 1 .. Len(s) : u[i] = s[i]
    /\ \A i \in 1 .. Len(t) : u[Len(s) + i] = t[i]

LEMMA BytesJoined ==
    ASSUME NEW s \in Seq(Cell), NEW t \in Seq(Cell), NEW u, u = s \o t
    PROVE  Joined(s, t, u)
BY DEF Joined

\* A piece fits behind the bytes under way.
LEMMA SendInOrder ==
    ASSUME FInv, InOrder, SendPiece
    PROVE  InOrder'
<1> DEFINE n == Len(frames)
           h == Head(pieces)
           m == Len(stream)
           w == Length(n, h)
<1>1. /\ frames \in Seq(FrameSet) /\ n \in Nat /\ stream \in Seq(Cell) /\ m \in Nat
      /\ pieces \in Seq(FieldNames)
  BY DEF FInv, FrameTypes, TypeOK
<1>2. /\ stream' = stream \o Cells(n, h) /\ pieces' = Tail(pieces) /\ pieces # << >> /\ open
      /\ UNCHANGED <<frames, open, next, command, size, body, handed, derailed>>
  BY DEF SendPiece, readVars
<1>3. /\ n \in 1 .. Len(frames) /\ h \in FieldsOf(frames[n])
      /\ After(frames[n], h) = IF Len(pieces) = 1 THEN "end" ELSE pieces[2]
  <2>1. 1 \in DOMAIN pieces /\ h = pieces[1]
    BY <1>1, <1>2
  <2>2. /\ frames # << >> /\ pieces[1] \in FieldsOf(frames[n])
        /\ After(frames[n], pieces[1]) = IF 1 = Len(pieces) THEN "end" ELSE pieces[1 + 1]
    BY <1>2, <2>1 DEF FInv, RestOfFrame
  <2> QED BY <1>1, <2>1, <2>2
<1>4. /\ Cells(n, h) \in Seq(Cell) /\ Len(Cells(n, h)) = w /\ w \in Nat \ {0}
      /\ \A i \in 1 .. w : Cells(n, h)[i] = CellOf(n, h, i) /\ InFrame(CellOf(n, h, i))
  BY <1>3, CellsOfField, FieldHasBytes DEF FInv
<1>5. next # "stopped" /\ InFrameSoFar /\ UpToWriter /\ Unbroken /\ AllHanded
  BY <1>2 DEF InOrder
<1>6. WriterAt = CellOf(n, h, 1)
  BY <1>2 DEF WriterAt
<1> HIDE DEF h, w
<1>7. /\ stream' \in Seq(Cell) /\ Len(stream') = m + w /\ DOMAIN stream' = 1 .. (m + w)
      /\ \A i \in 1 .. m : stream'[i] = stream[i]
      /\ \A i \in 1 .. w : stream'[m + i] = CellOf(n, h, i)
  <2>1. Cells(n, h) \in Seq(Cell) /\ Len(Cells(n, h)) = w /\ w \in Nat
        /\ stream' = stream \o Cells(n, h) /\ stream \in Seq(Cell)
    BY <1>1, <1>2, <1>4
  <2>2. /\ stream' \in Seq(Cell) /\ Len(stream') = m + w /\ DOMAIN stream' = 1 .. (m + w)
        /\ \A i \in 1 .. m : stream'[i] = stream[i]
        /\ \A i \in 1 .. w : stream'[m + i] = Cells(n, h)[i]
    <3>1. Joined(stream, Cells(n, h), stream')
      BY <2>1, BytesJoined
    <3> QED BY <2>1, <3>1 DEF Joined
  <2> QED BY <1>4, <2>2
<1>8. /\ \A p, field : Length(p, field)' = Length(p, field)
      /\ \A c : InFrame(c)' <=> InFrame(c)
  BY <1>2 DEF Length, InFrame
<1>9. \A i \in 1 .. (m + w) : i \in 1 .. m \/ i - m \in 1 .. w
  BY <1>1, <1>4
<1>10. \A i \in 1 .. m : InFrame(stream[i]) /\ stream[i].at \in Nat
          /\ Length(stream[i].frame, stream[i].field) \in Nat
          /\ i + (Length(stream[i].frame, stream[i].field) - stream[i].at) <= m
  <2> SUFFICES ASSUME NEW i \in 1 .. m
               PROVE  InFrame(stream[i]) /\ stream[i].at \in Nat
                      /\ Length(stream[i].frame, stream[i].field) \in Nat
                      /\ i + (Length(stream[i].frame, stream[i].field) - stream[i].at) <= m
    OBVIOUS
  <2>1. i \in DOMAIN stream /\ stream[i] \in Cell
    BY <1>1
  <2>2. InFrame(stream[i])
        /\ i + (Length(stream[i].frame, stream[i].field) - stream[i].at) <= m
    BY <1>5, <2>1 DEF Unbroken, UpToWriter
  <2>3. stream[i].at \in Nat
    BY <2>1 DEF Cell
  <2>4. Length(stream[i].frame, stream[i].field) \in Nat
    BY <2>2, FieldHasBytes DEF InFrame, FInv
  <2> QED BY <2>2, <2>3, <2>4
<1>11. ASSUME NEW i \in 1 .. w
       PROVE  stream'[m + i].frame = n /\ stream'[m + i].field = h /\ stream'[m + i].at = i
  <2>1. stream'[m + i] = CellOf(n, h, i)
    BY <1>7
  <2> QED BY <2>1 DEF CellOf
<1>12. stream'[m + 1] = CellOf(n, h, 1)
  <2>1. 1 \in 1 .. w /\ \A i \in 1 .. w : stream'[m + i] = CellOf(n, h, i)
    BY <1>4, <1>7
  <2> HIDE DEF m
  <2> QED BY <2>1
<1>13. m # 0 => FirstAfter(stream[m]) = CellOf(n, h, 1)
  BY <1>1, <1>5, <1>6, EmptyOrNot DEF UpToWriter
<1>14. Unbroken'
  <2>1. ASSUME NEW i \in DOMAIN stream' PROVE InFrame(stream[i])'
    <3>1. CASE i \in 1 .. m
      <4>1. InFrame(stream[i]) /\ stream'[i] = stream[i]
        BY <1>7, <1>10, <3>1
      <4> QED BY <1>2, <4>1 DEF InFrame, Length
    <3>2. CASE i - m \in 1 .. w
      <4>1. InFrame(CellOf(n, h, i - m)) /\ stream'[m + (i - m)] = CellOf(n, h, i - m)
            /\ m + (i - m) = i
        BY <1>1, <1>4, <1>7, <3>2
      <4> QED BY <1>2, <4>1 DEF InFrame, Length
    <3> QED BY <1>7, <1>9, <3>1, <3>2
  <2>2. ASSUME NEW i \in DOMAIN stream', NEW j \in DOMAIN stream', i <= j,
               stream'[i].at + (j - i) <= Length(stream[i].frame, stream[i].field)'
        PROVE  stream'[j] = CellOf(stream'[i].frame, stream'[i].field, stream'[i].at + (j - i))
    <3>1. stream'[i].at + (j - i) <= Length(stream'[i].frame, stream'[i].field)
      BY <1>2, <2>2 DEF Length
    <3>2. CASE i \in 1 .. m /\ j \in 1 .. m
      <4>1. stream'[i] = stream[i] /\ stream'[j] = stream[j]
            /\ i \in DOMAIN stream /\ j \in DOMAIN stream
        BY <1>1, <1>7, <3>2
      <4> QED BY <1>5, <2>2, <3>1, <4>1 DEF Unbroken
    <3>3. CASE i \in 1 .. m /\ j - m \in 1 .. w
      <4>1. stream'[i] = stream[i]
        BY <1>7, <3>3
      <4>2. i + (Length(stream[i].frame, stream[i].field) - stream[i].at) <= m
            /\ stream[i].at \in Nat /\ Length(stream[i].frame, stream[i].field) \in Nat
        BY <1>10, <3>3
      <4>3. stream[i].at + (j - i) <= Length(stream[i].frame, stream[i].field)
        BY <3>1, <4>1
      <4>4. j > m /\ i \in Nat /\ j \in Nat
        BY <1>1, <1>4, <1>7, <3>3
      <4> QED BY <1>1, <4>2, <4>3, <4>4
    <3>4. CASE i - m \in 1 .. w /\ j - m \in 1 .. w
      <4>1. m + (i - m) = i /\ m + (j - m) = j /\ (i - m) + (j - i) = j - m
        BY <1>1, <1>4, <1>7
      <4>2. stream'[i] = CellOf(n, h, i - m) /\ stream'[j] = CellOf(n, h, j - m)
        BY <1>7, <3>4, <4>1
      <4> QED BY <4>1, <4>2 DEF CellOf
    <3>5. ~(i - m \in 1 .. w /\ j \in 1 .. m)
      BY <1>1, <1>4, <1>7, <2>2
    <3> QED BY <1>7, <1>9, <3>2, <3>3, <3>4, <3>5
  <2>3. ASSUME NEW i \in DOMAIN stream', i < Len(stream'),
               stream'[i].at = Length(stream[i].frame, stream[i].field)'
        PROVE  stream'[i + 1] = FirstAfter(stream[i])'
    <3>1. stream'[i].at = Length(stream'[i].frame, stream'[i].field)
      BY <1>2, <2>3 DEF Length
    <3>2. CASE i \in 1 .. m /\ i # m
      <4>1. stream'[i] = stream[i] /\ i \in DOMAIN stream /\ i < m /\ i + 1 \in 1 .. m
        BY <1>1, <1>7, <3>2
      <4>2. stream'[i + 1] = stream[i + 1]
        BY <1>7, <4>1
      <4>3. stream[i + 1] = FirstAfter(stream[i])
        BY <1>5, <3>1, <4>1 DEF Unbroken
      <4> QED BY <1>2, <4>1, <4>2, <4>3 DEF FirstAfter
    <3>3. CASE i = m
      <4>1. m # 0 /\ m \in 1 .. m /\ stream'[m + 1] = CellOf(n, h, 1)
        BY <1>1, <1>7, <1>12, <3>3
      <4>2. FirstAfter(stream[m]) = CellOf(n, h, 1) /\ stream'[m] = stream[m]
        BY <1>7, <1>13, <4>1
      <4> QED BY <1>2, <3>3, <4>1, <4>2 DEF FirstAfter
    <3>4. CASE i - m \in 1 .. w
      <4>1. m + (i - m) = i /\ i - m \in 1 .. w
        BY <1>1, <1>4, <1>7, <3>4
      <4>2. stream'[i].frame = n /\ stream'[i].field = h /\ stream'[i].at = i - m
        BY <1>11, <4>1
      <4>3. i - m = w
        BY <3>1, <4>2 DEF w
      <4> QED BY <1>1, <1>4, <1>7, <2>3, <4>1, <4>3
    <3> QED BY <1>7, <1>9, <3>2, <3>3, <3>4
  <2> QED BY <2>1, <2>2, <2>3 DEF Unbroken
<1>15. InFrameSoFar'
  <2>1. Current' = Current /\ ReaderAt' = ReaderAt
    BY <1>2 DEF Current, ReaderAt
  <2>2. stream'[1] = ReaderAt
    <3>1. CASE m = 0
      <4>1. stream = << >>
        BY <1>1, <3>1, EmptyOrNot
      <4>2. ReaderAt = CellOf(n, h, 1)
        BY <1>5, <1>6, <4>1 DEF UpToWriter
      <4> QED BY <1>12, <3>1, <4>2
    <3>2. CASE m # 0
      <4>1. stream # << >> /\ 1 \in 1 .. m
        BY <1>1, <3>2, EmptyOrNot
      <4>2. stream[1] = ReaderAt
        BY <1>5, <4>1 DEF InFrameSoFar, FrameSoFar
      <4> QED BY <1>7, <4>1, <4>2
    <3> QED BY <3>1, <3>2
  <2> HIDE DEF Current
  <2> QED BY <1>2, <1>5, <2>1, <2>2 DEF InFrameSoFar, FrameSoFar
<1>16. Len(pieces) \in Nat \ {0}
  BY <1>1, <1>2, EmptyOrNot
<1>17. UpToWriter'
  <2>1. ASSUME NEW i \in DOMAIN stream'
        PROVE  i + (Length(stream[i].frame, stream[i].field)' - stream'[i].at) <= Len(stream')
    <3>1. CASE i \in 1 .. m
      <4>1. stream'[i] = stream[i]
        BY <1>7, <3>1
      <4>2. i + (Length(stream[i].frame, stream[i].field) - stream[i].at) <= m
            /\ stream[i].at \in Nat /\ Length(stream[i].frame, stream[i].field) \in Nat
        BY <1>10, <3>1
      <4>3. Length(stream[i].frame, stream[i].field)' = Length(stream[i].frame, stream[i].field)
        BY <1>2, <4>1 DEF Length
      <4> QED BY <1>1, <1>4, <1>7, <3>1, <4>1, <4>2, <4>3
    <3>2. CASE i - m \in 1 .. w
      <4>1. m + (i - m) = i
        BY <1>1, <1>4, <1>7
      <4>2. stream'[i].frame = n /\ stream'[i].field = h /\ stream'[i].at = i - m
        BY <1>11, <3>2, <4>1
      <4>3. Length(stream[i].frame, stream[i].field)' = w
        BY <1>2, <4>2 DEF Length, w
      <4> QED BY <1>1, <1>4, <1>7, <4>2, <4>3
    <3> QED BY <1>7, <1>9, <3>1, <3>2
  <2>2. stream' # << >> /\ Len(stream') = m + w /\ stream'[m + w] = CellOf(n, h, w)
    <3>1. w \in 1 .. w /\ m + w # 0
      BY <1>1, <1>4
    <3> QED BY <1>7, <3>1, EmptyOrNot
  <2>3. WriterAt' = FirstAfter(CellOf(n, h, w))
    <3>1. FirstAfter(CellOf(n, h, w)) =
             IF Len(pieces) = 1 THEN CellOf(n + 1, "command", 1) ELSE CellOf(n, pieces[2], 1)
      <4>1. CellOf(n, h, w).frame = n /\ CellOf(n, h, w).field = h
        BY DEF CellOf
      <4>2. Len(pieces) # 1 => pieces[2] # "end"
        <5>1. \A k \in Nat \ {0} : k # 1 => 2 \in 1 .. k
          OBVIOUS
        <5>2. Len(pieces) # 1 => 2 \in 1 .. Len(pieces)
          BY <1>16, <5>1
        <5>3. Len(pieces) # 1 => pieces[2] \in FieldNames
          BY <1>1, <5>2
        <5> QED BY <5>3 DEF FieldNames, Headers
      <4> QED BY <1>3, <4>1, <4>2 DEF FirstAfter
    <3>2. pieces' = Tail(pieces) /\ frames' = frames
      BY <1>2
    <3>3. Len(pieces) = 1 => pieces' = << >>
      BY <1>1, <3>2
    <3>4. Len(pieces) # 1 => pieces' # << >> /\ Head(pieces') = pieces[2]
      <4> SUFFICES ASSUME Len(pieces) # 1 PROVE pieces' # << >> /\ Head(pieces') = pieces[2]
        OBVIOUS
      <4>1. pieces' \in Seq(FieldNames) /\ Len(pieces') = Len(pieces) - 1 /\ Len(pieces') > 0
        <5>1. pieces \in Seq(FieldNames) /\ pieces # << >> /\ pieces' = Tail(pieces)
          BY <1>1, <1>2
        <5>2. pieces' \in Seq(FieldNames) /\ Len(pieces') = Len(pieces) - 1
          BY <5>1
        <5> QED BY <1>16, <5>2
      <4>2. pieces'[1] = pieces[2]
        BY <1>1, <1>2, <4>1
      <4> QED BY <4>1, <4>2
    <3> QED BY <3>1, <3>2, <3>3, <3>4 DEF WriterAt
  <2>4. FirstAfter(stream[Len(stream)])' = FirstAfter(CellOf(n, h, w))
    BY <1>2, <2>2 DEF FirstAfter
  <2> QED BY <2>1, <2>2, <2>3, <2>4 DEF UpToWriter
<1>18. AllHanded'
  BY <1>2, <1>5, HandedStays DEF FInv
<1> QED BY <1>2, <1>5, <1>14, <1>15, <1>17, <1>18 DEF InOrder

LEMMA SendFailsInOrder ==
    ASSUME FInv, InOrder, SendFails
    PROVE  InOrder'
<1>1. /\ ~open /\ UNCHANGED <<frames, stream, open, next, command, size, body, handed, derailed>>
  BY DEF SendFails, readVars
<1>2. AllHanded'
  BY <1>1, HandedStays DEF FInv, InOrder
<1>3. Unbroken'
  BY <1>1 DEF InOrder, Unbroken, InFrame, Length, FirstAfter
<1>4. ASSUME next # "stopped" PROVE InFrameSoFar'
  <2>1. InFrameSoFar
    BY <1>4 DEF InOrder
  <2> QED BY <1>1, <2>1 DEF InFrameSoFar, FrameSoFar, ReaderAt, Current
<1> QED BY <1>1, <1>2, <1>3, <1>4 DEF InOrder

\* What the network still delivers after the loss is the beginning of what was
\* under way.
LEMMA LoseInOrder ==
    ASSUME FInv, InOrder, Lose
    PROVE  InOrder'
<1>1. /\ open /\ ~open'
      /\ UNCHANGED <<frames, pieces, next, command, size, body, handed, derailed>>
  BY DEF Lose, sendVars, readVars
<1>2. PICK k \in 0 .. Len(stream) : stream' = SubSeq(stream, 1, k)
  BY DEF Lose
<1>3. stream \in Seq(Cell) /\ Len(stream) \in Nat
  BY DEF FInv, FrameTypes
<1>4. /\ stream' \in Seq(Cell) /\ Len(stream') = k /\ DOMAIN stream' = 1 .. k
      /\ \A i \in 1 .. k : i \in DOMAIN stream /\ stream'[i] = stream[i]
  BY <1>2, <1>3
<1>5. AllHanded'
  BY <1>1, HandedStays DEF FInv, InOrder
<1>6. Unbroken'
  <2>1. Unbroken
    BY DEF InOrder
  <2>2. ASSUME NEW i \in DOMAIN stream' PROVE InFrame(stream[i])'
    <3>1. InFrame(stream[i]) /\ stream'[i] = stream[i]
      BY <1>4, <2>1 DEF Unbroken
    <3> QED BY <1>1, <3>1 DEF InFrame, Length
  <2>3. ASSUME NEW i \in DOMAIN stream', NEW j \in DOMAIN stream', i <= j,
               stream'[i].at + (j - i) <= Length(stream[i].frame, stream[i].field)'
        PROVE  stream'[j] = CellOf(stream'[i].frame, stream'[i].field, stream'[i].at + (j - i))
    <3>1. stream'[i] = stream[i] /\ stream'[j] = stream[j]
          /\ i \in DOMAIN stream /\ j \in DOMAIN stream
      BY <1>4
    <3>2. stream[i].at + (j - i) <= Length(stream[i].frame, stream[i].field)
      BY <1>1, <2>3, <3>1 DEF Length
    <3> QED BY <2>1, <2>3, <3>1, <3>2 DEF Unbroken
  <2>4. ASSUME NEW i \in DOMAIN stream', i < Len(stream'),
               stream'[i].at = Length(stream[i].frame, stream[i].field)'
        PROVE  stream'[i + 1] = FirstAfter(stream[i])'
    <3>1. i \in 1 .. k /\ i + 1 \in 1 .. k
      BY <1>2, <1>3, <1>4, <2>4
    <3>2. stream'[i] = stream[i] /\ stream'[i + 1] = stream[i + 1]
          /\ i \in DOMAIN stream /\ i < Len(stream)
      BY <1>2, <1>3, <1>4, <3>1
    <3>3. stream[i].at = Length(stream[i].frame, stream[i].field)
      BY <1>1, <2>4, <3>2 DEF Length
    <3>4. stream[i + 1] = FirstAfter(stream[i])
      BY <2>1, <3>2, <3>3 DEF Unbroken
    <3> QED BY <1>1, <3>2, <3>4 DEF FirstAfter
  <2> QED BY <2>2, <2>3, <2>4 DEF Unbroken
<1>7. ASSUME next # "stopped" PROVE InFrameSoFar'
  <2>1. InFrameSoFar
    BY <1>7 DEF InOrder
  <2>2. Current' = Current /\ ReaderAt' = ReaderAt
    BY <1>1 DEF Current, ReaderAt
  <2>3. stream' # << >> => stream # << >> /\ stream'[1] = stream[1]
    <3>1. stream' # << >> => k # 0
      BY <1>4, EmptyOrNot
    <3>2. k # 0 => Len(stream) # 0 /\ 1 \in 1 .. k
      BY <1>3
    <3> QED BY <1>3, <1>4, <3>1, <3>2, EmptyOrNot
  <2> HIDE DEF Current
  <2> QED BY <1>1, <2>1, <2>2, <2>3 DEF InFrameSoFar, FrameSoFar
<1>8. next # "stopped"
  BY <1>1 DEF InOrder
<1> QED BY <1>1, <1>5, <1>6, <1>7, <1>8 DEF InOrder

(***************************************************************************)
(* The steps of the reader.                                                *)
(***************************************************************************)
LEMMA StopInOrder ==
    ASSUME FInv, InOrder, Stop, UNCHANGED sendVars
    PROVE  InOrder'
<1>1. /\ next' = "stopped" /\ open' = FALSE /\ stream' = << >> /\ handed' = handed
      /\ frames' = frames
  BY DEF Stop, sendVars
<1>2. AllHanded'
  BY <1>1, HandedStays DEF FInv, InOrder
<1>3. Unbroken'
  BY <1>1 DEF Unbroken
<1> QED BY <1>1, <1>2, <1>3 DEF InOrder

\* A reader that has received bytes of its field, and is behind them now, is
\* where the next bytes are.
LEMMA ReaderMoves ==
    ASSUME FInv, InOrder, next # "stopped", NEW k \in 1 .. Len(stream), NEW first \in Nat,
           ReaderAt = CellOf(Current, next, first),
           first + (k - 1) <= Length(Current, next),
           stream' = SubSeq(stream, k + 1, Len(stream)), UNCHANGED <<sendVars, open>>,
           ReaderAt' = IF first + (k - 1) = Length(Current, next)
                       THEN FirstAfter(CellOf(Current, next, first + (k - 1)))
                       ELSE CellOf(Current, next, first + k),
           next' # "stopped", FrameSoFar', AllHanded'
    PROVE  InOrder'
<1> DEFINE c == CellOf(Current, next, first + (k - 1))
<1>1. InFrameSoFar /\ (open => UpToWriter) /\ Unbroken /\ FrameTypes
  BY DEF InOrder, FInv
<1>2. /\ k < Len(stream) =>
            stream[k + 1] = IF first + (k - 1) = Length(Current, next)
                            THEN FirstAfter(c) ELSE CellOf(Current, next, first + k)
      /\ open /\ k = Len(stream) =>
            first + (k - 1) = Length(Current, next) /\ WriterAt = FirstAfter(c)
  BY <1>1, ReadRun
<1> HIDE DEF c
<1>3. stream \in Seq(Cell) /\ Len(stream) \in Nat /\ UNCHANGED sendVars /\ open' = open
  BY <1>1 DEF FrameTypes
<1>4. Behind(stream, k, stream')
  BY <1>3, RestOfSequence
<1>5. Unbroken'
  BY <1>1, <1>3, <1>4, ReadRest
<1>6. ReaderAt' = IF first + (k - 1) = Length(Current, next)
                  THEN FirstAfter(c) ELSE CellOf(Current, next, first + k)
  BY DEF c
<1>7. InFrameSoFar'
  <2>1. stream' # << >> => k < Len(stream) /\ stream'[1] = stream[k + 1]
    BY <1>3, <1>4 DEF Behind
  <2> QED BY <1>2, <1>6, <2>1 DEF InFrameSoFar
<1>8. ASSUME open PROVE UpToWriter'
  <2>1. /\ stream' = << >> <=> k = Len(stream)
        /\ \A i \in DOMAIN stream' :
              i + (Length(stream[i].frame, stream[i].field)' - stream'[i].at) <= Len(stream')
        /\ WriterAt' = IF k = Len(stream) THEN WriterAt ELSE FirstAfter(stream[Len(stream)])'
    BY <1>1, <1>3, <1>4, <1>8, ReadRest
  <2>2. stream' = << >> => WriterAt' = ReaderAt'
    BY <1>2, <1>6, <1>8, <2>1
  <2> QED BY <2>1, <2>2 DEF UpToWriter
<1> QED BY <1>3, <1>5, <1>7, <1>8 DEF InOrder

LEMMA HandOnInOrder ==
    ASSUME FInv, InOrder, frames' = frames, Current <= Len(frames),
           handed' = Append(handed, MessageOf(Current))
    PROVE  AllHanded' /\ Current' = Current + 1
<1>1. /\ handed \in Seq([command : Cell, body : Seq(Cell)])
      /\ Len(handed) \in Nat /\ Len(frames) \in Nat
  BY DEF FInv, FrameTypes, TypeOK
<1>2. \A n \in DOMAIN handed : n <= Len(frames) /\ handed[n] = MessageOf(n)
  BY DEF InOrder, AllHanded
<1>3. /\ Len(handed') = Len(handed) + 1
      /\ \A n \in DOMAIN handed' : n \in DOMAIN handed \/ n = Len(handed) + 1
      /\ \A n \in DOMAIN handed : handed'[n] = handed[n]
      /\ handed'[Len(handed) + 1] = MessageOf(Current)
  BY <1>1
<1>4. \A n \in DOMAIN handed' : n <= Len(frames) /\ handed'[n] = MessageOf(n)
  BY <1>2, <1>3 DEF Current
<1>5. \A n : MessageOf(n)' = MessageOf(n)
  BY DEF MessageOf, Cells, Length
<1> QED BY <1>1, <1>3, <1>4, <1>5 DEF AllHanded, Current

LEMMA HeaderInOrder ==
    ASSUME FInv, InOrder, RecvHeader, ~derailed'
    PROVE  InOrder'
<1>1. next \in Headers /\ UNCHANGED sendVars /\ Width(next) \in Nat \ {0}
  BY DEF RecvHeader, Width
<1>2. PICK k \in Received(Width(next)) :
        LET cells == SubSeq(stream, 1, k)
            ok == ~derailed /\ Whole(next, cells)
        IN  /\ derailed' = ~ok
            /\ \/ /\ \/ next = "command" /\ AfterCommand(cells, ok)
                     \/ next \in {"size", "encrypted"} /\ \E n \in Sizes(cells, ok) : AfterSize(n)
                     \/ next \in {"iv", "original"} /\ AfterOther
                  /\ stream' = SubSeq(stream, k + 1, Len(stream)) /\ UNCHANGED open
               \/ derailed' /\ next \in {"size", "encrypted"} /\ Stop
  BY DEF RecvHeader
<1> DEFINE cells == SubSeq(stream, 1, k)
           ok == ~derailed /\ Whole(next, cells)
           c == CellOf(Current, next, 1 + (k - 1))
           f == frames[Current]
<1>3. next # "stopped" /\ next # "body" /\ FrameTypes
  BY <1>1 DEF Headers, FInv
<1>4. k \in 1 .. Len(stream) /\ stream \in Seq(Cell) /\ Len(stream) \in Nat
  BY <1>1, <1>2, <1>3, ReceivedBounds
<1>5. ok /\ k = Width(next)
  <2>1. ok
    BY <1>2
  <2>2. Len(cells) = k
    BY <1>4, ReceivedBytes
  <2> QED BY <2>1, <2>2 DEF Whole
<1>6. /\ InFrameSoFar /\ (open => UpToWriter) /\ Unbroken /\ AllHanded
      /\ ReaderAt = CellOf(Current, next, 1) /\ Length(Current, next) = k
      /\ 1 \in Nat /\ 1 + (k - 1) = k
  <2>1. /\ InFrameSoFar /\ (open => UpToWriter) /\ Unbroken /\ AllHanded
    BY <1>3 DEF InOrder
  <2>2. /\ ReaderAt = CellOf(Current, next, 1) /\ Length(Current, next) = k
    BY <1>3, <1>5 DEF ReaderAt, Length
  <2> QED BY <1>4, <2>1, <2>2
<1>7. /\ Current \in 1 .. Len(frames) /\ next \in FieldsOf(f)
      /\ stream[1] = CellOf(Current, next, 1) /\ cells[1] = CellOf(Current, next, 1)
  <2>1. InFrame(ReaderAt) /\ 1 \in 1 .. k
        /\ \A j \in 1 .. k : stream[j] = CellOf(Current, next, 1 + (j - 1))
    BY <1>3, <1>4, <1>6, ReadRun
  <2>2. Current \in 1 .. Len(frames) /\ next \in FieldsOf(f)
    BY <1>6, <2>1 DEF InFrame, CellOf
  <2>3. stream[1] = CellOf(Current, next, 1 + (1 - 1)) /\ 1 + (1 - 1) = 1
    BY <2>1
  <2>4. cells[1] = stream[1]
    BY <1>4, <2>1, ReceivedBytes
  <2> QED BY <2>2, <2>3, <2>4
<1>8. f \in FrameSet /\ f.size \in 0 .. MaxSize /\ f.kind \in {"clear", "encrypted"}
      /\ (f.kind = "encrypted" => f.size > 0)
  <2>1. f \in FrameSet
    BY <1>7 DEF FInv, FrameTypes, TypeOK
  <2> QED BY <2>1, FramesAssumption DEF FrameSet
<1>9. FirstAfter(c) = IF After(f, next) = "end" THEN CellOf(Current + 1, "command", 1)
                      ELSE CellOf(Current, After(f, next), 1)
  BY DEF FirstAfter, CellOf
<1>10. frames' = frames
  BY <1>1 DEF sendVars
\* It is enough that the reader goes on with what comes after the field.
<1>11. ASSUME stream' = SubSeq(stream, k + 1, Len(stream)), open' = open,
              ReaderAt' = FirstAfter(c), next' # "stopped", FrameSoFar', AllHanded'
       PROVE  InOrder'
  <2>1. k <= Length(Current, next) /\ 1 + (k - 1) <= Length(Current, next)
        /\ 1 + (k - 1) = Length(Current, next) /\ UNCHANGED <<sendVars, open>>
    BY <1>1, <1>4, <1>6, <1>11
  <2>2. ReaderAt' = IF 1 + (k - 1) = Length(Current, next)
                    THEN FirstAfter(CellOf(Current, next, 1 + (k - 1)))
                    ELSE CellOf(Current, next, 1 + k)
    BY <1>11, <2>1
  <2> QED BY <1>3, <1>4, <1>6, <1>11, <2>1, <2>2, ReaderMoves
<1>12. (next # "command" => command = CellOf(Current, "command", 1))
       /\ (next = "command" => cells[1] = CellOf(Current, "command", 1))
  BY <1>6, <1>7 DEF InFrameSoFar, FrameSoFar
<1> HIDE DEF cells, ok, c, f
<1>13. ASSUME next' \in Headers \cup {"body"}, next' = After(f, next), next' # "command",
              command' = CellOf(Current, "command", 1), handed' = handed,
              next' = "body" => size' = f.size /\ body' = << >>,
              stream' = SubSeq(stream, k + 1, Len(stream)), open' = open
       PROVE  InOrder'
  <2>1. Current' = Current /\ next' # "stopped" /\ next' # "end"
    BY <1>13 DEF Current, Headers
  <2>2. AllHanded'
    BY <1>3, <1>6, <1>10, <1>13, HandedStays
  <2>3. next' \in FieldsOf(f)
    BY <1>1, <1>7, <1>8, <1>13, <2>1 DEF After, FieldsOf
  <2>4. ReaderAt' = CellOf(Current, next', 1)
    <3>1. next' = "body" => Len(body') + 1 = 1
      BY <1>13
    <3> HIDE DEF Current
    <3> QED BY <2>1, <3>1 DEF ReaderAt
  <2>5. FrameSoFar'
    <3>1. next' = "body" => body' = [i \in 1 .. Len(body') |-> CellOf(Current, "body", i)]
      BY <1>13
    <3>2. Current <= Len(frames)
      BY <1>7
    <3> HIDE DEF Current
    <3> QED BY <1>10, <1>13, <2>1, <2>3, <3>1, <3>2 DEF FrameSoFar, f
  <2> QED BY <1>9, <1>11, <1>13, <2>1, <2>2, <2>4, <2>5
<1>14. CASE /\ stream' = SubSeq(stream, k + 1, Len(stream)) /\ UNCHANGED open
            /\ next = "command" /\ AfterCommand(cells, ok)
  <2>1. Kinds(cells, ok) = {f.kind}
    BY <1>5, <1>12, <1>14 DEF Kinds, CellOf, f
  <2>2. command' = cells[1] /\ next' = (IF f.kind = "clear" THEN "size" ELSE "iv")
        /\ handed' = handed
    BY <1>14, <2>1 DEF AfterCommand
  <2>3. next' = After(f, next) /\ next' \in Headers /\ next' # "command" /\ next' # "body"
    BY <1>14, <2>2 DEF After, Headers
  <2> QED BY <1>12, <1>13, <1>14, <2>2, <2>3
<1>15. CASE /\ stream' = SubSeq(stream, k + 1, Len(stream)) /\ UNCHANGED open
            /\ next \in {"iv", "original"} /\ AfterOther
  <2>1. next' = (IF next = "iv" THEN "original" ELSE "encrypted")
        /\ command' = command /\ handed' = handed
    BY <1>15 DEF AfterOther
  <2>2. next' = After(f, next) /\ next' \in Headers /\ next' # "command" /\ next' # "body"
        /\ next # "command"
    BY <1>15, <2>1 DEF After, Headers
  <2> QED BY <1>12, <1>13, <1>15, <2>1, <2>2
<1>16. ASSUME stream' = SubSeq(stream, k + 1, Len(stream)), UNCHANGED open,
              next \in {"size", "encrypted"},
              NEW n \in Sizes(cells, ok), AfterSize(n)
       PROVE  InOrder'
  <2>1. n = f.size /\ next # "command" /\ body = << >>
    <3>1. cells[1].frame = Current /\ cells[1].field = next
      BY <1>7 DEF CellOf
    <3>2. Sizes(cells, ok) = {f.size}
      BY <1>5, <1>16, <3>1 DEF Sizes, f
    <3> QED BY <1>1, <1>3, <1>16, <3>2 DEF FrameTypes
  <2>2. CASE n > 0 /\ size' = n /\ next' = "body" /\ UNCHANGED <<command, body, handed>>
    <3>1. After(f, next) = "body"
      BY <1>8, <1>16, <2>1, <2>2 DEF After
    <3> QED BY <1>12, <1>13, <1>16, <2>1, <2>2, <3>1
  <2>3. CASE n = 0 /\ next = "size" /\ HandOn(<< >>) /\ UNCHANGED command
    <3>1. handed' = Append(handed, [command |-> command, body |-> << >>])
          /\ next' = "command" /\ body' = << >>
      BY <2>3 DEF HandOn
    <3>2. MessageOf(Current) = [command |-> command, body |-> << >>]
      <4>1. Cells(Current, "command")[1] = CellOf(Current, "command", 1)
        BY DEF Cells, CellOf, Length, Width
      <4>2. Cells(Current, "body") = << >>
        BY <2>1, <2>3 DEF Cells, Length, f
      <4> QED BY <1>12, <2>1, <4>1, <4>2 DEF MessageOf
    <3>3. AllHanded' /\ Current' = Current + 1
      BY <1>7, <1>10, <3>1, <3>2, HandOnInOrder
    <3>4. After(f, next) = "end"
      BY <2>1, <2>3 DEF After
    <3>5. ReaderAt' = FirstAfter(c)
      <4>1. ReaderAt' = CellOf(Current + 1, "command", 1)
        BY <3>1, <3>3 DEF ReaderAt
      <4> QED BY <1>9, <3>4, <4>1
    <3>6. FrameSoFar'
      BY <3>1 DEF FrameSoFar
    <3> QED BY <1>11, <1>16, <3>1, <3>3, <3>5, <3>6
  <2> QED BY <1>16, <2>2, <2>3 DEF AfterSize
<1> QED BY <1>2, <1>14, <1>15, <1>16 DEF cells, ok

LEMMA BodyInOrder ==
    ASSUME FInv, InOrder, RecvBody, ~derailed'
    PROVE  InOrder'
<1>1. next = "body" /\ UNCHANGED sendVars /\ frames' = frames /\ derailed' = derailed
  BY DEF RecvBody, sendVars
<1>2. /\ size - Len(body) \in Nat \ {0} /\ body \in Seq(Cell) /\ Len(body) \in Nat
      /\ size \in Nat /\ FrameTypes
  BY <1>1, FramesAssumption DEF FInv, FrameTypes, TypeOK
<1>3. PICK k \in Received(size - Len(body)) :
        LET bytes == body \o SubSeq(stream, 1, k) IN
           \/ /\ Len(bytes) < size
              /\ body' = bytes /\ stream' = SubSeq(stream, k + 1, Len(stream))
              /\ UNCHANGED <<open, next, command, size, handed>>
           \/ /\ Len(bytes) = size
              /\ HandOn(bytes) /\ stream' = SubSeq(stream, k + 1, Len(stream))
              /\ UNCHANGED <<open, command>>
           \/ Len(bytes) = size /\ derailed /\ Stop
  BY DEF RecvBody
<1> DEFINE bytes == body \o SubSeq(stream, 1, k)
           first == Len(body) + 1
           c == CellOf(Current, next, first + (k - 1))
           f == frames[Current]
<1>4. k \in 1 .. Len(stream) /\ k <= size - Len(body) /\ stream \in Seq(Cell) /\ Len(stream) \in Nat
  BY <1>2, <1>3, ReceivedBounds
<1>5. /\ InFrameSoFar /\ (open => UpToWriter) /\ Unbroken /\ AllHanded /\ next # "stopped"
  BY <1>1 DEF InOrder
<1>6. /\ Current <= Len(frames) /\ command = CellOf(Current, "command", 1)
      /\ next \in FieldsOf(f) /\ size = f.size
      /\ body = [i \in 1 .. Len(body) |-> CellOf(Current, "body", i)]
  BY <1>1, <1>5 DEF InFrameSoFar, FrameSoFar
<1>7. /\ first \in Nat /\ ReaderAt = CellOf(Current, next, first)
      /\ Length(Current, next) = size /\ first + (k - 1) = Len(body) + k
      /\ first + (k - 1) <= Length(Current, next)
  <2>1. ReaderAt = CellOf(Current, next, first)
    BY <1>1 DEF ReaderAt
  <2>2. Length(Current, next) = size
    BY <1>1, <1>6 DEF Length
  <2> QED BY <1>2, <1>4, <2>1, <2>2
<1>8. \A j \in 1 .. k : stream[j] = CellOf(Current, next, first + (j - 1))
  BY <1>4, <1>5, <1>2, <1>7, ReadRun
<1>9. /\ bytes \in Seq(Cell) /\ Len(bytes) = Len(body) + k
      /\ bytes = [i \in 1 .. Len(bytes) |-> CellOf(Current, "body", i)]
  <2>1. /\ SubSeq(stream, 1, k) \in Seq(Cell) /\ Len(SubSeq(stream, 1, k)) = k
        /\ \A i \in 1 .. k : SubSeq(stream, 1, k)[i] = stream[i]
    BY <1>4, ReceivedBytes
  <2>2. Joined(body, SubSeq(stream, 1, k), bytes)
    BY <1>2, <2>1, BytesJoined
  <2> HIDE DEF bytes
  <2>3. /\ bytes \in Seq(Cell) /\ Len(bytes) = Len(body) + k
        /\ DOMAIN bytes = 1 .. (Len(body) + k)
        /\ \A i \in 1 .. Len(body) : bytes[i] = body[i]
        /\ \A i \in 1 .. k : bytes[Len(body) + i] = SubSeq(stream, 1, k)[i]
    BY <2>1, <2>2 DEF Joined
  <2>4. ASSUME NEW i \in 1 .. (Len(body) + k) PROVE bytes[i] = CellOf(Current, "body", i)
    <3>1. CASE i \in 1 .. Len(body)
      BY <1>6, <2>3, <3>1
    <3>2. CASE i - Len(body) \in 1 .. k
      <4> DEFINE j == i - Len(body)
      <4>1. Len(body) + j = i /\ first + (j - 1) = i
        BY <1>2, <1>4
      <4>2. bytes[Len(body) + j] = stream[j] /\ stream[j] = CellOf(Current, next, first + (j - 1))
        BY <1>8, <2>1, <2>3, <3>2
      <4> HIDE DEF j, first
      <4> QED BY <1>1, <4>1, <4>2
    <3> QED BY <1>2, <1>4, <3>1, <3>2
  <2> QED BY <2>3, <2>4
<1>10. FirstAfter(c) = CellOf(Current + 1, "command", 1)
  BY <1>1 DEF FirstAfter, CellOf, After
<1>11. k \in 1 .. Len(stream) /\ UNCHANGED sendVars
  BY <1>1, <1>4
<1> HIDE DEF bytes, f
<1>12. CASE /\ Len(bytes) < size
            /\ body' = bytes /\ stream' = SubSeq(stream, k + 1, Len(stream))
            /\ UNCHANGED <<open, next, command, size, handed>>
  <2>1. Current' = Current /\ first + (k - 1) # Length(Current, next)
    BY <1>2, <1>4, <1>7, <1>9, <1>12 DEF Current
  <2>2. ReaderAt' = CellOf(Current, next, first + k)
    <3>1. Len(body') + 1 = first + k
      <4>1. Len(body') = Len(body) + k
        BY <1>9, <1>12
      <4>2. (Len(body) + k) + 1 = first + k
        BY <1>2, <1>4
      <4> QED BY <4>1, <4>2
    <3> HIDE DEF Current, first
    <3> QED BY <1>1, <1>12, <2>1, <3>1 DEF ReaderAt
  <2>3. FrameSoFar'
    <3> HIDE DEF Current
    <3> QED BY <1>1, <1>6, <1>9, <1>12, <2>1 DEF FrameSoFar, f
  <2>4. AllHanded'
    BY <1>1, <1>2, <1>5, <1>12, HandedStays
  <2>5. ReaderAt' = IF first + (k - 1) = Length(Current, next)
                    THEN FirstAfter(CellOf(Current, next, first + (k - 1)))
                    ELSE CellOf(Current, next, first + k)
    BY <2>1, <2>2
  <2> HIDE DEF first, c
  <2> QED BY <1>5, <1>7, <1>11, <1>12, <2>3, <2>4, <2>5, ReaderMoves
<1>13. CASE /\ Len(bytes) = size
            /\ HandOn(bytes) /\ stream' = SubSeq(stream, k + 1, Len(stream))
            /\ UNCHANGED <<open, command>>
  <2>1. handed' = Append(handed, [command |-> command, body |-> bytes])
        /\ next' = "command" /\ body' = << >>
    BY <1>13 DEF HandOn
  <2>2. MessageOf(Current) = [command |-> command, body |-> bytes]
    <3>1. Cells(Current, "command")[1] = CellOf(Current, "command", 1)
      BY DEF Cells, CellOf, Length, Width
    <3>2. Cells(Current, "body") = [i \in 1 .. Len(bytes) |-> CellOf(Current, "body", i)]
      BY <1>6, <1>13 DEF Cells, CellOf, Length, f
    <3> QED BY <1>6, <1>9, <3>1, <3>2 DEF MessageOf
  <2>3. AllHanded' /\ Current' = Current + 1
    BY <1>1, <1>6, <2>1, <2>2, HandOnInOrder
  <2>4. ReaderAt' = CellOf(Current + 1, "command", 1)
    BY <2>1, <2>3 DEF ReaderAt
  <2>5. FrameSoFar' /\ next' # "stopped"
    BY <2>1 DEF FrameSoFar
  <2>6. first + (k - 1) = Length(Current, next)
    BY <1>7, <1>9, <1>13
  <2>7. ReaderAt' = IF first + (k - 1) = Length(Current, next)
                    THEN FirstAfter(CellOf(Current, next, first + (k - 1)))
                    ELSE CellOf(Current, next, first + k)
    BY <1>10, <2>4, <2>6
  <2> HIDE DEF first, c
  <2> QED BY <1>5, <1>7, <1>11, <1>13, <2>3, <2>5, <2>7, ReaderMoves
<1> QED BY <1>1, <1>3, <1>12, <1>13 DEF bytes

(***************************************************************************)
(* The invariant, and what it means for the handlers.                      *)
(***************************************************************************)
LEMMA StepFInv == FInv /\ [Next]_vars => FInv'
<1> SUFFICES ASSUME FInv, [Next]_vars PROVE FInv'
  OBVIOUS
<1>1. RestOfFrame'
  BY RestOfFrameStep
<1>2. FrameTypes'
  <2>1. CASE RecvEnds
    BY <2>1, StopTypes DEF RecvEnds, FInv, FrameTypes, TypeOK
  <2>2. CASE UNCHANGED vars
    BY <2>2 DEF vars, FInv, FrameTypes, TypeOK
  <2> QED BY <2>1, <2>2, WriterTypes, HeaderTypes, BodyTypes DEF Next, FInv
\* Once out of step, the reader stays so.
<1>3. derailed \/ InOrder
  BY DEF FInv
<1>4. ASSUME ~derailed' PROVE InOrder'
  <2>1. ~derailed
    BY <1>4 DEF Next, Begin, SendPiece, SendFails, Lose, RecvHeader, RecvBody, RecvEnds,
               readVars, vars
  <2>2. InOrder
    BY <1>3, <2>1
  <2>3. CASE RecvEnds
    BY <2>2, <2>3, StopInOrder DEF RecvEnds
  <2>4. CASE UNCHANGED vars
    <3>1. /\ UNCHANGED <<frames, pieces, stream, open, next, command, size, body, handed>>
      BY <2>4 DEF vars
    <3> QED BY <2>2, <3>1 DEF InOrder, AllHanded, MessageOf, Cells, Length, Unbroken, InFrame,
               FirstAfter, InFrameSoFar, FrameSoFar, UpToWriter, WriterAt, ReaderAt, Current
  <2> QED BY <1>4, <2>2, <2>3, <2>4, BeginInOrder, SendInOrder, SendFailsInOrder, LoseInOrder,
             HeaderInOrder, BodyInOrder DEF Next
<1> QED BY <1>1, <1>2, <1>4 DEF FInv

LEMMA FramesInvariant == Spec => []FInv
<1> QED BY InitFInv, StepFInv, PTL DEF Spec

\* The writer's pieces, the bytes on the connection, the header fields, the body
\* and the messages in the reader's hands keep their types; the reader never
\* holds a size above the bound, never more of a body than the memory it
\* allocated for it, and none while it reads a header (session_read_message).
THEOREM FrameTypesCorrect == Spec => []FrameTypes
<1>1. FInv => FrameTypes
  BY DEF FInv
<1> QED BY <1>1, FramesInvariant, PTL

\* process_message gets the messages that do_send_message was called with, whole
\* and in order, as long as no recv() returned a part of a header field.
THEOREM FramesInOrder == Spec => []HandedInOrder
<1>1. FInv => HandedInOrder
  BY DEF FInv, InOrder, AllHanded, HandedInOrder
<1> QED BY <1>1, FramesInvariant, PTL
=============================================================================
