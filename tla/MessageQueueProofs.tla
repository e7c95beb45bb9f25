-------------------------- MODULE MessageQueueProofs --------------------------
(***************************************************************************)
(* The array code of the queue is a first-in first-out queue and takes     *)
(* only what was added, for any set of producers, any capacities and any   *)
(* number of messages.                                                     *)
(***************************************************************************)
EXTENDS MessageQueue, TLAPS

\* Which labels are whose.
Places ==
    /\ \A p \in Producers :
          pc[p] \in {"idle", "lock", "grow", "store", "count", "unlock"}
    /\ pc[Sender] \in {"while", "check", "lock", "take", "shift", "count", "unlock"}

\* Who is between lock and unlock holds the mutex, and nobody else is there.
Exclusion ==
    /\ \A p \in Producers :
          pc[p] \in {"grow", "store", "count", "unlock"} <=> mutex = p
    /\ pc[Sender] \in {"take", "shift", "count", "unlock"} <=> mutex = Sender

\* A producer past the test for a full array has a free cell at size, and its
\* message there once it has stored it.
Room ==
    \A p \in Producers :
        /\ pc[p] \in {"store", "count"} => size < capacity
        /\ pc[p] = "count" => messages[size] = arg[p]

\* The size the sender saw stays positive until it takes the message out, and
\* the shift goes as far as the last message.
Shifting ==
    /\ pc[Sender] \in {"check", "lock", "take", "shift", "count"} => size > 0
    /\ pc[Sender] = "shift" => index <= size - 1
    /\ pc[Sender] = "count" => index = size - 1

QInv == TypeOK /\ Places /\ Exclusion /\ Room /\ Shifting

\* Messages are numbered as they are added.  Those taken and those in the queue,
\* one behind the other, are different, and different from those producers hold.
Flow == taken \o Contents
Waiting == {p \in Producers : pc[p] \in {"lock", "grow", "store", "count"}}
Numbered ==
    /\ \A p \in Waiting : arg[p] \in 1 .. adds
    /\ \A p, q \in Waiting : arg[p] = arg[q] => p = q
    /\ \A k \in DOMAIN Flow : Flow[k] \in 1 .. adds
    /\ \A k, l \in DOMAIN Flow : Flow[k] = Flow[l] => k = l
    /\ \A p \in Waiting, k \in DOMAIN Flow : arg[p] # Flow[k]

(***************************************************************************)
(* The array and the lock.                                                 *)
(***************************************************************************)
LEMMA InitQInv == Init => QInv
BY QueueAssumption, SenderIsNoProducer, FreeIsNoThread
   DEF Init, QInv, TypeOK, Places, Exclusion, Room, Shifting, Sender, Free, Junk

\* A thread's step changes only its own place.
LEMMA PlaceOfOthers ==
    ASSUME QInv, NEW t \in Producers \cup {Sender}, NEW here, NEW there,
           Goto(t, here, there)
    PROVE  /\ pc[t] = here /\ pc'[t] = there
           /\ \A u \in Producers \cup {Sender} : u # t => pc'[u] = pc[u]
BY DEF QInv, TypeOK, Goto

LEMMA SenderIsNotFree == Sender # Free
BY DEF Sender, Free

\* A step of a producer.
LEMMA ProducerStep ==
    ASSUME QInv, NEW p \in Producers, ProducerNext(p)
    PROVE  QInv'
<1> USE QueueAssumption, SenderIsNoProducer, FreeIsNoThread, SenderIsNotFree
        DEF QInv, TypeOK, Places, Exclusion, Room, Shifting
<1>1. CASE AddCall(p)
  <2>1. adds + 1 \in Message \cup {Junk} /\ adds' = adds + 1 /\ adds' \in 0 .. MaxAdds
    BY <1>1 DEF AddCall, Message
  <2>2. /\ arg' = [arg EXCEPT ![p] = adds + 1] /\ pc[p] = "idle"
        /\ pc' = [pc EXCEPT ![p] = "lock"]
        /\ UNCHANGED <<messages, capacity, size, mutex, index, msg, taken>>
    BY <1>1, Zenon DEF AddCall, Goto
  <2>3. TypeOK'
    BY <2>1, <2>2
  <2>4. Places' /\ Exclusion'
    BY <2>2
  <2>5. Room' /\ Shifting'
    BY <2>2
  <2> QED BY <2>3, <2>4, <2>5
<1>2. CASE AddLock(p)
  BY <1>2 DEF AddLock, Goto, Lock
<1>3. CASE AddGrow(p)
  BY <1>3 DEF AddGrow, Goto
<1>4. CASE AddDrop(p)
  BY <1>4 DEF AddDrop, Goto
<1>5. CASE AddStore(p)
  <2>1. /\ messages' = [messages EXCEPT ![size] = arg[p]] /\ pc[p] = "store"
        /\ pc' = [pc EXCEPT ![p] = "count"]
        /\ UNCHANGED <<capacity, size, mutex, arg, index, msg, adds, taken>>
    BY <1>5, Zenon DEF AddStore, Goto
  <2>2. size \in 0 .. capacity - 1 /\ \A q \in Producers : q # p => pc[q] \notin {"store", "count"}
    BY <2>1
  <2>3. TypeOK'
    BY <2>1, <2>2
  <2>4. Places' /\ Exclusion' /\ Shifting'
    BY <2>1
  <2>5. Room'
    BY <2>1, <2>2
  <2> QED BY <2>3, <2>4, <2>5
<1>6. CASE AddCount(p)
  BY <1>6 DEF AddCount, Goto
<1>7. CASE AddUnlock(p)
  BY <1>7 DEF AddUnlock, Goto, Unlock
<1> QED BY <1>1, <1>2, <1>3, <1>4, <1>5, <1>6, <1>7 DEF ProducerNext

\* A step of the sender.
LEMMA SenderStep ==
    ASSUME QInv, SenderNext
    PROVE  QInv'
<1> USE QueueAssumption, SenderIsNoProducer, FreeIsNoThread, SenderIsNotFree
        DEF QInv, TypeOK, Places, Exclusion, Room, Shifting
<1>1. CASE RemoveWhile
  BY <1>1 DEF RemoveWhile, Goto
<1>2. CASE RemoveCheck
  BY <1>2 DEF RemoveCheck, Goto
<1>3. CASE RemoveLock
  BY <1>3 DEF RemoveLock, Goto, Lock
<1>4. CASE RemoveTake
  <2>1. /\ msg' = messages[0] /\ index' = 0 /\ taken' = Append(taken, messages[0])
        /\ pc[Sender] = "take" /\ pc' = [pc EXCEPT ![Sender] = "shift"]
        /\ UNCHANGED <<messages, capacity, size, mutex, arg, adds>>
    BY <1>4, Zenon DEF RemoveTake, Goto
  <2>2. messages[0] \in Message \cup {Junk} /\ taken' \in Seq(Message \cup {Junk})
    BY <2>1
  <2>3. TypeOK'
    BY <2>1, <2>2
  <2>4. Places' /\ Exclusion' /\ Shifting' /\ Room'
    BY <2>1
  <2> QED BY <2>3, <2>4
<1>5. CASE RemoveShift
  BY <1>5 DEF RemoveShift, Goto
<1>6. CASE RemoveCount
  BY <1>6 DEF RemoveCount, Goto
<1>7. CASE RemoveUnlock
  BY <1>7 DEF RemoveUnlock, Goto, Unlock
<1> QED BY <1>1, <1>2, <1>3, <1>4, <1>5, <1>6, <1>7 DEF SenderNext

LEMMA StepQInv == QInv /\ [Next]_vars => QInv'
<1> SUFFICES ASSUME QInv, [Next]_vars PROVE QInv'
  OBVIOUS
<1>1. CASE UNCHANGED vars
  BY <1>1 DEF vars, QInv, TypeOK, Places, Exclusion, Room, Shifting
<1> QED BY <1>1, ProducerStep, SenderStep DEF Next
(***************************************************************************)
(* The contents, as the abstract queue sees them.                          *)
(***************************************************************************)
\* The contents are a sequence of cells of the array.
LEMMA ContentsAre ==
    ASSUME QInv
    PROVE  /\ Contents \in Seq(Message \cup {Junk})
           /\ pc[Sender] \in {"shift", "count"} =>
                 /\ Contents = [k \in 1 .. size - 1 |->
                                   messages[IF k <= index THEN k - 1 ELSE k]]
                 /\ Len(Contents) = size - 1
           /\ pc[Sender] \notin {"shift", "count"} =>
                 /\ Contents = [k \in 1 .. size |-> messages[k - 1]]
                 /\ Len(Contents) = size
<1> USE DEF QInv, TypeOK, Places, Shifting
<1>1. CASE pc[Sender] \in {"shift", "count"}
  <2>1. \A k \in 1 .. size - 1 :
           messages[IF k <= index THEN k - 1 ELSE k] \in Message \cup {Junk}
    BY <1>1
  <2> QED BY <1>1, <2>1 DEF Contents
<1>2. CASE pc[Sender] \notin {"shift", "count"}
  <2>1. \A k \in 1 .. size : messages[k - 1] \in Message \cup {Junk}
    OBVIOUS
  <2> QED BY <1>2, <2>1 DEF Contents
<1> QED BY <1>1, <1>2

\* Storing counts when size does: then the message is in the queue.
LEMMA AddCountAdds ==
    ASSUME QInv, NEW p \in Producers, AddCount(p)
    PROVE  Contents' = Append(Contents, arg[p]) /\ taken' = taken
<1> USE DEF QInv, TypeOK, Places, Exclusion, Room
<1>1. /\ pc[p] = "count" /\ size' = size + 1 /\ messages' = messages
      /\ pc'[Sender] = pc[Sender] /\ taken' = taken
      /\ messages[size] = arg[p] /\ size \in Nat
      /\ pc[Sender] \notin {"shift", "count"}
  BY SenderIsNoProducer, FreeIsNoThread DEF AddCount, Goto
<1>2. Contents' = [k \in 1 .. size + 1 |-> messages[k - 1]]
  BY <1>1 DEF Contents
<1>3. Contents = [k \in 1 .. size |-> messages[k - 1]]
  BY <1>1 DEF Contents
<1>4. Contents \in Seq(Message \cup {Junk}) /\ Len(Contents) = size
  BY <1>1, ContentsAre
<1> QED BY <1>1, <1>2, <1>3, <1>4

\* What the sender takes is the head of the contents.
LEMMA TakeRemoves ==
    ASSUME QInv, RemoveTake
    PROVE  /\ Contents # << >>
           /\ taken' = Append(taken, Head(Contents))
           /\ Contents' = Tail(Contents)
<1> USE DEF QInv, TypeOK, Places, Shifting
<1>1. /\ pc[Sender] = "take" /\ pc'[Sender] = "shift" /\ index' = 0
      /\ messages' = messages /\ size' = size /\ size \in Nat /\ size > 0
      /\ taken' = Append(taken, messages[0])
  BY DEF RemoveTake, Goto
<1>2. /\ Contents = [k \in 1 .. size |-> messages[k - 1]]
      /\ Contents \in Seq(Message \cup {Junk}) /\ Len(Contents) = size
  BY <1>1, ContentsAre
<1>3. Contents' = [k \in 1 .. size - 1 |-> messages[k]]
  BY <1>1 DEF Contents
<1>4. Tail(Contents) = [k \in 1 .. size - 1 |-> messages[k]]
  <2>1. Tail(Contents) = [k \in 1 .. size - 1 |-> Contents[k + 1]]
    BY <1>1, <1>2
  <2>2. \A k \in 1 .. size - 1 : Contents[k + 1] = messages[k]
    BY <1>1, <1>2
  <2> QED BY <2>1, <2>2
<1>5. Contents # << >> /\ Head(Contents) = messages[0]
  <2>1. Contents[1] = messages[0]
    BY <1>1, <1>2
  <2>2. Contents # << >>
    <3>1. Contents \in Seq(Message \cup {Junk}) /\ Len(Contents) > 0
      BY <1>1, <1>2
    <3> QED BY <3>1
  <2>3. Head(Contents) = Contents[1]
    BY <1>2, <2>2
  <2> QED BY <2>1, <2>2, <2>3
<1> QED BY <1>1, <1>3, <1>4, <1>5

\* A cell shifted down is the same message one place on, as Contents counts.
LEMMA ShiftKeeps ==
    ASSUME QInv, RemoveShift
    PROVE  Contents' = Contents /\ taken' = taken
<1> USE DEF QInv, TypeOK, Places, Shifting
<1>1. /\ pc[Sender] = "shift" /\ size' = size /\ taken' = taken /\ size \in Nat
      /\ index \in Nat /\ index <= size - 1 /\ pc'[Sender] \in {"shift", "count"}
      /\ capacity \in Nat /\ size <= capacity
  BY DEF RemoveShift, Goto
<1>2. CASE index < size - 1
  <2>1. messages' = [messages EXCEPT ![index] = messages[index + 1]] /\ index' = index + 1
    BY <1>2 DEF RemoveShift
  <2>2. \A k \in 1 .. size - 1 :
           messages'[IF k <= index + 1 THEN k - 1 ELSE k]
              = messages[IF k <= index THEN k - 1 ELSE k]
    BY <1>1, <1>2, <2>1
  <2> QED BY <1>1, <2>1, <2>2 DEF Contents
<1>3. CASE ~(index < size - 1)
  BY <1>1, <1>3 DEF RemoveShift, Contents
<1> QED BY <1>2, <1>3

\* When the shift is done the cells before size - 1 are the contents.
LEMMA RemoveCountKeeps ==
    ASSUME QInv, RemoveCount
    PROVE  Contents' = Contents /\ taken' = taken
<1> USE DEF QInv, TypeOK, Places, Shifting
<1>1. /\ pc[Sender] = "count" /\ pc'[Sender] = "unlock" /\ size' = size - 1
      /\ messages' = messages /\ taken' = taken /\ index = size - 1 /\ size \in Nat
  BY DEF RemoveCount, Goto
<1>2. \A k \in 1 .. size - 1 :
         messages[IF k <= index THEN k - 1 ELSE k] = messages[k - 1]
  BY <1>1
<1> QED BY <1>1, <1>2 DEF Contents

\* Growing copies the cells the contents are in; storing puts the message into
\* a cell behind them.
LEMMA GrowOrStoreKeeps ==
    ASSUME QInv, NEW p \in Producers, AddGrow(p) \/ AddStore(p)
    PROVE  Contents' = Contents /\ taken' = taken
<1> USE DEF QInv, TypeOK, Places, Exclusion, Room
<1>1. /\ size' = size /\ taken' = taken /\ size \in Nat /\ capacity \in Nat
      /\ size <= capacity /\ pc'[Sender] = pc[Sender]
      /\ pc[Sender] \notin {"shift", "count"}
  BY SenderIsNoProducer, FreeIsNoThread DEF AddGrow, AddStore, Goto
<1>2. \A k \in 1 .. size : messages'[k - 1] = messages[k - 1]
  <2>1. CASE AddGrow(p)
    BY <1>1, <2>1 DEF AddGrow
  <2>2. CASE AddStore(p)
    BY <1>1, <2>2 DEF AddStore, Goto
  <2> QED BY <2>1, <2>2
<1> QED BY <1>1, <1>2 DEF Contents

\* The other steps touch neither the array nor what has been taken.
LEMMA OthersKeep ==
    ASSUME QInv,
           \/ \E p \in Producers :
                 AddCall(p) \/ AddLock(p) \/ AddDrop(p) \/ AddUnlock(p)
           \/ RemoveWhile \/ RemoveCheck \/ RemoveLock \/ RemoveUnlock
    PROVE  Contents' = Contents /\ taken' = taken
<1> USE DEF QInv, TypeOK, Places
<1>1. /\ messages' = messages /\ size' = size /\ index' = index /\ taken' = taken
      /\ pc[Sender] \in {"shift", "count"} <=> pc'[Sender] \in {"shift", "count"}
  BY SenderIsNoProducer
     DEF AddCall, AddLock, AddDrop, AddUnlock, RemoveWhile, RemoveCheck, RemoveLock,
         RemoveUnlock, Goto
<1> QED BY <1>1 DEF Contents

(***************************************************************************)
(* The numbers of messages.                                                *)
(***************************************************************************)
\* Taking a message out leaves it where it was in the flow.
LEMMA HeadMoves ==
    ASSUME NEW S, NEW s \in Seq(S), NEW t \in Seq(S), t # << >>
    PROVE  Append(s, Head(t)) \o Tail(t) = s \o t
OBVIOUS

\* Adding puts a message behind the flow.
LEMMA AddBehind ==
    ASSUME NEW S, NEW s \in Seq(S), NEW t \in Seq(S), NEW m \in S
    PROVE  s \o Append(t, m) = Append(s \o t, m)
OBVIOUS

\* The flow stays, and no producer has a message it had not before.
LEMMA NumberedStays ==
    ASSUME Numbered, Flow' = Flow, adds' = adds, arg' = arg, Waiting' \subseteq Waiting
    PROVE  Numbered'
BY Zenon DEF Numbered

LEMMA NumberedAddCall ==
    ASSUME QInv, Numbered, NEW p \in Producers, AddCall(p)
    PROVE  Numbered'
<1>1. Flow' = Flow
  BY OthersKeep DEF Flow
<1>2. /\ adds' = adds + 1 /\ adds \in Nat
      /\ Waiting' = Waiting \cup {p} /\ p \notin Waiting
      /\ arg'[p] = adds'
      /\ \A q \in Waiting : arg'[q] = arg[q] /\ q \in Producers
  BY DEF AddCall, Goto, Waiting, QInv, TypeOK
<1>3. \A n \in 1 .. adds : n \in 1 .. adds' /\ n # adds'
  BY <1>2
<1>4. adds' \in 1 .. adds'
  BY <1>2
<1>5. \A q \in Waiting' : \/ q \in Waiting /\ arg'[q] = arg[q] /\ arg[q] \in 1 .. adds
                          \/ q = p /\ arg'[q] = adds'
  <2>1. \A q \in Waiting : arg[q] \in 1 .. adds
    BY Zenon DEF Numbered
  <2> QED BY <1>2, <2>1, Zenon
<1>6. \A q \in Waiting' : arg'[q] \in 1 .. adds'
  BY <1>3, <1>4, <1>5, Zenon
<1>7. \A q, r \in Waiting' : arg'[q] = arg'[r] => q = r
  BY <1>3, <1>5, Zenon DEF Numbered
<1>8. \A k \in DOMAIN Flow : Flow[k] \in 1 .. adds
  BY Zenon DEF Numbered
<1>9. \A q \in Waiting', k \in DOMAIN Flow : arg'[q] # Flow[k]
  BY <1>3, <1>5, <1>8, Zenon DEF Numbered
<1>10. \A k, l \in DOMAIN Flow : Flow[k] = Flow[l] => k = l
  BY Zenon DEF Numbered
<1> HIDE DEF Flow
<1> QED BY <1>1, <1>3, <1>6, <1>7, <1>8, <1>9, <1>10, Zenon DEF Numbered

\* The message with its number leaves the producer and joins the flow.
LEMMA NumberedAddCount ==
    ASSUME QInv, Numbered, NEW p \in Producers, AddCount(p)
    PROVE  Numbered'
<1>1. /\ Waiting' = Waiting \ {p} /\ p \in Waiting
      /\ adds' = adds /\ arg' = arg /\ arg[p] \in Message \cup {Junk}
  BY DEF AddCount, Goto, Waiting, QInv, TypeOK
<1>2. Flow \in Seq(Message \cup {Junk}) /\ Flow' = Append(Flow, arg[p])
  <2>1. /\ Contents \in Seq(Message \cup {Junk}) /\ taken \in Seq(Message \cup {Junk})
        /\ Contents' = Append(Contents, arg[p]) /\ taken' = taken
    BY ContentsAre, AddCountAdds DEF QInv, TypeOK
  <2>2. taken \o Append(Contents, arg[p]) = Append(taken \o Contents, arg[p])
    BY <1>1, <2>1, AddBehind
  <2> QED BY <2>1, <2>2 DEF Flow
<1> HIDE DEF Flow
<1>3. /\ DOMAIN Flow' = DOMAIN Flow \cup {Len(Flow) + 1}
      /\ \A k \in DOMAIN Flow : Flow'[k] = Flow[k]
      /\ Flow'[Len(Flow) + 1] = arg[p]
  BY <1>2
<1>4. \A q \in Waiting' : q \in Waiting /\ q # p /\ arg'[q] # arg[p]
  BY <1>1, Zenon DEF Numbered
<1>5. \A k \in DOMAIN Flow' : (k \in DOMAIN Flow /\ Flow'[k] = Flow[k])
                                  \/ (k = Len(Flow) + 1 /\ Flow'[k] = arg[p])
  BY <1>3, Zenon
<1>6. \A k, l \in DOMAIN Flow' : Flow'[k] = Flow'[l] => k = l
  BY <1>1, <1>5, Zenon DEF Numbered
<1>7. \A k \in DOMAIN Flow' : Flow'[k] \in 1 .. adds
  BY <1>1, <1>5, Zenon DEF Numbered
<1>8. \A q \in Waiting', k \in DOMAIN Flow' : arg'[q] # Flow'[k]
  BY <1>1, <1>4, <1>5, Zenon DEF Numbered
<1>9. /\ \A q \in Waiting' : arg'[q] \in 1 .. adds
      /\ \A q, r \in Waiting' : arg'[q] = arg'[r] => q = r
  BY <1>1, <1>4, Zenon DEF Numbered
<1> QED BY <1>1, <1>6, <1>7, <1>8, <1>9, Zenon DEF Numbered

\* The head of the contents joins those taken.
LEMMA NumberedTake ==
    ASSUME QInv, Numbered, RemoveTake
    PROVE  Numbered'
<1>1. Flow' = Flow
  <2>1. /\ Contents # << >> /\ taken' = Append(taken, Head(Contents))
        /\ Contents' = Tail(Contents)
    BY TakeRemoves
  <2>2. Contents \in Seq(Message \cup {Junk}) /\ taken \in Seq(Message \cup {Junk})
    BY ContentsAre DEF QInv, TypeOK
  <2> QED BY <2>1, <2>2, HeadMoves DEF Flow
<1>2. Waiting' \subseteq Waiting /\ adds' = adds /\ arg' = arg
  BY SenderIsNoProducer DEF RemoveTake, Goto, Waiting, QInv, TypeOK
<1> QED BY <1>1, <1>2, NumberedStays

\* The steps that neither add nor take.
LEMMA NumberedOthers ==
    ASSUME QInv, Numbered,
           \/ \E p \in Producers :
                 AddLock(p) \/ AddGrow(p) \/ AddDrop(p) \/ AddStore(p) \/ AddUnlock(p)
           \/ RemoveWhile \/ RemoveCheck \/ RemoveLock \/ RemoveShift
           \/ RemoveCount \/ RemoveUnlock
    PROVE  Numbered'
<1>1. Contents' = Contents /\ taken' = taken
  BY OthersKeep, GrowOrStoreKeeps, ShiftKeeps, RemoveCountKeeps, Zenon
<1>2. Waiting' \subseteq Waiting /\ adds' = adds /\ arg' = arg
  BY SenderIsNoProducer
     DEF AddLock, AddGrow, AddDrop, AddStore, AddUnlock, RemoveWhile, RemoveCheck,
         RemoveLock, RemoveShift, RemoveCount, RemoveUnlock, Goto, Waiting, QInv, TypeOK
<1> QED BY <1>1, <1>2, NumberedStays DEF Flow

LEMMA InitNumbered == Init => Numbered
<1> SUFFICES ASSUME Init PROVE Numbered
  OBVIOUS
<1>1. Contents = << >> /\ taken = << >>
  BY DEF Init, Contents, Sender
<1>2. Flow = << >> /\ Waiting = {}
  BY <1>1, SenderIsNoProducer DEF Flow, Waiting, Init
<1> QED BY <1>2 DEF Numbered

LEMMA StepNumbered == QInv /\ Numbered /\ [Next]_vars => Numbered'
<1> SUFFICES ASSUME QInv, Numbered, [Next]_vars PROVE Numbered'
  OBVIOUS
<1>1. ASSUME NEW p \in Producers, ProducerNext(p) PROVE Numbered'
  BY <1>1, NumberedAddCall, NumberedAddCount, NumberedOthers, Zenon DEF ProducerNext
<1>2. CASE SenderNext
  BY <1>2, NumberedTake, NumberedOthers, Zenon DEF SenderNext
<1>3. CASE UNCHANGED vars
  <2>1. Flow' = Flow /\ Waiting' = Waiting /\ adds' = adds /\ arg' = arg
    BY <1>3 DEF vars, Flow, Waiting, Contents
  <2> QED BY <2>1, NumberedStays
<1> QED BY <1>1, <1>2, <1>3, Zenon DEF Next

(***************************************************************************)
(* The theorems.                                                           *)
(***************************************************************************)
LEMMA QueueInvariant == Spec => [](QInv /\ Numbered)
BY InitQInv, InitNumbered, StepQInv, StepNumbered, PTL DEF Spec

\* The fields of the queue and the threads' locals hold values of their types.
THEOREM QueueTypeCorrect == Spec => []TypeOK
<1>1. QInv => TypeOK
  BY DEF QInv
<1> QED BY QueueInvariant, <1>1, PTL

\* The sender finds a message whenever the size it saw without the lock said so,
\* and takes none twice (session.c:553, 914, 921).
THEOREM TakenWasAdded == Spec => []TakesOnlyAdded
<1>1. QInv /\ Numbered => TakesOnlyAdded
  <2> SUFFICES ASSUME QInv, Numbered PROVE TakesOnlyAdded
    OBVIOUS
  <2>1. pc[Sender] \in {"lock", "take", "shift", "count"} => size > 0
    BY Zenon DEF QInv, Shifting
  <2>2. \A j \in DOMAIN taken : j \in DOMAIN Flow /\ Flow[j] = taken[j]
    <3>1. Contents \in Seq(Message \cup {Junk}) /\ taken \in Seq(Message \cup {Junk})
      BY ContentsAre DEF QInv, TypeOK
    <3> QED BY <3>1 DEF Flow
  <2>3. \A n \in 1 .. adds : n # Junk
    BY DEF QInv, TypeOK, Junk
  <2> QED BY <2>1, <2>2, <2>3, Zenon DEF Numbered, TakesOnlyAdded
<1> QED BY QueueInvariant, <1>1, PTL

\* The array code, with its growth, its failing realloc, its shift and its
\* unlocked reads of size, is a first-in first-out queue (session.c:876-944).
THEOREM QueueIsFifo == Spec => ImplementsFifo
<1>1. Init => Fifo!Init
  BY DEF Init, Fifo!Init, Contents, Sender
<1>2. QInv /\ Numbered /\ [Next]_vars => [Fifo!Next]_(Fifo!fvars)
  <2> SUFFICES ASSUME QInv, Numbered, [Next]_vars
               PROVE  Fifo!Next \/ (Contents' = Contents /\ taken' = taken)
    BY DEF Fifo!fvars
  <2>1. ASSUME NEW p \in Producers, AddCount(p) PROVE Fifo!Next
    <3>1. Contents' = Append(Contents, arg[p]) /\ taken' = taken
      BY <2>1, AddCountAdds
    <3>2. arg[p] \in Message
      <4>1. arg[p] \in 1 .. adds /\ adds \in 0 .. MaxAdds
        BY <2>1 DEF Numbered, Waiting, AddCount, Goto, QInv, TypeOK
      <4> QED BY <4>1, QueueAssumption DEF Message
    <3> QED BY <3>1, <3>2, Zenon DEF Fifo!Next, Fifo!Add
  <2>2. CASE RemoveTake
    BY <2>2, TakeRemoves, Zenon DEF Fifo!Next, Fifo!Remove
  <2>3. CASE UNCHANGED vars
    BY <2>3 DEF vars, Contents
  <2>4. QED
    BY <2>1, <2>2, <2>3, OthersKeep, GrowOrStoreKeeps, ShiftKeeps, RemoveCountKeeps, Zenon
       DEF Next, ProducerNext, SenderNext
<1> QED BY <1>1, <1>2, QueueInvariant, PTL DEF Spec, ImplementsFifo, Fifo!Spec
=============================================================================
