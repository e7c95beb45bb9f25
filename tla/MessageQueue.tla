----------------------------- MODULE MessageQueue -----------------------------
(***************************************************************************)
(* The queue between session_send_message and the sender thread, at the    *)
(* grain of its lock and its loads and stores (src/network/session.c).     *)
(* Any thread may add; only the sender removes, and it removes index 0.    *)
(* The sender looks at size without the lock, twice.                       *)
(* An operator whose comment begins "Variant" is the next definition with  *)
(* a plausible defect, used only to show which property notices it.        *)
(***************************************************************************)
EXTENDS Integers, Sequences, FiniteSets

CONSTANTS
    Producers,         \* the threads that call message_queue_add
    InitialCapacity,   \* message_queue_create's argument
    MaxCapacity,       \* bound: realloc beyond it fails
    MaxAdds            \* bound: messages added in all

ASSUME QueueAssumption ==
    /\ InitialCapacity \in Nat \ {0} /\ MaxCapacity \in Nat /\ MaxAdds \in Nat
    /\ InitialCapacity <= MaxCapacity

Sender == "sender"
ASSUME SenderIsNoProducer == Sender \notin Producers
Free == "free"
ASSUME FreeIsNoThread == Free \notin Producers

Message == 1 .. MaxAdds
Junk == 0   \* an array cell nothing was stored in

VARIABLES
    messages, capacity, size,   \* the fields of MessageQueue
    mutex,                      \* who holds it, or Free
    pc,                         \* where each thread is
    arg,                        \* the message each producer adds
    index, msg,                 \* i and msg of message_queue_remove
    adds, taken                 \* messages added and returned so far

vars == <<messages, capacity, size, mutex, pc, arg, index, msg, adds, taken>>

Init ==
    /\ messages = [k \in 0 .. InitialCapacity - 1 |-> Junk]
    /\ capacity = InitialCapacity
    /\ size = 0
    /\ mutex = Free
    /\ pc = [t \in Producers \cup {Sender} |->
                IF t = Sender THEN "while" ELSE "idle"]
    /\ arg = [p \in Producers |-> Junk]
    /\ index = 0 /\ msg = Junk
    /\ adds = 0 /\ taken = << >>

Goto(t, here, there) == pc[t] = here /\ pc' = [pc EXCEPT ![t] = there]

Lock(t) == mutex = Free /\ mutex' = t
Unlock(t) == mutex = t /\ mutex' = Free

(***************************************************************************)
(* message_queue_add                                                       *)
(***************************************************************************)
AddCall(p) ==
    /\ Goto(p, "idle", "lock")
    /\ adds < MaxAdds
    /\ adds' = adds + 1
    /\ arg' = [arg EXCEPT ![p] = adds + 1]
    /\ UNCHANGED <<messages, capacity, size, mutex, index, msg, taken>>

AddLock(p) ==
    /\ Goto(p, "lock", "grow")
    /\ Lock(p)
    /\ UNCHANGED <<messages, capacity, size, arg, index, msg, adds, taken>>

\* Variant: the test for a full array is off by one.
AddGrowLate(p) ==
    /\ Goto(p, "grow", "store")
    /\ size <= capacity
    /\ UNCHANGED <<messages, capacity, size, mutex, arg, index, msg, adds,
                   taken>>

\* There is room, or the array is doubled; the old cells keep their messages.
AddGrow(p) ==
    /\ Goto(p, "grow", "store")
    /\ \/ /\ size < capacity
          /\ UNCHANGED <<messages, capacity>>
       \/ /\ size >= capacity
          /\ 2 * capacity <= MaxCapacity
          /\ capacity' = 2 * capacity
          /\ messages' = [k \in 0 .. 2 * capacity - 1 |->
                             IF k < capacity THEN messages[k] ELSE Junk]
    /\ UNCHANGED <<size, mutex, arg, index, msg, adds, taken>>

\* Variant: the early return forgets the lock.
AddDropLocked(p) ==
    /\ Goto(p, "grow", "idle")
    /\ size >= capacity
    /\ UNCHANGED <<messages, capacity, size, mutex, arg, index, msg, adds,
                   taken>>

\* realloc returns NULL: the message is dropped and nobody is told.
AddDrop(p) ==
    /\ Goto(p, "grow", "unlock")
    /\ size >= capacity
    /\ UNCHANGED <<messages, capacity, size, mutex, arg, index, msg, adds,
                   taken>>

AddStore(p) ==
    /\ Goto(p, "store", "count")
    /\ messages' = [messages EXCEPT ![size] = arg[p]]
    /\ UNCHANGED <<capacity, size, mutex, arg, index, msg, adds, taken>>

AddCount(p) ==
    /\ Goto(p, "count", "unlock")
    /\ size' = size + 1
    /\ UNCHANGED <<messages, capacity, mutex, arg, index, msg, adds, taken>>

AddUnlock(p) ==
    /\ Goto(p, "unlock", "idle")
    /\ Unlock(p)
    /\ UNCHANGED <<messages, capacity, size, arg, index, msg, adds, taken>>

(***************************************************************************)
(* The sender: while (queue->size > 0) message_queue_remove(queue, 0)      *)
(***************************************************************************)
\* Variant: the loop stops one message early.
RemoveWhileShort ==
    /\ Goto(Sender, "while", IF size > 1 THEN "check" ELSE "while")
    /\ UNCHANGED <<messages, capacity, size, mutex, arg, index, msg, adds,
                   taken>>

RemoveWhile ==
    /\ Goto(Sender, "while", IF size > 0 THEN "check" ELSE "while")
    /\ UNCHANGED <<messages, capacity, size, mutex, arg, index, msg, adds,
                   taken>>

\* index >= queue->size, before the lock is taken.
RemoveCheck ==
    /\ Goto(Sender, "check", IF size <= 0 THEN "while" ELSE "lock")
    /\ UNCHANGED <<messages, capacity, size, mutex, arg, index, msg, adds,
                   taken>>

\* Variant: removes without the lock.
RemoveLockNot ==
    /\ Goto(Sender, "lock", "take")
    /\ UNCHANGED <<messages, capacity, size, mutex, arg, index, msg, adds,
                   taken>>

RemoveLock ==
    /\ Goto(Sender, "lock", "take")
    /\ Lock(Sender)
    /\ UNCHANGED <<messages, capacity, size, arg, index, msg, adds, taken>>

RemoveTake ==
    /\ Goto(Sender, "take", "shift")
    /\ msg' = messages[0]
    /\ index' = 0
    /\ taken' = Append(taken, messages[0])
    /\ UNCHANGED <<messages, capacity, size, mutex, arg, adds>>

\* Variant: the shift stops one cell early.
RemoveShiftShort ==
    /\ IF index < size - 2
       THEN /\ Goto(Sender, "shift", "shift")
            /\ messages' = [messages EXCEPT ![index] = messages[index + 1]]
            /\ index' = index + 1
       ELSE /\ Goto(Sender, "shift", "count")
            /\ UNCHANGED <<messages, index>>
    /\ UNCHANGED <<capacity, size, mutex, arg, msg, adds, taken>>

RemoveShift ==
    /\ IF index < size - 1
       THEN /\ Goto(Sender, "shift", "shift")
            /\ messages' = [messages EXCEPT ![index] = messages[index + 1]]
            /\ index' = index + 1
       ELSE /\ Goto(Sender, "shift", "count")
            /\ UNCHANGED <<messages, index>>
    /\ UNCHANGED <<capacity, size, mutex, arg, msg, adds, taken>>

RemoveCount ==
    /\ Goto(Sender, "count", "unlock")
    /\ size' = size - 1
    /\ UNCHANGED <<messages, capacity, mutex, arg, index, msg, adds, taken>>

\* Variant: the next message is taken without a look at size.
RemoveUnlockAgain ==
    /\ Goto(Sender, "unlock", "lock")
    /\ Unlock(Sender)
    /\ UNCHANGED <<messages, capacity, size, arg, index, msg, adds, taken>>

RemoveUnlock ==
    /\ Goto(Sender, "unlock", "while")
    /\ Unlock(Sender)
    /\ UNCHANGED <<messages, capacity, size, arg, index, msg, adds, taken>>

ProducerNext(p) ==
    \/ AddCall(p) \/ AddLock(p) \/ AddGrow(p) \/ AddDrop(p)
    \/ AddStore(p) \/ AddCount(p) \/ AddUnlock(p)

SenderNext ==
    \/ RemoveWhile \/ RemoveCheck \/ RemoveLock \/ RemoveTake
    \/ RemoveShift \/ RemoveCount \/ RemoveUnlock

Next == (\E p \in Producers : ProducerNext(p)) \/ SenderNext

Spec == Init /\ [][Next]_vars

\* Every thread that can go on does; nobody has to call message_queue_add.
FairSpec ==
    /\ Spec
    /\ \A p \in Producers :
          WF_vars(\/ AddLock(p) \/ AddGrow(p) \/ AddDrop(p) \/ AddStore(p)
                  \/ AddCount(p) \/ AddUnlock(p))
    /\ WF_vars(SenderNext)

(***************************************************************************)
(* Properties                                                              *)
(***************************************************************************)
\* The fields and the threads' locals hold values of their types.
TypeOK ==
    /\ capacity \in 1 .. MaxCapacity
    /\ messages \in [0 .. capacity - 1 -> Message \cup {Junk}]
    /\ size \in 0 .. capacity
    /\ mutex \in Producers \cup {Sender, Free}
    /\ pc \in [Producers \cup {Sender} ->
                  {"idle", "lock", "grow", "store", "count", "unlock",
                   "while", "check", "take", "shift"}]
    /\ arg \in [Producers -> Message \cup {Junk}]
    /\ index \in 0 .. capacity /\ msg \in Message \cup {Junk}
    /\ adds \in 0 .. MaxAdds /\ taken \in Seq(Message \cup {Junk})

\* The size the sender saw without the lock is still positive when it has the
\* lock (session.c:553, 914, 921), so what it takes was added and not yet
\* removed: never an empty cell, never the same message twice.
TakesOnlyAdded ==
    /\ pc[Sender] \in {"lock", "take", "shift", "count"} => size > 0
    /\ \A j \in DOMAIN taken : taken[j] # Junk
    /\ \A j, k \in DOMAIN taken : taken[j] = taken[k] => j = k

\* The contents as the abstract queue sees them: while the sender shifts the
\* cells down, those before index have moved and the others have not.
Contents ==
    IF pc[Sender] \in {"shift", "count"}
    THEN [k \in 1 .. size - 1 |->
             messages[IF k <= index THEN k - 1 ELSE k]]
    ELSE [k \in 1 .. size |-> messages[k - 1]]

Fifo == INSTANCE FifoQueue WITH contents <- Contents

\* Every step of the array code is a step of the first-in first-out queue, or
\* none: nothing is lost, duplicated or reordered by growing or by shifting.
ImplementsFifo == Fifo!Spec

\* A producer that calls message_queue_add returns (session.c:878-895).
AddReturns == \A p \in Producers : (pc[p] = "lock") ~> (pc[p] = "idle")

\* Every message that is queued is taken out in the end, whatever was taken
\* before it and whatever is queued behind it (session.c:553-563).
Queued(m) == \E k \in DOMAIN Contents : Contents[k] = m
QueueEmpties == \A m \in Message : Queued(m) ~> (\E k \in DOMAIN taken : taken[k] = m)
=============================================================================
