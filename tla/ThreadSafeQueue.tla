-------------------------- MODULE ThreadSafeQueue --------------------------
(***************************************************************************)
(* ThreadSafeQueue: a ring of MAX_SIZE slots under one mutex, with one      *)
(* condition variable for those that wait to read and one for those that    *)
(* wait to write.  What a call does between taking the mutex and giving it  *)
(* up, to return or to wait, is one step.  A thread that waits may also     *)
(* wake up without having been notified.  An element that has been taken is *)
(* moved out of its slot.                                                   *)
(***************************************************************************)
EXTENDS Integers, FiniteSets, Sequences

CONSTANTS
    Producers,   \* threads that put: callers of enqueueTask
    Workers,     \* threads that take: those DisPatcher::init starts
    Values,      \* the elements
    MAX_SIZE,
    NoCall       \* the call of a thread that is in none

Threads == Producers \cup Workers

ASSUME QueueAssumption ==
    /\ MAX_SIZE \in Nat \ {0}
    /\ Producers \cap Workers = {}
    /\ NoCall \notin Values
    /\ NoCall \notin [op : {"Enqueue", "TryEnqueue"}, val : Values]
    /\ NoCall \notin [op : {"Dequeue", "TryDequeue"}]

VARIABLES
    vecs,         \* _vecs
    head,         \* m_int_head
    tail,         \* m_int_tail
    size,         \* m_int_size
    readWaits,    \* the threads that wait on read_condion_
    writeWaits,   \* the threads that wait on write_condion_
    call,         \* the call each thread is in, or NoCall
    ret           \* what the call a thread has made last has returned

ringVars == <<vecs, head, tail, size>>
waitVars == <<readWaits, writeWaits>>
vars == <<vecs, head, tail, size, readWaits, writeWaits, call, ret>>

Puts == [op : {"Enqueue", "TryEnqueue"}, val : Values]
Takes == [op : {"Dequeue", "TryDequeue"}]
Slots == 0..(MAX_SIZE - 1)

Init ==
    /\ vecs = [i \in Slots |-> NoCall]
    /\ head = 0
    /\ tail = 0
    /\ size = 0
    /\ readWaits = {}
    /\ writeWaits = {}
    /\ call = [t \in Threads |-> NoCall]
    /\ ret = [t \in Threads |-> NoCall]

is_empty == size = 0

(* Mutant of is_full: the ring is taken to be full one element too late. *)
is_full_Late == size > MAX_SIZE

is_full == size = MAX_SIZE

(* Mutant of Advance: the last slot is never used. *)
Advance_Short(i) == (i + 1) % (IF MAX_SIZE = 1 THEN 1 ELSE MAX_SIZE - 1)

(* set_front, set_tail. *)
Advance(i) == (i + 1) % MAX_SIZE

(* Mutant of NotifyAll: one waiting thread is woken. *)
NotifyAll_One(S) == IF S = {} THEN {} ELSE S \ {CHOOSE t \in S : TRUE}

(* Mutant of NotifyAll: the notification is missing. *)
NotifyAll_None(S) == S

(* notify_all: who still waits. *)
NotifyAll(S) == {}

Running(t) == call[t] # NoCall /\ t \notin readWaits \cup writeWaits

Return(t, r) ==
    /\ call' = [call EXCEPT ![t] = NoCall]
    /\ ret' = [ret EXCEPT ![t] = r]

Begin(t, c) ==
    /\ call[t] = NoCall
    /\ call' = [call EXCEPT ![t] = c]
    /\ ret' = [ret EXCEPT ![t] = NoCall]
    /\ UNCHANGED <<vecs, head, tail, size, readWaits, writeWaits>>

Push(t) ==
    /\ Running(t)
    /\ call[t] \in Puts
    /\ ~is_full
    /\ vecs' = [vecs EXCEPT ![tail] = call[t].val]
    /\ size' = size + 1
    /\ tail' = Advance(tail)
    /\ readWaits' = NotifyAll(readWaits)
    /\ Return(t, "true")
    /\ UNCHANGED <<head, writeWaits>>

WaitToWrite(t) ==
    /\ Running(t)
    /\ call[t] \in Puts
    /\ call[t].op = "Enqueue"
    /\ is_full
    /\ writeWaits' = writeWaits \cup {t}
    /\ UNCHANGED <<vecs, head, tail, size, readWaits, call, ret>>

RefuseToWrite(t) ==
    /\ Running(t)
    /\ call[t] \in Puts
    /\ call[t].op = "TryEnqueue"
    /\ is_full
    /\ readWaits' = NotifyAll(readWaits)
    /\ Return(t, "false")
    /\ UNCHANGED <<vecs, head, tail, size, writeWaits>>

Pop(t) ==
    /\ Running(t)
    /\ call[t] \in Takes
    /\ ~is_empty
    /\ vecs' = [vecs EXCEPT ![head] = NoCall]
    /\ size' = size - 1
    /\ head' = Advance(head)
    /\ writeWaits' = NotifyAll(writeWaits)
    /\ Return(t, vecs[head])
    /\ UNCHANGED <<tail, readWaits>>

WaitToRead(t) ==
    /\ Running(t)
    /\ call[t] \in Takes
    /\ call[t].op = "Dequeue"
    /\ is_empty
    /\ readWaits' = readWaits \cup {t}
    /\ UNCHANGED <<vecs, head, tail, size, writeWaits, call, ret>>

RefuseToRead(t) ==
    /\ Running(t)
    /\ call[t] \in Takes
    /\ call[t].op = "TryDequeue"
    /\ is_empty
    /\ writeWaits' = NotifyAll(writeWaits)
    /\ Return(t, "false")
    /\ UNCHANGED <<vecs, head, tail, size, readWaits>>

SpuriousWake(t) ==
    /\ t \in readWaits \cup writeWaits
    /\ readWaits' = readWaits \ {t}
    /\ writeWaits' = writeWaits \ {t}
    /\ UNCHANGED <<vecs, head, tail, size, call, ret>>

EnqueueStep(t) == Push(t) \/ WaitToWrite(t) \/ RefuseToWrite(t)
DequeueStep(t) == Pop(t) \/ WaitToRead(t) \/ RefuseToRead(t)

Next ==
    \/ \E t \in Producers : EnqueueStep(t) \/ \E c \in Puts : Begin(t, c)
    \/ \E t \in Workers : DequeueStep(t) \/ \E c \in Takes : Begin(t, c)
    \/ \E t \in Threads : SpuriousWake(t)

Spec == Init /\ [][Next]_vars

(* A thread in a call runs; a worker calls again when a call has returned.  *)
Fairness ==
    /\ \A t \in Producers : WF_vars(EnqueueStep(t))
    /\ \A t \in Workers : WF_vars(DequeueStep(t)) /\ WF_vars(\E c \in Takes : Begin(t, c))

FairSpec == Spec /\ Fairness

-----------------------------------------------------------------------------
(* The data members keep their types. *)
TypeOK ==
    /\ vecs \in [Slots -> Values \cup {NoCall}]
    /\ head \in Slots
    /\ tail \in Slots
    /\ size \in 0..MAX_SIZE
    /\ readWaits \subseteq Workers
    /\ writeWaits \subseteq Producers
    /\ call \in [Threads -> Puts \cup Takes \cup {NoCall}]
    /\ \A t \in Producers : call[t] \notin Takes
    /\ \A t \in Workers : call[t] \notin Puts

(* The slot n places after slot i. *)
SlotAfter(i, n) == IF i + n < MAX_SIZE THEN i + n ELSE i + n - MAX_SIZE

(* What the queue holds, the oldest element first. *)
Elements == [n \in 1..size |-> vecs[SlotAfter(head, n - 1)]]

(* The ring: m_int_tail is m_int_size slots after m_int_head, the slots      *)
(* between them hold elements and only they do: nothing is overwritten      *)
(* before it is taken, nothing is taken twice.                              *)
RingInv ==
    /\ tail = (IF size = MAX_SIZE THEN head ELSE SlotAfter(head, size))
    /\ \A i \in Slots :
          (vecs[i] # NoCall) <=> \E n \in 0..(size - 1) : i = SlotAfter(head, n)

(* No wake-up is lost: a thread waits to read only while the queue is empty  *)
(* and to write only while it is full, whatever calls, blocking or not,     *)
(* come between its test and its wait; so readers and writers never wait    *)
(* for each other.                                                          *)
NoLostWakeup ==
    /\ readWaits # {} => size = 0
    /\ writeWaits # {} => size = MAX_SIZE
    /\ \A t \in readWaits \cup writeWaits : call[t] # NoCall

(* The queue is a bounded first-in first-out channel, calls that are refused *)
(* included.                                                                *)
Promise == INSTANCE Channel WITH chan <- Elements, Capacity <- MAX_SIZE

ImplementsChannel == Promise!Spec

(* An Enqueue that waits is woken: the workers keep taking, and each element *)
(* they take is notified to those that wait.                                *)
WaitingWritersAreWoken ==
    \A t \in Producers : t \in writeWaits ~> t \notin writeWaits
=============================================================================
