------------------------ MODULE ThreadSafeQueueProofs ------------------------
(***************************************************************************)
(* What is proved of ThreadSafeQueue for any number of threads, any values  *)
(* and any size of the ring: its types, that the ring neither overwrites    *)
(* nor repeats an element, that no wake-up is lost, and that the queue is a *)
(* bounded first-in first-out channel.                                      *)
(***************************************************************************)
EXTENDS ThreadSafeQueue, SequenceTheorems, TLAPS

(* The inductive invariant: the ring needs the types only, and so do the wake-ups. *)
IInv == TypeOK /\ RingInv /\ NoLostWakeup

-----------------------------------------------------------------------------
(* A call is not NoCall, whichever kind it is. *)
LEMMA CallFacts ==
  ASSUME NEW c
  PROVE  /\ c \in Puts => c # NoCall /\ c \notin Takes /\ c.val \in Values
         /\ c \in Takes => c # NoCall /\ c \notin Puts
BY QueueAssumption DEF Puts, Takes

(* Advance goes one slot on, and round at the end. *)
LEMMA AdvanceFacts ==
  ASSUME NEW i \in Slots
  PROVE  Advance(i) \in Slots /\ Advance(i) = (IF i + 1 = MAX_SIZE THEN 0 ELSE i + 1)
BY QueueAssumption DEF Advance, Slots

(* The slots that follow a slot are different until they come round. *)
LEMMA SlotFacts ==
  ASSUME NEW i \in Slots, NEW n \in 0..MAX_SIZE
  PROVE  /\ SlotAfter(i, n) \in Slots
         /\ \A m \in 0..MAX_SIZE :
               SlotAfter(i, m) = SlotAfter(i, n) => m = n \/ {m, n} = {0, MAX_SIZE}
         /\ n < MAX_SIZE => Advance(SlotAfter(i, n)) = SlotAfter(i, n + 1)
         /\ n < MAX_SIZE => SlotAfter(Advance(i), n) = SlotAfter(i, n + 1)
BY QueueAssumption, AdvanceFacts DEF SlotAfter, Slots

-----------------------------------------------------------------------------
(* The actions of producers and of workers, one by one. *)
Steps ==
    \/ \E t \in Producers : \E c \in Puts : Begin(t, c)
    \/ \E t \in Workers : \E c \in Takes : Begin(t, c)
    \/ \E t \in Producers : Push(t) \/ WaitToWrite(t) \/ RefuseToWrite(t)
    \/ \E t \in Workers : Pop(t) \/ WaitToRead(t) \/ RefuseToRead(t)
    \/ \E t \in Threads : SpuriousWake(t)
    \/ UNCHANGED vars

(* Every step is one of them. *)
LEMMA NextIsSteps == [Next]_vars => Steps
BY Zenon DEF Next, EnqueueStep, DequeueStep, Steps

(* Each action keeps the types. *)
LEMMA TypeStep ==
  ASSUME TypeOK, Steps
  PROVE  TypeOK'
<1> USE DEF TypeOK
<1>1. ASSUME NEW t \in Producers, NEW c \in Puts, Begin(t, c) PROVE TypeOK'
  BY <1>1, CallFacts, QueueAssumption DEF Begin, Threads
<1>2. ASSUME NEW t \in Workers, NEW c \in Takes, Begin(t, c) PROVE TypeOK'
  BY <1>2, CallFacts, QueueAssumption DEF Begin, Threads
<1>3. ASSUME NEW t \in Producers, Push(t) PROVE TypeOK'
  <2>1. size' \in 0..MAX_SIZE
    BY <1>3, QueueAssumption DEF Push, is_full
  <2>2. tail' \in Slots /\ head' \in Slots
    BY <1>3, AdvanceFacts DEF Push
  <2>3. vecs' \in [Slots -> Values \cup {NoCall}]
    BY <1>3, CallFacts DEF Push
  <2>4. /\ call' \in [Threads -> Puts \cup Takes \cup {NoCall}]
        /\ \A u \in Producers : call'[u] \notin Takes
        /\ \A u \in Workers : call'[u] \notin Puts
    BY <1>3, CallFacts DEF Push, Return, Threads
  <2>5. readWaits' \subseteq Workers /\ writeWaits' \subseteq Producers
    BY <1>3 DEF Push, NotifyAll
  <2> QED BY <2>1, <2>2, <2>3, <2>4, <2>5
<1>4. ASSUME NEW t \in Producers, WaitToWrite(t) PROVE TypeOK'
  BY <1>4 DEF WaitToWrite
<1>5. ASSUME NEW t \in Producers, RefuseToWrite(t) PROVE TypeOK'
  BY <1>5, CallFacts DEF RefuseToWrite, Return, NotifyAll, Threads
<1>6. ASSUME NEW t \in Workers, Pop(t) PROVE TypeOK'
  <2>1. size' \in 0..MAX_SIZE
    BY <1>6, QueueAssumption DEF Pop, is_empty
  <2>2. tail' \in Slots /\ head' \in Slots
    BY <1>6, AdvanceFacts DEF Pop
  <2>3. vecs' \in [Slots -> Values \cup {NoCall}]
    BY <1>6 DEF Pop
  <2>4. /\ call' \in [Threads -> Puts \cup Takes \cup {NoCall}]
        /\ \A u \in Producers : call'[u] \notin Takes
        /\ \A u \in Workers : call'[u] \notin Puts
    BY <1>6, CallFacts DEF Pop, Return, Threads
  <2>5. readWaits' \subseteq Workers /\ writeWaits' \subseteq Producers
    BY <1>6 DEF Pop, NotifyAll
  <2> QED BY <2>1, <2>2, <2>3, <2>4, <2>5
<1>7. ASSUME NEW t \in Workers, WaitToRead(t) PROVE TypeOK'
  BY <1>7 DEF WaitToRead
<1>8. ASSUME NEW t \in Workers, RefuseToRead(t) PROVE TypeOK'
  BY <1>8, CallFacts DEF RefuseToRead, Return, NotifyAll, Threads
<1>9. ASSUME NEW t \in Threads, SpuriousWake(t) PROVE TypeOK'
  BY <1>9 DEF SpuriousWake
<1>10. CASE UNCHANGED vars
  BY <1>10 DEF vars
<1> HIDE DEF TypeOK
<1> QED
  BY <1>1, <1>2, <1>3, <1>4, <1>5, <1>6, <1>7, <1>8, <1>9, <1>10, Zenon DEF Steps

(* Each action keeps the elements in the slots from the head on. *)
LEMMA RingStep ==
  ASSUME TypeOK, RingInv, Steps
  PROVE  RingInv'
<1>1. ASSUME UNCHANGED ringVars PROVE RingInv'
  BY <1>1 DEF ringVars, RingInv, SlotAfter
<1>2. ASSUME NEW t \in Producers, Push(t) PROVE RingInv'
  <2>1. /\ size \in 0..(MAX_SIZE - 1) /\ head \in Slots /\ tail = SlotAfter(head, size)
        /\ call[t].val \in Values /\ MAX_SIZE \in Nat \ {0}
    BY <1>2, CallFacts, QueueAssumption DEF Push, is_full, TypeOK, RingInv
  <2>2. /\ vecs' = [vecs EXCEPT ![tail] = call[t].val] /\ size' = size + 1
        /\ tail' = Advance(tail) /\ head' = head
    BY <1>2 DEF Push
  <2>3. tail' = (IF size' = MAX_SIZE THEN head' ELSE SlotAfter(head', size'))
    <3>1. Advance(tail) = SlotAfter(head, size + 1)
      BY <2>1, SlotFacts
    <3>2. SlotAfter(head, MAX_SIZE) = head
      BY <2>1 DEF SlotAfter, Slots
    <3> QED BY <2>1, <2>2, <3>1, <3>2
  <2>4. ASSUME NEW i \in Slots
        PROVE  (vecs'[i] # NoCall) <=> \E n \in 0..(size' - 1) : i = SlotAfter(head', n)
    <3>1. (\E n \in 0..(size' - 1) : i = SlotAfter(head', n))
              <=> i = tail \/ \E n \in 0..(size - 1) : i = SlotAfter(head, n)
      BY <2>1, <2>2
    <3>2. (vecs'[i] # NoCall) <=> i = tail \/ vecs[i] # NoCall
      BY <2>1, <2>2, QueueAssumption DEF TypeOK
    <3> QED BY <3>1, <3>2 DEF RingInv
  <2> QED BY <2>3, <2>4 DEF RingInv, SlotAfter
<1>3. ASSUME NEW t \in Workers, Pop(t) PROVE RingInv'
  <2>1. size \in 1..MAX_SIZE /\ head \in Slots /\ MAX_SIZE \in Nat \ {0}
    BY <1>3, QueueAssumption DEF Pop, is_empty, TypeOK
  <2>2. /\ vecs' = [vecs EXCEPT ![head] = NoCall] /\ size' = size - 1
        /\ head' = Advance(head) /\ tail' = tail
    BY <1>3 DEF Pop
  <2>3. \A n \in 0..(MAX_SIZE - 1) : SlotAfter(head', n) = SlotAfter(head, n + 1)
    BY <2>1, <2>2, SlotFacts
  <2>4. SlotAfter(head, 0) = head /\ SlotAfter(head, MAX_SIZE) = head
    BY <2>1 DEF SlotAfter, Slots
  <2>5. tail' = (IF size' = MAX_SIZE THEN head' ELSE SlotAfter(head', size'))
    <3>1. tail = SlotAfter(head, size)
      BY <2>1, <2>4 DEF RingInv
    <3>2. size' \in 0..(MAX_SIZE - 1) /\ size' + 1 = size
      BY <2>1, <2>2
    <3> QED BY <2>2, <2>3, <3>1, <3>2
  <2>6. ASSUME NEW i \in Slots
        PROVE  (vecs'[i] # NoCall) <=> \E n \in 0..(size' - 1) : i = SlotAfter(head', n)
    <3>1. (\E n \in 0..(size' - 1) : i = SlotAfter(head', n))
              <=> \E n \in 1..(size - 1) : i = SlotAfter(head, n)
      <4>1. ASSUME NEW n \in 0..(size' - 1), i = SlotAfter(head', n)
            PROVE  n + 1 \in 1..(size - 1) /\ i = SlotAfter(head, n + 1)
        BY <4>1, <2>1, <2>2, <2>3
      <4>2. ASSUME NEW n \in 1..(size - 1), i = SlotAfter(head, n)
            PROVE  n - 1 \in 0..(size' - 1) /\ i = SlotAfter(head', n - 1)
        <5>1. n - 1 \in 0..(MAX_SIZE - 1) /\ (n - 1) + 1 = n /\ n - 1 \in 0..(size' - 1)
          BY <2>1, <2>2
        <5>2. SlotAfter(head', n - 1) = SlotAfter(head, (n - 1) + 1)
          BY <2>3, <5>1
        <5> QED BY <4>2, <5>1, <5>2
      <4> QED BY <4>1, <4>2
    <3>2. (\E n \in 1..(size - 1) : i = SlotAfter(head, n))
              <=> i # head /\ \E n \in 0..(size - 1) : i = SlotAfter(head, n)
      <4>1. ASSUME NEW n \in 1..(size - 1) PROVE SlotAfter(head, n) # head
        BY <2>1 DEF SlotAfter, Slots
      <4>2. 1..(size - 1) = (0..(size - 1)) \ {0}
        BY <2>1
      <4> QED BY <4>1, <4>2, <2>4
    <3>3. (vecs'[i] # NoCall) <=> i # head /\ vecs[i] # NoCall
      BY <2>1, <2>2 DEF TypeOK
    <3> QED BY <3>1, <3>2, <3>3 DEF RingInv
  <2> QED BY <2>5, <2>6 DEF RingInv, SlotAfter
<1>4. ASSUME NEW t \in Threads, NEW c, Begin(t, c) PROVE RingInv'
  BY <1>4, <1>1 DEF Begin, ringVars
<1>5. ASSUME NEW t \in Producers, WaitToWrite(t) \/ RefuseToWrite(t) PROVE RingInv'
  BY <1>5, <1>1 DEF WaitToWrite, RefuseToWrite, ringVars
<1>6. ASSUME NEW t \in Workers, WaitToRead(t) \/ RefuseToRead(t) PROVE RingInv'
  BY <1>6, <1>1 DEF WaitToRead, RefuseToRead, ringVars
<1>7. ASSUME (\E t \in Threads : SpuriousWake(t)) \/ UNCHANGED vars PROVE RingInv'
  BY <1>7, <1>1 DEF SpuriousWake, ringVars, vars
<1> QED
  BY <1>2, <1>3, <1>4, <1>5, <1>6, <1>7, Zenon DEF Steps, Threads

(* Each action wakes those whose wait it ends. *)
LEMMA WakeStep ==
  ASSUME TypeOK, NoLostWakeup, Steps
  PROVE  NoLostWakeup'
<1> USE DEF NoLostWakeup
<1>1. ASSUME NEW t \in Threads, NEW c, c # NoCall, Begin(t, c) PROVE NoLostWakeup'
  BY <1>1 DEF Begin, TypeOK, Threads
<1>2. ASSUME NEW t \in Producers, Push(t) PROVE NoLostWakeup'
  BY <1>2 DEF Push, is_full, Return, Running, NotifyAll, TypeOK, Threads
<1>3. ASSUME NEW t \in Producers, WaitToWrite(t) PROVE NoLostWakeup'
  BY <1>3 DEF WaitToWrite, is_full, Running
<1>4. ASSUME NEW t \in Producers, RefuseToWrite(t) PROVE NoLostWakeup'
  BY <1>4 DEF RefuseToWrite, Return, Running, NotifyAll, TypeOK, Threads
<1>5. ASSUME NEW t \in Workers, Pop(t) PROVE NoLostWakeup'
  BY <1>5 DEF Pop, is_empty, Return, Running, NotifyAll, TypeOK, Threads
<1>6. ASSUME NEW t \in Workers, WaitToRead(t) PROVE NoLostWakeup'
  BY <1>6 DEF WaitToRead, is_empty, Running
<1>7. ASSUME NEW t \in Workers, RefuseToRead(t) PROVE NoLostWakeup'
  BY <1>7 DEF RefuseToRead, Return, Running, NotifyAll, TypeOK, Threads
<1>8. ASSUME NEW t \in Threads, SpuriousWake(t) PROVE NoLostWakeup'
  BY <1>8 DEF SpuriousWake
<1>9. CASE UNCHANGED vars
  BY <1>9 DEF vars
<1> HIDE DEF NoLostWakeup
<1> QED
  BY <1>1, <1>2, <1>3, <1>4, <1>5, <1>6, <1>7, <1>8, <1>9, CallFacts, Zenon DEF Steps, Threads

(* The invariant holds of the empty queue. *)
LEMMA InvInit == Init => IInv
<1> SUFFICES ASSUME Init PROVE IInv
  OBVIOUS
<1>1. TypeOK
  BY QueueAssumption, CallFacts DEF Init, TypeOK, Slots, Threads
<1>2. RingInv
  BY QueueAssumption DEF Init, RingInv, Slots, SlotAfter
<1>3. NoLostWakeup
  BY DEF Init, NoLostWakeup
<1> QED BY <1>1, <1>2, <1>3 DEF IInv

(* Every step keeps the invariant. *)
LEMMA InvStep == IInv /\ [Next]_vars => IInv'
BY NextIsSteps, TypeStep, RingStep, WakeStep DEF IInv

(* The invariant holds always. *)
LEMMA Inv == Spec => []IInv
<1> QED BY InvInit, InvStep, PTL DEF Spec

(* Every variable of the queue has its type. *)
THEOREM TypeCorrect == Spec => []TypeOK
<1>1. IInv => TypeOK
  BY DEF IInv
<1> QED BY <1>1, Inv, PTL

(***************************************************************************)
(* The slots that hold an element are the size_ slots from head_ on, and    *)
(* tail_ is the slot after them: Enqueue overwrites no element and Dequeue  *)
(* takes none twice, when head_ and tail_ come round and when they meet.    *)
(***************************************************************************)
THEOREM RingCorrect == Spec => []RingInv
<1>1. IInv => RingInv
  BY DEF IInv
<1> QED BY <1>1, Inv, PTL

(***************************************************************************)
(* No thread waits for room while there is room, or for an element while    *)
(* there is one: the notify_all of Enqueue and Dequeue reach every wait     *)
(* that they end.                                                           *)
(***************************************************************************)
THEOREM WakeupsCorrect == Spec => []NoLostWakeup
<1>1. IInv => NoLostWakeup
  BY DEF IInv
<1> QED BY <1>1, Inv, PTL

-----------------------------------------------------------------------------
(* The elements are values, in the slots RingInv says they are in. *)
ElementsAreValues ==
    /\ Elements \in Seq(Values) /\ Len(Elements) = size
    /\ \A n \in 1..size : Elements[n] = vecs[SlotAfter(head, n - 1)]

(* The elements are as the ring says. *)
LEMMA ElementFacts == TypeOK /\ RingInv => ElementsAreValues
<1> SUFFICES ASSUME TypeOK, RingInv PROVE ElementsAreValues
  OBVIOUS
<1>1. size \in 0..MAX_SIZE /\ head \in Slots /\ MAX_SIZE \in Nat
  BY QueueAssumption DEF TypeOK
<1>2. ASSUME NEW n \in 1..size PROVE vecs[SlotAfter(head, n - 1)] \in Values
  <2>1. n - 1 \in 0..(size - 1) /\ n - 1 \in 0..MAX_SIZE
    BY <1>1
  <2>2. SlotAfter(head, n - 1) \in Slots
    BY <1>1, <2>1, SlotFacts
  <2>3. vecs[SlotAfter(head, n - 1)] # NoCall
    BY <2>1, <2>2 DEF RingInv
  <2> QED BY <2>2, <2>3 DEF TypeOK
<1> QED BY <1>1, <1>2 DEF Elements, ElementsAreValues

(* A Push puts its value behind the elements that wait. *)
LEMMA PushIsPut ==
  ASSUME IInv, NEW t \in Producers, Push(t), IInv'
  PROVE  Promise!Put(t)
<1> USE DEF IInv
<1>1. /\ call[t] \in Puts /\ call[t].val \in Values
      /\ size \in 0..(MAX_SIZE - 1) /\ size' = size + 1 /\ head' = head /\ head \in Slots
      /\ tail = SlotAfter(head, size) /\ tail \in Slots /\ MAX_SIZE \in Nat
      /\ vecs' = [vecs EXCEPT ![tail] = call[t].val]
  BY CallFacts, QueueAssumption DEF Push, is_full, TypeOK, RingInv
<1>2. Elements \in Seq(Values) /\ Len(Elements) = size
      /\ \A n \in 1..size : Elements[n] = vecs[SlotAfter(head, n - 1)]
  BY ElementFacts DEF ElementsAreValues
<1>3. Elements' \in Seq(Values) /\ Len(Elements') = size'
      /\ \A n \in 1..size' : Elements'[n] = vecs'[SlotAfter(head', n - 1)]
  <2>1. (TypeOK /\ RingInv => ElementsAreValues)'
    BY ElementFacts, PTL
  <2> QED BY <2>1 DEF ElementsAreValues, SlotAfter
<1>4. ASSUME NEW n \in 1..size' PROVE Elements'[n] = Append(Elements, call[t].val)[n]
  <2>1. CASE n = size'
    <3>1. n - 1 = size /\ vecs'[tail] = call[t].val
      BY <2>1, <1>1 DEF TypeOK
    <3> QED BY <2>1, <3>1, <1>1, <1>2, <1>3
  <2>2. CASE n # size'
    <3>1. n \in 1..size /\ n - 1 \in 0..MAX_SIZE /\ size \in 0..MAX_SIZE /\ n - 1 # size
      BY <2>2, <1>1
    <3>2. SlotAfter(head, n - 1) # tail /\ SlotAfter(head, n - 1) \in Slots
      BY <3>1, <1>1 DEF SlotAfter, Slots
    <3>3. vecs'[SlotAfter(head, n - 1)] = vecs[SlotAfter(head, n - 1)]
      BY <3>2, <1>1 DEF TypeOK
    <3>4. Append(Elements, call[t].val)[n] = Elements[n]
      BY <3>1, <1>2
    <3> QED BY <3>1, <3>3, <3>4, <1>1, <1>2, <1>3
  <2> QED BY <2>1, <2>2
<1>5. Elements' = Append(Elements, call[t].val)
  <2>1. Append(Elements, call[t].val) \in Seq(Values) /\ Len(Append(Elements, call[t].val)) = size'
    BY <1>1, <1>2
  <2> QED BY <2>1, <1>3, <1>4, SeqEqual
<1>6. Len(Elements) < MAX_SIZE
  BY <1>1, <1>2
<1>7. call' = [call EXCEPT ![t] = NoCall] /\ ret' = [ret EXCEPT ![t] = "true"]
  BY DEF Push, Return
<1> QED BY <1>1, <1>5, <1>6, <1>7 DEF Promise!Put, Promise!Puts, Promise!Return, Puts

(* A Pop takes the element that has waited longest. *)
LEMMA PopIsTake ==
  ASSUME IInv, NEW t \in Workers, Pop(t), IInv'
  PROVE  Promise!Take(t)
<1> USE DEF IInv
<1>1. /\ call[t] \in Takes
      /\ size \in 1..MAX_SIZE /\ size' = size - 1 /\ head \in Slots /\ head' = Advance(head)
      /\ MAX_SIZE \in Nat
      /\ vecs' = [vecs EXCEPT ![head] = NoCall]
  BY QueueAssumption DEF Pop, is_empty, TypeOK
<1>2. Elements \in Seq(Values) /\ Len(Elements) = size
      /\ \A n \in 1..size : Elements[n] = vecs[SlotAfter(head, n - 1)]
  BY ElementFacts DEF ElementsAreValues
<1>3. Elements' \in Seq(Values) /\ Len(Elements') = size'
      /\ \A n \in 1..size' : Elements'[n] = vecs'[SlotAfter(head', n - 1)]
  <2>1. (TypeOK /\ RingInv => ElementsAreValues)'
    BY ElementFacts, PTL
  <2> QED BY <2>1 DEF ElementsAreValues, SlotAfter
<1>4. ASSUME NEW n \in 1..size' PROVE Elements'[n] = Tail(Elements)[n]
  <2>1. /\ n \in 1..(size - 1) /\ n \in 0..(MAX_SIZE - 1)
        /\ n - 1 \in 0..(MAX_SIZE - 1) /\ (n - 1) + 1 = n
    BY <1>1
  <2>2. SlotAfter(head', n - 1) = SlotAfter(head, n)
    BY <2>1, <1>1, SlotFacts
  <2>3. SlotAfter(head, n) # head /\ SlotAfter(head, n) \in Slots
    BY <2>1, <1>1 DEF SlotAfter, Slots
  <2>4. vecs'[SlotAfter(head, n)] = vecs[SlotAfter(head, n)]
    BY <2>3, <1>1 DEF TypeOK
  <2>5. Tail(Elements)[n] = Elements[n + 1] /\ n + 1 \in 1..size /\ (n + 1) - 1 = n
    BY <2>1, <1>1, <1>2
  <2>6. Elements[n + 1] = vecs[SlotAfter(head, n)]
    BY <2>5, <1>2
  <2> QED BY <2>2, <2>4, <2>5, <2>6, <1>3
<1>5. Elements' = Tail(Elements)
  <2>1. Tail(Elements) \in Seq(Values) /\ Len(Tail(Elements)) = size'
    BY <1>1, <1>2
  <2> QED BY <2>1, <1>3, <1>4, SeqEqual
<1>6. Elements # <<>> /\ Head(Elements) = vecs[head]
  <2>1. SlotAfter(head, 0) = head
    BY <1>1 DEF SlotAfter, Slots
  <2> QED BY <2>1, <1>1, <1>2
<1>7. call' = [call EXCEPT ![t] = NoCall] /\ ret' = [ret EXCEPT ![t] = vecs[head]]
  BY DEF Pop, Return
<1> QED BY <1>1, <1>5, <1>6, <1>7 DEF Promise!Take, Promise!Takes, Promise!Return, Takes

(* Every step of the queue is one of the channel, or changes nothing there. *)
LEMMA StepImplements ==
  ASSUME IInv, [Next]_vars, IInv'
  PROVE  [Promise!Next]_(Promise!vars)
<1> USE DEF IInv
<1>1. ASSUME UNCHANGED <<vecs, head, size, call, ret>> PROVE UNCHANGED Promise!vars
  BY <1>1 DEF Promise!vars, Elements, SlotAfter
<1>2. ASSUME UNCHANGED <<vecs, head, size>> PROVE Elements' = Elements
  BY <1>2 DEF Elements, SlotAfter
<1>3. ASSUME NEW t \in Threads, NEW c \in Puts \cup Takes, Begin(t, c) PROVE Promise!Next
  <2>1. Promise!Begin(t)
    BY <1>2, <1>3 DEF Begin, Promise!Begin, Promise!Puts, Promise!Takes, Puts, Takes
  <2> QED BY <2>1 DEF Promise!Next
<1>4. ASSUME NEW t \in Producers, Push(t) PROVE Promise!Next
  BY <1>4, PushIsPut DEF Promise!Next, Threads
<1>5. ASSUME NEW t \in Workers, Pop(t) PROVE Promise!Next
  BY <1>5, PopIsTake DEF Promise!Next, Threads
<1>6. ASSUME NEW t \in Producers, RefuseToWrite(t) PROVE Promise!Next
  <2>1. Len(Elements) = MAX_SIZE /\ Elements' = Elements
    BY <1>2, <1>6, ElementFacts DEF RefuseToWrite, is_full, ElementsAreValues
  <2>2. Promise!Refuse(t)
    BY <1>6, <2>1 DEF RefuseToWrite, Return, Promise!Refuse, Promise!Puts, Puts, Promise!Return
  <2> QED BY <2>2 DEF Promise!Next, Threads
<1>7. ASSUME NEW t \in Workers, RefuseToRead(t) PROVE Promise!Next
  <2>1. Elements = <<>> /\ Elements' = Elements
    BY <1>2, <1>7, ElementFacts DEF RefuseToRead, is_empty, ElementsAreValues
  <2>2. Promise!Refuse(t)
    BY <1>7, <2>1 DEF RefuseToRead, Return, Promise!Refuse, Promise!Takes, Takes, Promise!Return
  <2> QED BY <2>2 DEF Promise!Next, Threads
<1>8. ASSUME \/ \E t \in Producers : WaitToWrite(t)
             \/ \E t \in Workers : WaitToRead(t)
             \/ \E t \in Threads : SpuriousWake(t)
             \/ UNCHANGED vars
      PROVE  UNCHANGED Promise!vars
  BY <1>1, <1>8 DEF WaitToWrite, WaitToRead, SpuriousWake, vars
<1>9. Steps
  BY NextIsSteps
<1> HIDE DEF IInv
<1> QED
  BY <1>3, <1>4, <1>5, <1>6, <1>7, <1>8, <1>9, Zenon DEF Steps, Threads

(***************************************************************************)
(* The queue implements a bounded first-in first-out channel: each call of  *)
(* Enqueue or Dequeue takes effect at one moment between its start and its  *)
(* return, or is refused when the ring is full or empty.                    *)
(***************************************************************************)
THEOREM QueueImplementsChannel == Spec => ImplementsChannel
<1>1. Init => Promise!Init
  BY DEF Init, Promise!Init, Elements
<1>2. IInv /\ [Next]_vars /\ IInv' => [Promise!Next]_(Promise!vars)
  BY StepImplements
<1> QED BY <1>1, <1>2, Inv, PTL DEF Spec, ImplementsChannel, Promise!Spec
==============================================================================
