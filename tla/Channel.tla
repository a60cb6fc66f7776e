------------------------------ MODULE Channel ------------------------------
(***************************************************************************)
(* What ThreadSafeQueue promises its callers: a first-in first-out channel  *)
(* of bounded length.  A call is made, and at one point before it returns   *)
(* it takes effect; a call that does not block is refused only at a point   *)
(* at which the channel is full (to put) or empty (to take).                *)
(***************************************************************************)
EXTENDS Naturals, Sequences

CONSTANTS Threads, Values, Capacity, NoCall

VARIABLES
    chan,   \* the values in the channel, the oldest first
    call,   \* the call each thread is in, or NoCall
    ret     \* what the call a thread has made last has returned

vars == <<chan, call, ret>>

Puts == [op : {"Enqueue", "TryEnqueue"}, val : Values]
Takes == [op : {"Dequeue", "TryDequeue"}]

Init ==
    /\ chan = << >>
    /\ call = [t \in Threads |-> NoCall]
    /\ ret = [t \in Threads |-> NoCall]

Return(t, r) ==
    /\ call' = [call EXCEPT ![t] = NoCall]
    /\ ret' = [ret EXCEPT ![t] = r]

Begin(t) ==
    /\ call[t] = NoCall
    /\ \E c \in Puts \cup Takes : call' = [call EXCEPT ![t] = c]
    /\ ret' = [ret EXCEPT ![t] = NoCall]
    /\ UNCHANGED chan

Put(t) ==
    /\ call[t] \in Puts
    /\ Len(chan) < Capacity
    /\ chan' = Append(chan, call[t].val)
    /\ Return(t, "true")

Take(t) ==
    /\ call[t] \in Takes
    /\ chan # << >>
    /\ chan' = Tail(chan)
    /\ Return(t, Head(chan))

Refuse(t) ==
    /\ \/ call[t] \in Puts /\ call[t].op = "TryEnqueue" /\ Len(chan) = Capacity
       \/ call[t] \in Takes /\ call[t].op = "TryDequeue" /\ chan = << >>
    /\ Return(t, "false")
    /\ UNCHANGED chan

Next == \E t \in Threads : Begin(t) \/ Put(t) \/ Take(t) \/ Refuse(t)

Spec == Init /\ [][Next]_vars
=============================================================================
