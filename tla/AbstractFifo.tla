---------------------------- MODULE AbstractFifo ----------------------------
(***************************************************************************)
(* What QueueEnqueue and QueueDequeue promise: the partial list of a size  *)
(* class is a first-in first-out sequence, every operation takes effect at *)
(* one instant, and a dequeue answers with nothing only when the sequence  *)
(* is empty at that instant.                                               *)
(***************************************************************************)
EXTENDS Sequences

CONSTANTS Threads, Values, NULL

VARIABLES
  items,     (* the values enqueued and not yet dequeued, oldest first     *)
  answer     (* what the last dequeue of every thread found                *)

vars == <<items, answer>>

Init == items = <<>> /\ answer = [t \in Threads |-> NULL]

Put(v) == items' = Append(items, v) /\ UNCHANGED answer

Take(t) ==
  /\ items # <<>>
  /\ answer' = [answer EXCEPT ![t] = Head(items)]
  /\ items' = Tail(items)

TakeNothing(t) ==
  /\ items = <<>>
  /\ answer' = [answer EXCEPT ![t] = NULL]
  /\ UNCHANGED items

Next ==
  \/ \E v \in Values : Put(v)
  \/ \E t \in Threads : Take(t) \/ TakeNothing(t)

Spec == Init /\ [][Next]_vars
=============================================================================
