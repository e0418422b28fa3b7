----------------------------- MODULE FifoQueue -----------------------------
(***************************************************************************)
(* What base::BoundedQueue promises: a FIFO of at most capacity elements.  *)
(* out[t] is the element the last successful Dequeue of thread t returned. *)
(***************************************************************************)
EXTENDS Naturals, Sequences

CONSTANT Values

VARIABLES q, out, capacity

vars == <<q, out, capacity>>

Init == q = <<>>

Put(v) ==
  /\ Len(q) < capacity
  /\ q' = Append(q, v)
  /\ UNCHANGED out

Get(t) ==
  /\ q # <<>>
  /\ q' = Tail(q)
  /\ out' = [out EXCEPT ![t] = Head(q)]

Next ==
  /\ (\E v \in Values : Put(v)) \/ (\E t \in DOMAIN out : Get(t))
  /\ UNCHANGED capacity

Spec == Init /\ [][Next]_vars
=============================================================================
