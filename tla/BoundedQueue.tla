---------------------------- MODULE BoundedQueue ----------------------------
(***************************************************************************)
(* What the queues of this library promise their callers: items come out   *)
(* in the order they were put in, each at most once, and never more than   *)
(* Capacity of them are inside.  Ends of the queue come and go.  One that  *)
(* is Lossy can drop what it holds in the step in which an end goes away,  *)
(* all of it or nothing; no other step, and no other queue, drops any.     *)
(*                                                                         *)
(* QAPI implements it without losses, ZeroMQPair with them.                *)
(***************************************************************************)
EXTENDS Naturals, Sequences

CONSTANTS
  Ends,       \* who can be at the queue
  Capacity,   \* how many items the queue holds
  Lossy       \* whether it can drop them

VARIABLES
  ends,       \* who is
  put,        \* how many items were put in; the n-th is called n
  inside,     \* the items in the queue, oldest first
  taken       \* the items taken out, in that order

vars == <<ends, put, inside, taken>>

Init == ends \subseteq Ends /\ put = 0 /\ inside = <<>> /\ taken = <<>>

Put ==
  /\ Len(inside) < Capacity
  /\ put' = put + 1
  /\ inside' = Append(inside, put + 1)
  /\ UNCHANGED <<ends, taken>>

Take ==
  /\ inside # <<>>
  /\ taken' = Append(taken, Head(inside))
  /\ inside' = Tail(inside)
  /\ UNCHANGED <<ends, put>>

Join ==
  /\ \E e \in Ends \ ends : ends' = ends \cup {e}
  /\ UNCHANGED <<put, inside, taken>>

Leave ==
  /\ ends' \in (SUBSET ends) \ {ends}
  /\ \/ UNCHANGED inside
     \/ Lossy /\ inside' = <<>>
  /\ UNCHANGED <<put, taken>>

Next == Put \/ Take \/ Join \/ Leave

Spec == Init /\ [][Next]_vars
=============================================================================
