---------------------------- MODULE ChunkStream ----------------------------
(***************************************************************************)
(* What one Kraken and one Harpoon promise each other, with no queue, no   *)
(* frame and no request in sight: a stream of items that come out in the   *)
(* order they went in, each of them exactly once, never more than Window   *)
(* of them ahead of the reader, and in which an end marker takes its place *)
(* in the window for good.  With Window = 1, the value the code is built   *)
(* with, nothing can be sent behind an end marker.                         *)
(*                                                                         *)
(* KrakenHarpoon implements it when there is one Harpoon and no fault.     *)
(***************************************************************************)
EXTENDS Naturals, Sequences, FiniteSets

CONSTANT Window   \* how far the sender may run ahead of the reader

VARIABLES
  sent,       \* the items the sender was told are on their way, oldest first
  delivered   \* the items the reader got, oldest first

vars == <<sent, delivered>>

\* An item is a record with a field len; an empty one marks the end.
IsEnd(item) == item.len = 0

\* The places of the window in use: items not delivered yet, and end markers.
Occupied == {i \in DOMAIN sent : i > Len(delivered) \/ IsEnd(sent[i])}

Init == sent = <<>> /\ delivered = <<>>

Send ==
  /\ Cardinality(Occupied) < Window
  /\ Len(sent') = Len(sent) + 1
  /\ SubSeq(sent', 1, Len(sent)) = sent
  /\ UNCHANGED delivered

Deliver ==
  /\ Len(delivered) < Len(sent)
  /\ delivered' = Append(delivered, sent[Len(delivered) + 1])
  /\ UNCHANGED sent

Next == Send \/ Deliver

Spec == Init /\ [][Next]_vars
=============================================================================
