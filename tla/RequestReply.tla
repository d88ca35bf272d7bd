---------------------------- MODULE RequestReply ----------------------------
(***************************************************************************)
(* What a pair that answers hits promises to those who hit: a caller has   *)
(* one request at a time; a request is answered at most once, not after it *)
(* was lost, and only to its caller, if that still waits for it; an answer *)
(* on its way is taken, unless the caller gives up.                        *)
(*                                                                         *)
(* CrowbarHeadcrab implements it.                                          *)
(***************************************************************************)
EXTENDS Naturals, Sequences

CONSTANT Callers

VARIABLES
  requests,   \* who made each request; the n-th is called n
  waiting,    \* the request each caller waits for the answer to, or 0
  open,       \* the requests that can still be answered
  answers     \* the requests whose answers are on their way

vars == <<requests, waiting, open, answers>>

Init ==
  /\ requests = <<>>
  /\ waiting = [c \in Callers |-> 0]
  /\ open = {} /\ answers = {}

Ask(c) ==
  /\ waiting[c] = 0
  /\ requests' = Append(requests, c)
  /\ waiting' = [waiting EXCEPT ![c] = Len(requests) + 1]
  /\ open' = open \cup {Len(requests) + 1}
  /\ UNCHANGED answers

Answer(n) ==
  /\ n \in open
  /\ open' = open \ {n}
  /\ answers' = answers \cup (IF waiting[requests[n]] = n THEN {n} ELSE {})
  /\ UNCHANGED <<requests, waiting>>

TakeAnswer(c) ==
  /\ waiting[c] \in answers
  /\ waiting' = [waiting EXCEPT ![c] = 0]
  /\ answers' = answers \ {waiting[c]}
  /\ UNCHANGED <<requests, open>>

\* The caller goes away.  Its request is answered all the same, for nobody, or lost.
GiveUp(c) ==
  /\ waiting' = [waiting EXCEPT ![c] = 0]
  /\ answers' = answers \ {waiting[c]}
  /\ open' \in {open, open \ {waiting[c]}}
  /\ UNCHANGED requests

\* Requests are lost, with the one who was to answer them.
Lose ==
  /\ open' \subseteq open
  /\ UNCHANGED <<requests, waiting, answers>>

Next ==
  \/ \E c \in Callers : Ask(c) \/ TakeAnswer(c) \/ GiveUp(c)
  \/ \E n \in open : Answer(n)
  \/ Lose

Spec == Init /\ [][Next]_vars
=============================================================================
