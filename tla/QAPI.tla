-------------------------------- MODULE QAPI --------------------------------
(***************************************************************************)
(* src/src/QAPI.h: the two ends of a queue between threads.  CreateQueue   *)
(* makes one Sender and one Receiver, which can be copied; all of them     *)
(* share the queue.  A queue without a wait_and_pop of its own gets one,   *)
(* a loop around pop that looks at the clock between two tries.            *)
(*                                                                         *)
(* The queues themselves come with the library q; push and pop are atomic, *)
(* as the tests use them: several ends of a kind only where it allows so.  *)
(* The n-th item pushed is called n.                                       *)
(***************************************************************************)
EXTENDS Integers, Sequences, FiniteSets

CONSTANTS
  Senders, Receivers,
  Capacity,     \* what the queue was created with
  Natives,      \* whether the queue has a wait_and_pop of its own, a set
  Waits,        \* the max_wait of calls, in milliseconds
  TicksPerMs,   \* steps of the clock in one millisecond
  MaxItems      \* bound: items pushed

ASSUME EndsAssumptions ==
  /\ Senders # {} /\ Receivers # {} /\ Senders \cap Receivers = {}
  /\ Natives \subseteq BOOLEAN
  /\ Waits \subseteq Nat /\ IsFiniteSet(Waits)
  /\ Capacity \in Nat \ {0} /\ TicksPerMs \in Nat \ {0}
  /\ MaxItems \in Nat

VARIABLES
  native,    \* the queue has its own wait_and_pop, from the start to the end
  ends,      \* each Sender and Receiver: "new", "alive" or "gone"
  pushed,    \* items pushed
  queue,     \* items in the queue
  rpc,       \* a Receiver: "idle", "trying" or "sleeping" in the loop, "waiting" in the queue's own
  max_wait,  \* the argument of the wait_and_pop in progress
  elapsed,   \* its clock, in ticks
  popped     \* history: what pop and wait_and_pop returned with true, to whom

waiting == <<rpc, max_wait, elapsed>>
endsVars == <<native, ends, pushed, queue, waiting, popped>>

Ends == Senders \cup Receivers
Alive(e) == ends[e] = "alive"

EndsInit ==
  /\ native \in Natives
  /\ \E s \in Senders, r \in Receivers :
       ends = [e \in Ends |-> IF e \in {s, r} THEN "alive" ELSE "new"]
  /\ pushed = 0 /\ queue = <<>>
  /\ rpc = [r \in Receivers |-> "idle"]
  /\ max_wait = [r \in Receivers |-> 0]
  /\ elapsed = [r \in Receivers |-> 0]
  /\ popped = <<>>

-----------------------------------------------------------------------------
(* The ends *)

SameKind(e, f) == e \in Senders <=> f \in Senders

\* A copy shares the queue.
Copy(e, f) ==
  /\ Alive(e) /\ ends[f] = "new" /\ SameKind(e, f)
  /\ ends' = [ends EXCEPT ![f] = "alive"]
  /\ UNCHANGED <<native, pushed, queue, waiting, popped>>

\* Mutant of Release: the Sender owns the queue.
ReleaseQueue(e) ==
  /\ Alive(e)
  /\ e \in Receivers => rpc[e] = "idle"
  /\ ends' = [ends EXCEPT ![e] = "gone"]
  /\ queue' = IF e \in Senders THEN <<>> ELSE queue
  /\ UNCHANGED <<native, pushed, waiting, popped>>

\* An end is destroyed.  The queue lives, with what is in it, as long as one is left;
\* after the last there is nobody to see it.
Release(e) ==
  /\ Alive(e)
  /\ e \in Receivers => rpc[e] = "idle"
  /\ ends' = [ends EXCEPT ![e] = "gone"]
  /\ UNCHANGED <<native, pushed, queue, waiting, popped>>

\* Mutant of Push: the result of a push to a full queue is not looked at.
PushOver(s) ==
  /\ Alive(s)
  /\ pushed < MaxItems
  /\ pushed' = pushed + 1
  /\ queue' = IF Len(queue) < Capacity THEN Append(queue, pushed') ELSE queue
  /\ UNCHANGED <<native, ends, waiting, popped>>

\* push; with a full queue it returns false and nothing changes.
Push(s) ==
  /\ Alive(s)
  /\ pushed < MaxItems
  /\ Len(queue) < Capacity
  /\ pushed' = pushed + 1
  /\ queue' = Append(queue, pushed')
  /\ UNCHANGED <<native, ends, waiting, popped>>

-----------------------------------------------------------------------------
(* Receiving *)

\* The caller is given the item at the head.
Take(r) ==
  /\ queue # <<>>
  /\ queue' = Tail(queue)
  /\ popped' = Append(popped, [item |-> Head(queue), by |-> r])
  /\ UNCHANGED <<native, ends, pushed>>

\* pop; with an empty queue it returns false and nothing changes.
Pop(r) ==
  /\ Alive(r) /\ rpc[r] = "idle"
  /\ Take(r)
  /\ UNCHANGED waiting

\* wait_and_pop begins: match_call takes the queue's own, or wrapper.
WaitAndPop(r, ms) ==
  /\ Alive(r) /\ rpc[r] = "idle"
  /\ rpc' = [rpc EXCEPT ![r] = IF native THEN "waiting" ELSE "trying"]
  /\ max_wait' = [max_wait EXCEPT ![r] = ms]
  /\ elapsed' = [elapsed EXCEPT ![r] = 0]
  /\ UNCHANGED <<native, ends, pushed, queue, popped>>

\* Mutant of TimeIsOver: ticks are compared with milliseconds.
TimeIsOverTicks(r) == elapsed[r] > max_wait[r]

\* elapsed_ms > max_wait, the duration being cut to whole milliseconds.
TimeIsOver(r) == elapsed[r] \div TicksPerMs > max_wait[r]

\* Mutant of TryPop: the clock is looked at before the result.
TryPopLate(r) ==
  /\ rpc[r] = "trying"
  /\ rpc' = [rpc EXCEPT ![r] = IF queue = <<>> THEN "sleeping" ELSE "idle"]
  /\ IF queue = <<>> \/ TimeIsOver(r)
       THEN UNCHANGED popped
       ELSE popped' = Append(popped, [item |-> Head(queue), by |-> r])
  /\ queue' = IF queue = <<>> THEN queue ELSE Tail(queue)
  /\ UNCHANGED <<native, ends, pushed, max_wait, elapsed>>

\* One try of wrapper's loop: the pop succeeds and true is returned, or it fails.
TryPop(r) ==
  /\ rpc[r] = "trying"
  /\ \/ Take(r) /\ rpc' = [rpc EXCEPT ![r] = "idle"]
     \/ /\ queue = <<>>
        /\ rpc' = [rpc EXCEPT ![r] = "sleeping"]
        /\ UNCHANGED <<native, ends, pushed, queue, popped>>
  /\ UNCHANGED <<max_wait, elapsed>>

\* Mutant of Slept: without a look at the clock.
SleptForever(r) ==
  /\ rpc[r] = "sleeping"
  /\ rpc' = [rpc EXCEPT ![r] = "trying"]
  /\ UNCHANGED <<native, ends, pushed, queue, max_wait, elapsed, popped>>

\* The sleep after it is over: false is returned, without another look at the queue,
\* or the loop goes on.
Slept(r) ==
  /\ rpc[r] = "sleeping"
  /\ rpc' = [rpc EXCEPT ![r] = IF TimeIsOver(r) THEN "idle" ELSE "trying"]
  /\ UNCHANGED <<native, ends, pushed, queue, max_wait, elapsed, popped>>

\* The queue's own wait_and_pop: it returns an item, or false at the end of its wait.
NativeWait(r) ==
  /\ rpc[r] = "waiting"
  /\ rpc' = [rpc EXCEPT ![r] = "idle"]
  /\ \/ Take(r)
     \/ /\ queue = <<>>
        /\ elapsed[r] >= max_wait[r] * TicksPerMs
        /\ UNCHANGED <<native, ends, pushed, queue, popped>>
  /\ UNCHANGED <<max_wait, elapsed>>

\* The steady clock goes on for the calls in progress.  Once a call is over time the
\* exact time makes no difference.
Tick ==
  /\ \E r \in Receivers : rpc[r] # "idle" /\ ~TimeIsOver(r)
  /\ elapsed' = [r \in Receivers |->
                   IF rpc[r] # "idle" /\ ~TimeIsOver(r) THEN elapsed[r] + 1 ELSE elapsed[r]]
  /\ UNCHANGED <<native, ends, pushed, queue, rpc, max_wait, popped>>

-----------------------------------------------------------------------------
EndStep(e) ==
  \/ Release(e)
  \/ \E f \in Ends : Copy(e, f)

ReceiverStep(r) ==
  \/ Pop(r)
  \/ \E ms \in Waits : WaitAndPop(r, ms)
  \/ TryPop(r) \/ Slept(r) \/ NativeWait(r)

EndsNext ==
  \/ \E e \in Ends : EndStep(e)
  \/ \E s \in Senders : Push(s)
  \/ \E r \in Receivers : ReceiverStep(r)
  \/ Tick

EndsSpec == EndsInit /\ [][EndsNext]_endsVars

\* The threads of the Receivers run, keep asking with wait_and_pop, and time passes.
EndsFairness ==
  /\ \A r \in Receivers :
       /\ WF_endsVars(TryPop(r)) /\ WF_endsVars(Slept(r)) /\ WF_endsVars(NativeWait(r))
       /\ WF_endsVars(\E ms \in Waits : WaitAndPop(r, ms))
  /\ WF_endsVars(Tick)

FairEndsSpec == EndsSpec /\ EndsFairness

-----------------------------------------------------------------------------
(* Properties *)

\* Every variable has its type.
EndsTypeOK ==
  /\ native \in BOOLEAN
  /\ ends \in [Ends -> {"new", "alive", "gone"}]
  /\ pushed \in Nat
  /\ queue \in Seq(1..pushed) /\ Len(queue) <= Capacity
  /\ rpc \in [Receivers -> {"idle", "trying", "sleeping", "waiting"}]
  /\ max_wait \in [Receivers -> Nat]
  /\ elapsed \in [Receivers -> Nat]
  /\ popped \in Seq([item : 1..pushed, by : Receivers])

\* However the calls of all ends interleave, with each other and with the clock, the
\* ends are one queue: in order, nothing given to two callers, nothing swallowed by a
\* call that returned false or by an end that went away.
SharedQueue == INSTANCE BoundedQueue WITH
           Lossy <- FALSE, ends <- {e \in Ends : Alive(e)},
           put <- pushed, inside <- queue,
           taken <- [i \in DOMAIN popped |-> popped[i].item]
EndsImplementQueue == SharedQueue!Spec

\* A wait_and_pop of wrapper's that comes back with nothing has waited longer than it
\* was asked to, in milliseconds: a late item has all that time to come.
EmptyHandedIsLate ==
  [][\A r \in Receivers :
       rpc[r] \in {"trying", "sleeping"} /\ rpc'[r] = "idle" /\ popped' = popped
         => elapsed[r] > max_wait[r] * TicksPerMs]_endsVars

\* wait_and_pop returns, also when other Receivers take every item in front of it; and
\* what was pushed is taken while there is a Receiver.
WaitEnds ==
  /\ \A r \in Receivers : rpc[r] # "idle" ~> rpc[r] = "idle"
  /\ \A n \in 1..MaxItems :
       n <= pushed ~> \/ \E i \in DOMAIN popped : popped[i].item = n
                     \/ \A r \in Receivers : ~Alive(r)
=============================================================================
