----------------------------- MODULE QueueProofs -----------------------------
(* Proofs about the two queues between threads, ZeroMQPair and QAPI, for every value of *)
(* their constants: each implements BoundedQueue.                                       *)
EXTENDS ZeroMQPair, QAPI, SequenceTheorems, TLAPS

-----------------------------------------------------------------------------
(* ZeroMQPair: types *)

\* A pointer taken is the head of those on their way; the others keep their places.
LEMMA TakenTypes ==
  ASSUME NEW S, NEW s \in Seq(S), s # <<>>
  PROVE  /\ Head(s) \in S /\ Tail(s) \in Seq(S)
         /\ Len(s) \in Nat /\ Len(s) > 0 /\ Len(Tail(s)) = Len(s) - 1
BY HeadTailProperties, EmptySeq, LenProperties

LEMMA InitTypes == Init => TypeOK
BY Assumptions DEF Assumptions, Init, TypeOK

LEMMA StepKeepsTypes == TypeOK /\ [Next]_vars => TypeOK'
<1> SUFFICES ASSUME TypeOK, [Next]_vars PROVE TypeOK'
  OBVIOUS
<1> USE Assumptions DEF Assumptions, TypeOK, down, up
<1>0. Range(pointers) \subseteq 1..sent
  BY RangeOfSeq DEF Range
<1>1. CASE UNCHANGED vars
  BY <1>1 DEF vars
<1>2. CASE Initialize
  BY <1>2 DEF Initialize
<1>3. CASE WaitForClient
  BY <1>3 DEF WaitForClient
<1>4. CASE ClientIsReady
  BY <1>4 DEF ClientIsReady
<1>5. CASE SendPointer
  BY <1>5 DEF SendPointer
<1>6. CASE PointerSent
  <2> DEFINE S == 1..sent
             T == 1..(sent + 1)
  <2>1. S \subseteq T /\ sent + 1 \in T
    OBVIOUS
  <2>2. pointers \in Seq(T) /\ got \in Seq(T)
    <3>1. pointers \in Seq(S) /\ got \in Seq(S)
      OBVIOUS
    <3> HIDE DEF S, T
    <3>2. QED
      BY <2>1, <3>1, SeqMonotonic
  <2>3. Append(pointers, sent + 1) \in Seq(T) /\ Len(Append(pointers, sent + 1)) = Len(pointers) + 1
    BY <2>1, <2>2
  <2>4. Len(pointers) \in Nat
    BY <2>2
  <2>5. QED
    BY <1>6, <2>1, <2>2, <2>3, <2>4 DEF PointerSent
<1>7. CASE CloseServer \/ ClientIsGone
  <2>1. lost' \subseteq 1..sent' /\ pointers' \in Seq(1..sent') /\ Len(pointers') = 0
    BY <1>0, <1>7, EmptySeq DEF CloseServer, ClientIsGone, LosePointers
  <2>2. QED
    BY <1>7, <2>1 DEF CloseServer, ClientIsGone, LosePointers
<1>8. CASE ServerGone
  BY <1>8 DEF ServerGone
<1>9. CASE ClientInitialize
  BY <1>9 DEF ClientInitialize, Bound, Connect
<1>10. CASE SendClientReady
  BY <1>10 DEF SendClientReady, Bound, Connect
<1>11. CASE ReadySent \/ ReadyRefused
  <2>1. client' \in {"none", "open", "ready"} /\ UNCHANGED <<server, pipe, down>>
        /\ (server' = "none" => client' = "none")
    BY <1>11 DEF ReadySent, ReadyRefused
  <2>2. readies' \in 0..HighWater /\ readied' \in Nat
    BY <1>11 DEF ReadySent, ReadyRefused
  <2>3. QED
    BY <2>1, <2>2
<1>12. CASE GetPointer
  <2> DEFINE S == 1..sent
  <2>1. Head(pointers) \in S /\ Tail(pointers) \in Seq(S)
        /\ Len(pointers) \in Nat /\ Len(Tail(pointers)) = Len(pointers) - 1
    BY <1>12, TakenTypes DEF GetPointer
  <2>2. Append(got, Head(pointers)) \in Seq(S)
    BY <2>1
  <2>3. QED
    BY <1>12, <2>1, <2>2 DEF GetPointer
<1>13. CASE CloseClient
  BY <1>13 DEF CloseClient
<1>14. CASE PipeEnds
  BY <1>14 DEF PipeEnds
<1>15. QED
  BY <1>1, <1>2, <1>3, <1>4, <1>5, <1>6, <1>7, <1>8, <1>9, <1>10, <1>11, <1>12, <1>13, <1>14
     DEF Next, ServerStep, ClientStep

\* The type invariant, for any high water mark and any number of pointers.
THEOREM TypeCorrect == Spec => []TypeOK
BY InitTypes, StepKeepsTypes, PTL DEF Spec

-----------------------------------------------------------------------------
(* ZeroMQPair: the two threads are a queue *)

\* Who is at the queue: the server while it is bound, and the client whose pipe it has.
Present == {e \in {"server", "client"} :
              IF e = "server" THEN Bound ELSE pipe \in {"live", "closed"}}

\* Every step of the two threads is one of a bounded queue, or none at all.
LEMMA StepIsQueueStep == [Next]_vars => [Queue!Next]_Queue!vars
<1> SUFFICES ASSUME [Next]_vars PROVE [Queue!Next]_Queue!vars
  OBVIOUS
<1> USE DEF Queue!Next, Queue!vars, down, up
<1>1. CASE UNCHANGED vars
  BY <1>1 DEF vars, Bound
<1>2. CASE PointerSent
  <2>1. Present' = Present
    BY <1>2 DEF PointerSent, Present, Bound
  <2>2. QED
    BY <1>2, <2>1 DEF PointerSent, Queue!Put, Present
<1>3. CASE GetPointer
  <2>1. Present' = Present
    BY <1>3 DEF GetPointer, Present, Bound
  <2>2. QED
    BY <1>3, <2>1 DEF GetPointer, Queue!Take, Present
<1>4. CASE CloseServer \/ ClientIsGone
  <2>1. Present' \in (SUBSET Present) \ {Present}
    BY <1>4 DEF CloseServer, ClientIsGone, Present, Bound
  <2>2. Queue!Leave
    BY <1>4, <2>1 DEF CloseServer, ClientIsGone, LosePointers, Queue!Leave, Present
  <2>3. QED
    BY <2>2
<1>5. CASE Initialize
  <2>1. "server" \notin Present /\ Present' = Present \cup {"server"}
    BY <1>5 DEF Initialize, Present, Bound
  <2>2. Queue!Join
    BY <1>5, <2>1 DEF Initialize, Queue!Join, Present
  <2>3. QED
    BY <2>2
<1>6. CASE ClientInitialize \/ SendClientReady
  <2>1. UNCHANGED <<server, down>> /\ (UNCHANGED pipe \/ (pipe = "none" /\ pipe' = "live"))
    BY <1>6 DEF ClientInitialize, SendClientReady, Connect
  <2>2. CASE UNCHANGED pipe
    BY <2>1, <2>2 DEF Bound
  <2>3. CASE pipe = "none" /\ pipe' = "live"
    <3>1. "client" \notin Present /\ Present' = Present \cup {"client"}
      BY <2>1, <2>3 DEF Present, Bound
    <3>2. Queue!Join
      BY <2>1, <3>1 DEF Queue!Join, Present
    <3>3. QED
      BY <3>2
  <2>4. QED
    BY <2>1, <2>2, <2>3
<1>7. CASE WaitForClient \/ ClientIsReady \/ SendPointer \/ ServerGone
  <2>1. UNCHANGED <<down, pipe>> /\ Bound' = Bound
    BY <1>7 DEF WaitForClient, ClientIsReady, SendPointer, ServerGone, Bound
  <2>2. QED
    BY <2>1
<1>8. CASE PipeEnds \/ CloseClient \/ ReadySent \/ ReadyRefused
  <2>1. UNCHANGED <<down, server>> /\ (pipe' \in {"live", "closed"}) = (pipe \in {"live", "closed"})
    BY <1>8 DEF PipeEnds, CloseClient, ReadySent, ReadyRefused
  <2>2. QED
    BY <2>1 DEF Bound
<1>9. QED
  BY <1>1, <1>2, <1>3, <1>4, <1>5, <1>6, <1>7, <1>8 DEF Next, ServerStep, ClientStep

\* Server and client, however they come and go: a bounded queue that drops nothing but when
\* one of them goes, and then all it holds (SendPointer, GetPointer and the destructor).
THEOREM PairIsAQueue == Spec => ImplementsQueue
<1>1. Init => Queue!Init
  BY DEF Init, Queue!Init, Bound
<1>2. QED
  BY <1>1, StepIsQueueStep, PTL DEF Spec, ImplementsQueue, Queue!Spec

-----------------------------------------------------------------------------
(* ZeroMQPair: no pointer twice, none vanishes *)

Places(s) == 1..Len(s)
Rising(s) == \A i, j \in Places(s) : i < j => s[i] < s[j]

\* The two parts of PointersOnce, on the sequence of all that can still be had.
LEMMA OnceInParts ==
  ASSUME TypeOK
  PROVE  LET all == got \o pointers IN
         /\ all \in Seq(1..sent)
         /\ PointersOnce <=> /\ Rising(all)
                             /\ lost \cap Range(all) = {}
                             /\ lost \cup Range(all) = 1..sent
<1> DEFINE S == 1..sent
<1>1. got \in Seq(S) /\ pointers \in Seq(S)
  BY DEF TypeOK
<1>2. got \o pointers \in Seq(S)
  BY <1>1, ConcatProperties
<1>3. DOMAIN (got \o pointers) = Places(got \o pointers)
  BY <1>2, LenProperties DEF Places
<1>4. QED
  BY <1>2, <1>3 DEF PointersOnce, Rising

\* One more behind the last of those on their way is one more in all.
LEMMA AppendToAll ==
  ASSUME NEW S, NEW s \in Seq(S), NEW t \in Seq(S), NEW T, NEW x \in T, S \subseteq T
  PROVE  s \o Append(t, x) = Append(s \o t, x)
<1>1. s \in Seq(T) /\ t \in Seq(T)
  BY SeqMonotonic
<1>2. Append(t, x) = t \o <<x>> /\ Append(s \o t, x) = (s \o t) \o <<x>> /\ <<x>> \in Seq(T)
  BY <1>1, AppendIsConcat, ConcatProperties
<1>3. QED
  BY <1>1, <1>2, ConcatAssociative

\* A pointer changes from those on their way to those received: in all, none moves.
LEMMA TakenStays ==
  ASSUME NEW S, NEW s \in Seq(S), NEW t \in Seq(S), t # <<>>
  PROVE  Append(s, Head(t)) \o Tail(t) = s \o t
<1>1. Head(t) \in S /\ Tail(t) \in Seq(S) /\ Len(Tail(t)) = Len(t) - 1 /\ Len(t) \in Nat /\ Len(s) \in Nat
      /\ \A i \in 1..(Len(t) - 1) : Tail(t)[i] = t[i + 1]
  BY HeadTailProperties, LenProperties
<1>2. Append(s, Head(t)) \in Seq(S) /\ Len(Append(s, Head(t))) = Len(s) + 1
  BY <1>1
<1>3. \A i \in 1..(Len(s) + 1) : Append(s, Head(t))[i] = IF i <= Len(s) THEN s[i] ELSE t[1]
  BY <1>1
<1> DEFINE a == Append(s, Head(t)) \o Tail(t)
           b == s \o t
<1>4. a \in Seq(S) /\ Len(a) = Len(s) + Len(t)
      /\ \A i \in 1..(Len(s) + Len(t)) :
           a[i] = IF i <= Len(s) + 1 THEN Append(s, Head(t))[i] ELSE Tail(t)[i - (Len(s) + 1)]
  BY <1>1, <1>2, ConcatProperties
<1>5. b \in Seq(S) /\ Len(b) = Len(s) + Len(t)
      /\ \A i \in 1..(Len(s) + Len(t)) : b[i] = IF i <= Len(s) THEN s[i] ELSE t[i - Len(s)]
  BY <1>1, ConcatProperties
<1>6. ASSUME NEW i \in 1..(Len(s) + Len(t))
      PROVE  a[i] = b[i]
  <2> HIDE DEF a, b
  <2>1. CASE i <= Len(s)
    <3>1. i \in 1..(Len(s) + 1) /\ i <= Len(s) + 1
      BY <1>1, <2>1
    <3>2. a[i] = Append(s, Head(t))[i] /\ b[i] = s[i]
      BY <1>4, <1>5, <2>1, <3>1
    <3>3. QED
      BY <1>3, <2>1, <3>1, <3>2
  <2>2. CASE i = Len(s) + 1
    BY <1>1, <1>3, <1>4, <1>5, <2>2
  <2>3. CASE i > Len(s) + 1
    <3>1. i - (Len(s) + 1) \in 1..(Len(t) - 1)
      BY <1>1, <2>3
    <3>2. Tail(t)[i - (Len(s) + 1)] = t[(i - (Len(s) + 1)) + 1]
      BY <1>1, <3>1
    <3>3. (i - (Len(s) + 1)) + 1 = i - Len(s)
      BY <1>1
    <3>4. a[i] = Tail(t)[i - (Len(s) + 1)]
      <4>1. ~(i <= Len(s) + 1)
        BY <1>1, <2>3
      <4>2. QED
        BY <1>4, <4>1, Zenon
    <3>5. b[i] = t[i - Len(s)]
      BY <1>1, <1>5, <2>3
    <3>6. QED
      BY <3>2, <3>3, <3>4, <3>5
  <2>4. QED
    BY <1>1, <2>1, <2>2, <2>3
<1>7. QED
  <2> HIDE DEF a, b
  <2>1. a = b
    BY <1>4, <1>5, <1>6, SeqEqual
  <2>2. QED
    BY <2>1 DEF a, b

\* Nobody loses, doubles or reorders a pointer.
LEMMA StepKeepsPointers == TypeOK /\ PointersOnce /\ [Next]_vars => PointersOnce'
<1> SUFFICES ASSUME TypeOK, PointersOnce, [Next]_vars PROVE PointersOnce'
  OBVIOUS
<1> DEFINE S == 1..sent
           all == got \o pointers
<1>0. /\ got \in Seq(S) /\ pointers \in Seq(S) /\ sent \in Nat
      /\ all \in Seq(S) /\ Len(all) \in Nat /\ DOMAIN all = Places(all)
      /\ Rising(all)
      /\ lost \cap Range(all) = {} /\ lost \cup Range(all) = S
  BY OnceInParts, LenProperties DEF TypeOK, Places
<1>1. CASE UNCHANGED <<sent, pointers, got, lost>>
  BY <1>1 DEF PointersOnce
<1>2. CASE PointerSent
  <2> DEFINE T == 1..(sent + 1)
             more == got \o Append(pointers, sent + 1)
  <2>1. S \subseteq T /\ sent + 1 \in T
    BY <1>0
  <2>2. more = Append(all, sent + 1)
    BY SMTT(20), <1>0, <2>1, AppendToAll
  <2>3. /\ Len(more) = Len(all) + 1 /\ more \in Seq(T)
        /\ \A i \in 1..(Len(all) + 1) : more[i] = IF i <= Len(all) THEN all[i] ELSE sent + 1
    BY <1>0, <2>1, <2>2
  <2>4. Rising(more)
    BY SMTT(20), <1>0, <2>3, ElementOfSeq DEF Rising, Places
  <2>5. Range(more) = Range(all) \cup {sent + 1}
    <3>1. <<sent + 1>> \in Seq(T) /\ all \in Seq(T) /\ all \o <<sent + 1>> = more
      <4>1. <<sent + 1>> \in Seq(T)
        BY <2>1
      <4>2. all \in Seq(T)
        <5> HIDE DEF S, T, all
        <5>1. QED
          BY <1>0, <2>1, SeqMonotonic
      <4>3. Append(all, sent + 1) = all \o <<sent + 1>>
        <5> HIDE DEF T, all
        <5>1. QED
          BY <2>1, <4>2, AppendIsConcat
      <4>4. QED
        BY <2>2, <4>1, <4>2, <4>3
    <3>2. Range(<<sent + 1>>) = {sent + 1}
      BY DEF Range
    <3>3. Range(all \o <<sent + 1>>) = Range(all) \cup Range(<<sent + 1>>)
      <4> DEFINE one == <<sent + 1>>
      <4>1. one \in Seq(T) /\ all \in Seq(T)
        BY <3>1
      <4> HIDE DEF T, all, one
      <4>2. Range(all \o one) = Range(all) \cup Range(one)
        BY <4>1, RangeConcatenation
      <4>3. QED
        BY <4>2 DEF one
    <3>4. QED
      BY <3>1, <3>2, <3>3
  <2>6. lost \cap Range(more) = {} /\ lost \cup Range(more) = T
    <3>1. sent + 1 \notin S /\ T = S \cup {sent + 1}
      BY <1>0
    <3>2. QED
      BY <1>0, <2>5, <3>1
  <2>7. DOMAIN more = Places(more)
    BY <2>3, LenProperties DEF Places
  <2>8. got' \o pointers' = more /\ lost' = lost /\ sent' = sent + 1
    BY <1>2 DEF PointerSent
  <2>9. QED
    <3> HIDE DEF more
    <3>1. QED
      BY <2>4, <2>6, <2>7, <2>8 DEF PointersOnce, Rising
<1>3. CASE GetPointer
  <2>1. Append(got, Head(pointers)) \o Tail(pointers) = all
    BY <1>0, <1>3, TakenStays DEF GetPointer
  <2>2. got' \o pointers' = all
    BY <1>3, <2>1 DEF GetPointer
  <2>3. QED
    BY <1>3, <2>2 DEF GetPointer, PointersOnce
<1>4. CASE CloseServer \/ ClientIsGone
  <2>1. /\ UNCHANGED <<sent, got>> /\ pointers' = <<>>
        /\ lost' = lost \cup Range(pointers)
    BY <1>4 DEF CloseServer, ClientIsGone, LosePointers
  <2>2. got' \o pointers' = got
    BY <1>0, <2>1, ConcatProperties, ConcatEmptySeq
  <2>3. Range(all) = Range(got) \cup Range(pointers)
    BY <1>0, RangeConcatenation
  <2>4. \A i, j \in DOMAIN got : i < j => got[i] < got[j]
    <3>1. /\ DOMAIN got = 1..Len(got) /\ Len(got) \in Nat
          /\ \A i \in 1..Len(got) : i \in Places(all) /\ all[i] = got[i]
      BY <1>0, ConcatProperties, LenProperties DEF Places
    <3>2. QED
      BY <1>0, <3>1 DEF Rising
  <2>5. Range(got) \cap Range(pointers) = {}
    <3>1. /\ Len(got) \in Nat /\ Len(pointers) \in Nat /\ Len(all) = Len(got) + Len(pointers)
          /\ DOMAIN got = 1..Len(got) /\ DOMAIN pointers = 1..Len(pointers)
          /\ \A i \in 1..Len(all) : all[i] = IF i <= Len(got) THEN got[i] ELSE pointers[i - Len(got)]
      BY <1>0, ConcatProperties, LenProperties
    <3>2. ASSUME NEW i \in 1..Len(got), NEW j \in 1..Len(pointers)
          PROVE  got[i] # pointers[j]
      <4>1. i \in Places(all) /\ Len(got) + j \in Places(all) /\ i < Len(got) + j
            /\ (Len(got) + j) - Len(got) = j
        BY <3>1 DEF Places
      <4>2. all[i] = got[i] /\ all[Len(got) + j] = pointers[j]
        BY <3>1, <4>1 DEF Places
      <4>3. got[i] < pointers[j]
        BY <1>0, <4>1, <4>2 DEF Rising
      <4>4. got[i] \in Nat /\ pointers[j] \in Nat
        BY SMTT(20), <1>0, ElementOfSeq
      <4>5. QED
        BY <4>3, <4>4
    <3>3. QED
      BY <3>1, <3>2 DEF Range
  <2>6. QED
    BY <1>0, <2>1, <2>2, <2>3, <2>4, <2>5 DEF PointersOnce
<1>5. CASE Initialize \/ WaitForClient \/ ClientIsReady \/ SendPointer \/ PipeEnds \/ ServerGone
  BY <1>1, <1>5 DEF Initialize, WaitForClient, ClientIsReady, SendPointer, PipeEnds, ServerGone, down
<1>6. CASE ClientInitialize \/ SendClientReady \/ ReadySent \/ ReadyRefused \/ CloseClient
  BY <1>1, <1>6 DEF ClientInitialize, SendClientReady, ReadySent, ReadyRefused, CloseClient, down
<1>7. CASE UNCHANGED vars
  BY <1>1, <1>7 DEF vars, down
<1>8. QED
  BY <1>2, <1>3, <1>4, <1>5, <1>6, <1>7 DEF Next, ServerStep, ClientStep

\* Every pointer that SendPointer took is received once, on its way or lost, for any
\* number of pointers and any high water mark.
THEOREM PointersAreSentOnce == Spec => []PointersOnce
<1>1. Init => PointersOnce
  BY DEF Init, PointersOnce, Range
<1>2. QED
  BY <1>1, TypeCorrect, StepKeepsPointers, PTL DEF Spec

-----------------------------------------------------------------------------
(* QAPI: types *)

\* What an item is taken by changes nothing but the queue and the history.
LEMMA TakeTypes ==
  ASSUME EndsTypeOK, NEW r \in Receivers, Take(r)
  PROVE  /\ queue' \in Seq(1..pushed') /\ Len(queue') <= Capacity
         /\ popped' \in Seq([item : 1..pushed', by : Receivers])
<1>1. queue \in Seq(1..pushed) /\ queue # <<>> /\ pushed' = pushed
  BY DEF EndsTypeOK, Take
<1>2. Head(queue) \in 1..pushed /\ Tail(queue) \in Seq(1..pushed) /\ Len(Tail(queue)) = Len(queue) - 1
  <2> DEFINE Items == 1..pushed
  <2>1. queue \in Seq(Items) /\ queue # <<>>
    BY <1>1
  <2>2. Head(queue) \in Items /\ Tail(queue) \in Seq(Items) /\ Len(Tail(queue)) = Len(queue) - 1
    <3> HIDE DEF Items
    <3>1. QED
      BY <2>1, HeadTailProperties
  <2>3. QED
    BY <2>2
<1>3. [item |-> Head(queue), by |-> r] \in [item : 1..pushed, by : Receivers]
  BY <1>2
<1>4. Len(Tail(queue)) <= Capacity
  BY <1>1, <1>2, EndsAssumptions DEF EndsTypeOK, EndsAssumptions
<1>5. QED
  BY <1>1, <1>2, <1>3, <1>4 DEF EndsTypeOK, Take

LEMMA EndsKeepTypes == EndsTypeOK /\ [EndsNext]_endsVars => EndsTypeOK'
<1> SUFFICES ASSUME EndsTypeOK, [EndsNext]_endsVars PROVE EndsTypeOK'
  OBVIOUS
<1> USE EndsAssumptions DEF EndsAssumptions
<1>1. CASE UNCHANGED endsVars
  BY <1>1 DEF EndsTypeOK, endsVars, waiting
<1>2. ASSUME NEW e \in Ends, EndStep(e)
      PROVE  EndsTypeOK'
  BY <1>2 DEF EndStep, Release, Copy, EndsTypeOK, waiting
<1>3. ASSUME NEW s \in Senders, Push(s)
      PROVE  EndsTypeOK'
  <2>1. pushed' \in Nat /\ pushed + 1 \in 1..(pushed + 1) /\ 1..pushed \subseteq 1..(pushed + 1)
    BY <1>3 DEF Push, EndsTypeOK
  <2>2. queue' \in Seq(1..pushed') /\ Len(queue') <= Capacity
    BY <1>3, <2>1 DEF Push, EndsTypeOK
  <2>3. popped' \in Seq([item : 1..pushed', by : Receivers])
    <3> DEFINE Taken == [item : 1..pushed, by : Receivers]
               More == [item : 1..(pushed + 1), by : Receivers]
    <3>1. Taken \subseteq More
      BY <2>1
    <3>2. popped \in Seq(More)
      <4>1. popped \in Seq(Taken)
        BY DEF EndsTypeOK
      <4> HIDE DEF Taken, More
      <4>2. QED
        BY <3>1, <4>1, SeqMonotonic
    <3>3. QED
      BY <1>3, <3>2 DEF Push
  <2>4. QED
    BY <1>3, <2>1, <2>2, <2>3 DEF Push, EndsTypeOK, waiting
<1>4. ASSUME NEW r \in Receivers, Pop(r)
      PROVE  EndsTypeOK'
  <2>1. Take(r) /\ UNCHANGED <<native, ends, pushed, rpc, max_wait, elapsed>>
    BY <1>4 DEF Pop, Take, waiting
  <2>2. QED
    BY <2>1, TakeTypes DEF EndsTypeOK
<1>5. ASSUME NEW r \in Receivers, NEW ms \in Waits, WaitAndPop(r, ms)
      PROVE  EndsTypeOK'
  BY <1>5 DEF WaitAndPop, EndsTypeOK
<1>6. ASSUME NEW r \in Receivers, TryPop(r) \/ NativeWait(r)
      PROVE  EndsTypeOK'
  <2>1. /\ rpc' \in [Receivers -> {"idle", "trying", "sleeping", "waiting"}]
        /\ UNCHANGED <<native, ends, pushed, max_wait, elapsed>>
    BY <1>6 DEF TryPop, NativeWait, Take, EndsTypeOK
  <2>2. Take(r) \/ UNCHANGED <<queue, popped>>
    BY <1>6 DEF TryPop, NativeWait
  <2>3. CASE Take(r)
    BY <2>1, <2>3, TakeTypes DEF EndsTypeOK
  <2>4. CASE UNCHANGED <<queue, popped>>
    BY <2>1, <2>4 DEF EndsTypeOK
  <2>5. QED
    BY <2>2, <2>3, <2>4
<1>7. ASSUME NEW r \in Receivers, Slept(r)
      PROVE  EndsTypeOK'
  BY <1>7 DEF Slept, EndsTypeOK
<1>8. CASE Tick
  BY <1>8 DEF Tick, EndsTypeOK
<1>9. QED
  BY <1>1, <1>2, <1>3, <1>4, <1>5, <1>6, <1>7, <1>8 DEF EndsNext, ReceiverStep

\* The type invariant, for any number of ends, any capacity and any waits.
THEOREM EndsTypesCorrect == EndsSpec => []EndsTypeOK
<1>1. EndsInit => EndsTypeOK
  BY EndsAssumptions DEF EndsInit, EndsTypeOK, Ends, EndsAssumptions
<1>2. QED
  BY <1>1, EndsKeepTypes, PTL DEF EndsSpec

-----------------------------------------------------------------------------
(* QAPI: the ends are one queue *)

\* A taken item is the one at the head, behind those taken before.
LEMMA TakeIsTake ==
  ASSUME EndsTypeOK, NEW r \in Receivers, Take(r)
  PROVE  SharedQueue!Take
<1> DEFINE Items == [item : 1..pushed, by : Receivers]
           top == [item |-> Head(queue), by |-> r]
<1>1. popped \in Seq(Items) /\ top \in Items
  BY DEF EndsTypeOK, Take
<1>2. popped' = Append(popped, top)
  BY DEF Take
<1>3. [i \in DOMAIN popped' |-> popped'[i].item] =
        Append([i \in DOMAIN popped |-> popped[i].item], Head(queue))
  <2> DEFINE before == [i \in DOMAIN popped |-> popped[i].item]
  <2>1. before \in Seq(1..pushed) /\ Len(before) = Len(popped) /\ DOMAIN before = 1..Len(popped)
    <3>1. Len(popped) \in Nat /\ DOMAIN popped = 1..Len(popped) /\ popped \in [1..Len(popped) -> Items]
      BY <1>1, LenProperties
    <3>2. before \in [1..Len(popped) -> 1..pushed]
      BY <3>1
    <3>3. before \in Seq(1..pushed)
      BY <3>1, <3>2, SeqDef
    <3>4. QED
      BY <3>1, <3>2, <3>3, LenProperties
  <2>2. DOMAIN popped' = 1..(Len(popped) + 1)
    BY <1>1, <1>2
  <2>3. Head(queue) \in 1..pushed
    BY <1>1
  <2>4. /\ DOMAIN Append(before, Head(queue)) = 1..(Len(popped) + 1)
        /\ \A i \in 1..Len(popped) : Append(before, Head(queue))[i] = popped[i].item
        /\ Append(before, Head(queue))[Len(popped) + 1] = Head(queue)
    BY <2>1, <2>3
  <2>5. \A i \in 1..(Len(popped) + 1) :
          popped'[i] = IF i = Len(popped) + 1 THEN top ELSE popped[i]
    BY <1>1, <1>2
  <2>6. QED
    BY <2>2, <2>4, <2>5
<1>4. QED
  BY <1>3 DEF Take, SharedQueue!Take, Alive

\* Every step of the ends is a step of the queue or changes nothing the queue has.
LEMMA EndsStepIsQueueStep == EndsTypeOK /\ [EndsNext]_endsVars => [SharedQueue!Next]_SharedQueue!vars
<1> SUFFICES ASSUME EndsTypeOK, [EndsNext]_endsVars PROVE [SharedQueue!Next]_SharedQueue!vars
  OBVIOUS
<1> USE DEF SharedQueue!vars, Alive
<1>1. CASE UNCHANGED <<ends, pushed, queue, popped>>
  BY <1>1
<1>2. ASSUME NEW s \in Senders, Push(s)
      PROVE  SharedQueue!Put
  BY <1>2 DEF Push, SharedQueue!Put
<1>3. ASSUME NEW r \in Receivers, Take(r)
      PROVE  SharedQueue!Take
  BY <1>3, TakeIsTake
<1>4. ASSUME NEW e \in Ends, EndStep(e)
      PROVE  SharedQueue!Join \/ SharedQueue!Leave
  <2> DEFINE Living == {f \in Ends : ends[f] = "alive"}
  <2>1. CASE Release(e)
    <3>1. Living' = Living \ {e} /\ e \in Living
      BY <1>4, <2>1 DEF Release, EndsTypeOK
    <3>2. Living' \in (SUBSET Living) \ {Living}
      <4> HIDE DEF Living
      <4>1. QED
        BY <3>1
    <3>3. QED
      BY <2>1, <3>2 DEF Release, SharedQueue!Leave
  <2>2. ASSUME NEW f \in Ends, Copy(e, f)
        PROVE  SharedQueue!Join
    <3>1. Living' = Living \cup {f} /\ f \in Ends \ Living
      BY <2>2 DEF Copy, EndsTypeOK
    <3>2. QED
      BY <2>2, <3>1 DEF Copy, SharedQueue!Join
  <2>3. QED
    BY <1>4, <2>1, <2>2 DEF EndStep
<1>5. ASSUME NEW r \in Receivers, ReceiverStep(r)
      PROVE  Take(r) \/ UNCHANGED <<ends, pushed, queue, popped>>
  BY <1>5 DEF ReceiverStep, Pop, WaitAndPop, TryPop, Slept, NativeWait
<1>6. CASE Tick
  BY <1>1, <1>6 DEF Tick
<1>7. CASE UNCHANGED endsVars
  BY <1>1, <1>7 DEF endsVars
<1>8. QED
  BY <1>1, <1>2, <1>3, <1>4, <1>5, <1>6, <1>7 DEF EndsNext, SharedQueue!Next

\* However many ends there are, whatever the capacity and the time they take: the ends
\* are a bounded queue that loses nothing (CreateQueue, push, pop and wait_and_pop).
THEOREM EndsAreOneQueue == EndsSpec => EndsImplementQueue
<1>1. EndsInit => SharedQueue!Init
  BY DEF EndsInit, SharedQueue!Init, Alive
<1>2. QED
  BY <1>1, EndsStepIsQueueStep, EndsTypesCorrect, PTL DEF EndsSpec, EndsImplementQueue, SharedQueue!Spec

-----------------------------------------------------------------------------
(* QAPI: waiting *)

\* The duration is cut to whole milliseconds before it is compared, so that what is
\* over by this comparison is over by the clock.
LEMMA CutIsLate ==
  ASSUME NEW t \in Nat, NEW m \in Nat, NEW k \in Nat \ {0}, t \div k > m
  PROVE  t > m * k
<1>1. PICK q : q = t \div k
  OBVIOUS
<1>2. q \in Nat /\ q * k <= t
  BY <1>1
<1>3. q >= m + 1
  BY <1>1, <1>2
<1>4. q * k >= (m + 1) * k
  BY <1>2, <1>3
<1>5. (m + 1) * k = m * k + k /\ m * k \in Nat
  OBVIOUS
<1>6. QED
  BY <1>2, <1>4, <1>5

\* However the Receivers take items from each other and time goes on: a wait_and_pop of
\* wrapper's that returns false has waited longer than max_wait (QAPI.h, wrapper).
THEOREM EmptyHandsAreLate == EndsSpec => EmptyHandedIsLate
<1>1. EndsTypeOK /\ [EndsNext]_endsVars =>
        [\A r \in Receivers :
           rpc[r] \in {"trying", "sleeping"} /\ rpc'[r] = "idle" /\ popped' = popped
             => elapsed[r] > max_wait[r] * TicksPerMs]_endsVars
  <2> SUFFICES ASSUME EndsTypeOK, EndsNext, NEW r \in Receivers, rpc[r] \in {"trying", "sleeping"},
                      rpc'[r] = "idle", popped' = popped
               PROVE  elapsed[r] > max_wait[r] * TicksPerMs
    OBVIOUS
  <2>1. rpc[r] # "idle" /\ rpc[r] # "waiting" /\ rpc'[r] # rpc[r]
    OBVIOUS
  <2>2. ASSUME NEW s \in Receivers, Take(s)
        PROVE  FALSE
    <3>1. PICK x : popped' = Append(popped, x)
      BY <2>2 DEF Take
    <3>2. popped \in Seq([item : 1..pushed, by : Receivers])
      BY DEF EndsTypeOK
    <3>3. Len(popped') = Len(popped) + 1 /\ Len(popped) \in Nat
      BY <3>1, <3>2
    <3>4. QED
      BY <3>3
  <2>3. ~Tick /\ (\A s \in Senders : ~Push(s)) /\ (\A e \in Ends : ~EndStep(e))
    BY <2>1 DEF Tick, Push, EndStep, Release, Copy, waiting
  <2>4. PICK s \in Receivers : ReceiverStep(s)
    BY <2>3 DEF EndsNext
  <2>5. Slept(s)
    <3>1. ~Pop(s) /\ ~NativeWait(s)
      BY <2>1, <2>2 DEF Pop, NativeWait, EndsTypeOK
    <3>2. ~TryPop(s)
      BY <2>1, <2>2 DEF TryPop, EndsTypeOK
    <3>3. \A ms \in Waits : ~WaitAndPop(s, ms)
      BY <2>1 DEF WaitAndPop, EndsTypeOK
    <3>4. QED
      BY <2>4, <3>1, <3>2, <3>3 DEF ReceiverStep
  <2>6. s = r /\ TimeIsOver(r)
    BY <2>1, <2>5 DEF Slept, EndsTypeOK
  <2>7. elapsed[r] \in Nat /\ max_wait[r] \in Nat /\ TicksPerMs \in Nat \ {0}
    BY EndsAssumptions DEF EndsTypeOK, EndsAssumptions
  <2>8. QED
    BY <2>6, <2>7, CutIsLate DEF TimeIsOver
<1>2. QED
  BY <1>1, EndsTypesCorrect, PTL DEF EndsSpec, EmptyHandedIsLate
=============================================================================
