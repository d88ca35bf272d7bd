------------------------- MODULE KrakenHarpoonProofs -------------------------
(* Proofs about KrakenHarpoon, for every value of its constants. *)
EXTENDS KrakenHarpoon, SequenceTheorems, FiniteSetTheorems, TLAPS

-----------------------------------------------------------------------------
(* Lemmas about the sequences the actions build. *)

\* A prefix of a sequence is a sequence over the same set, not longer, with the
\* same elements at the same places.
LEMMA PrefixFacts ==
  ASSUME NEW S, NEW s \in Seq(S), NEW p \in Prefixes(s)
  PROVE  /\ p \in Seq(S)
         /\ Len(p) <= Len(s)
         /\ \A i \in 1..Len(p) : p[i] = s[i]
<1>1. PICK k \in 0..Len(s) : p = SubSeq(s, 1, k)
  BY DEF Prefixes
<1>2. QED
  BY <1>1, SubSeqProperties

\* A suffix of a sequence is a sequence over the same set, and its elements are
\* those of the sequence behind an offset.
LEMMA SuffixFacts ==
  ASSUME NEW S, NEW s \in Seq(S), NEW p \in Suffixes(s)
  PROVE  /\ p \in Seq(S)
         /\ \E d \in 0..Len(s) : /\ Len(p) = Len(s) - d
                                 /\ \A i \in 1..Len(p) : p[i] = s[i + d]
<1>1. CASE p = <<>>
  BY <1>1
<1>2. CASE \E l \in 1..Len(s) : p = SubSeq(s, l, Len(s))
  <2>1. PICK l \in 1..Len(s) : p = SubSeq(s, l, Len(s))
    BY <1>2
  <2>2. p \in Seq(S) /\ Len(p) = Len(s) - (l - 1)
    BY <2>1, SubSeqProperties
  <2>3. \A i \in 1..Len(p) : p[i] = s[i + (l - 1)]
    BY <2>1, <2>2, SubSeqProperties
  <2> DEFINE d == l - 1
  <2>4. d \in 0..Len(s)
    OBVIOUS
  <2>5. Len(p) = Len(s) - d /\ \A i \in 1..Len(p) : p[i] = s[i + d]
    BY <2>2, <2>3
  <2> HIDE DEF d
  <2>6. QED
    BY <2>2, <2>4, <2>5
<1>3. QED
  BY <1>1, <1>2 DEF Suffixes

\* The requests RequestChunks sends are numbered from mOffset on.
LEMMA RequestsType ==
  ASSUME NEW h \in Harpoons, TypeOK, NEW n \in Nat
  PROVE  /\ Requests(h, n) \in Seq(Request)
         /\ Len(Requests(h, n)) = n
         /\ \A i \in 1..n : Requests(h, n)[i] = mOffset[h] + i - 1
<1>1. \A i \in 1..n : mOffset[h] + i - 1 \in Nat
  BY DEF TypeOK
<1>2. QED
  BY <1>1 DEF Requests, Request

-----------------------------------------------------------------------------
(* Types *)

\* A call in progress has been recorded, and SendTidalWave's loop variable has
\* not run past the data: without this the size of a chunk could be negative.
CallInProgress ==
  kpc \in {"waiting", "reading"} =>
    /\ Len(calls) > 0
    /\ sentBytes <= calls[Len(calls)].size

TypeInv == TypeOK /\ CallInProgress

\* Giving the call in progress its result keeps the record of calls typed.
LEMMA ReturnType ==
  ASSUME TypeInv, kpc \in {"waiting", "reading"},
         NEW status \in Battling, Return(status)
  PROVE  /\ calls' \in Seq(Call)
         /\ kpc' \in {"idle", "draining"}
         /\ mIdentity' = <<>>
<1>1. calls \in Seq(Call) /\ Len(calls) \in 1..Len(calls)
  BY DEF TypeInv, TypeOK, CallInProgress
<1>2. calls[Len(calls)] \in Call
  BY <1>1, ElementOfSeq
<1>3. [calls[Len(calls)] EXCEPT !.status = status] \in Call
  BY <1>2 DEF Call
<1>4. calls' = [calls EXCEPT ![Len(calls)] = [calls[Len(calls)] EXCEPT !.status = status]]
  BY DEF Return
<1>5. calls' \in Seq(Call)
  BY <1>1, <1>3, <1>4, ExceptSeq
<1>6. QED
  BY <1>5 DEF Return

\* RequestChunks keeps the Harpoon's state and the requests it sends typed.
LEMMA RequestChunksType ==
  ASSUME TypeOK, NEW h \in Harpoons, NEW n \in 0..mCredit[h], RequestChunks(h, n)
  PROVE  /\ mCredit' \in [Harpoons -> Nat]
         /\ mOffset' \in [Harpoons -> Nat]
         /\ interrupted' \subseteq Harpoons
         /\ net[h] \o Requests(h, n) \in Seq(Request)
         /\ Append(net[h] \o Requests(h, n), CANCEL) \in Seq(Request)
<1>1. /\ mCredit[h] \in Nat
      /\ n \in Nat
      /\ net[h] \in Seq(Request)
  BY DEF TypeOK
<1>2. mCredit[h] - n \in Nat /\ mOffset[h] + n \in Nat
  BY <1>1 DEF TypeOK
<1>3. mCredit' \in [Harpoons -> Nat] /\ mOffset' \in [Harpoons -> Nat]
  BY <1>2 DEF TypeOK, RequestChunks
<1>4. interrupted' \subseteq Harpoons
  BY DEF TypeOK, RequestChunks
<1>5. net[h] \o Requests(h, n) \in Seq(Request)
  BY <1>1, RequestsType, ConcatProperties
<1>6. CANCEL \in Request
  BY DEF Request
<1>7. Append(net[h] \o Requests(h, n), CANCEL) \in Seq(Request)
  BY <1>5, <1>6, AppendProperties
<1>8. QED
  BY <1>3, <1>4, <1>5, <1>7

\* What a step of a Harpoon does to the types.
LEMMA HarpoonType ==
  ASSUME TypeInv, NEW h \in Harpoons, HarpoonStep(h)
  PROVE  TypeInv'
<1> USE Assumptions DEF TypeInv, TypeOK, CallInProgress, kraken, harpoon
<1>1. CASE Aim(h)
  BY <1>1 DEF Aim
<1>2. ASSUME Heave(h) \/ Cancel(h)
      PROVE  TypeInv'
  <2>1. PICK n \in 0..mCredit[h] :
          /\ RequestChunks(h, n)
          /\ \/ net' = [net EXCEPT ![h] = @ \o Requests(h, n)]
             \/ net' = [net EXCEPT ![h] = Append(@ \o Requests(h, n), CANCEL)]
    BY <1>2 DEF Heave, Cancel
  <2>2. /\ mCredit' \in [Harpoons -> Nat]
        /\ mOffset' \in [Harpoons -> Nat]
        /\ interrupted' \subseteq Harpoons
        /\ net[h] \o Requests(h, n) \in Seq(Request)
        /\ Append(net[h] \o Requests(h, n), CANCEL) \in Seq(Request)
    BY <2>1, RequestChunksType
  <2>3. net' \in [Harpoons -> Seq(Request)]
    <3>1. PICK r \in Seq(Request) : net' = [net EXCEPT ![h] = r]
      BY <2>1, <2>2
    <3>2. QED
      BY <3>1
  <2>4. QED
    BY <1>2, <2>2, <2>3 DEF Heave, Cancel
<1>3. CASE HeaveChunk(h)
  <2>1. Head(inbox[h]) \in Nat /\ Tail(inbox[h]) \in Seq(Nat)
    BY <1>3, HeadTailProperties DEF HeaveChunk
  <2>2. /\ inbox' \in [Harpoons -> Seq(Nat)]
        /\ received' \in [Harpoons -> Seq(Nat)]
    BY <1>3, <2>1, AppendProperties DEF HeaveChunk
  <2>3. mCredit' \in [Harpoons -> Nat]
    BY SMTT(20), <1>3 DEF HeaveChunk, CreditFor
  <2>4. QED
    BY <1>3, <2>2, <2>3 DEF HeaveChunk
<1>4. CASE HeaveTimeout(h)
  BY <1>4 DEF HeaveTimeout
<1>5. CASE HeaveInterrupt(h)
  BY <1>5 DEF HeaveInterrupt
<1>6. CASE Deliver(h)
  <2>1. Head(net[h]) \in Request /\ Tail(net[h]) \in Seq(Request)
    BY <1>6, HeadTailProperties DEF Deliver
  <2>2. <<h, Head(net[h])>> \in Seq(Frame)
    BY <2>1 DEF Frame
  <2>3. rx' \in Seq(Frame) /\ net' \in [Harpoons -> Seq(Request)]
    BY <1>6, <2>1, <2>2, ConcatProperties DEF Deliver
  <2>4. QED
    BY <1>6, <2>3 DEF Deliver
<1>7. CASE Crash(h)
  <2>1. net' \in [Harpoons -> Seq(Request)]
    BY <1>7, PrefixFacts DEF Crash
  <2>2. inbox' \in [Harpoons -> Seq(Nat)]
    BY <1>7 DEF Crash
  <2>3. Range(inbox[h]) \subseteq Nat
    BY SMTT(20), RangeOfSeq DEF Range
  <2>4. QED
    BY <1>7, <2>1, <2>2, <2>3 DEF Crash
<1>8. QED
  BY <1>1, <1>2, <1>3, <1>4, <1>5, <1>6, <1>7 DEF HarpoonStep

\* What a step of the Kraken does to the types.
LEMMA KrakenType ==
  ASSUME TypeInv, KrakenStep
  PROVE  TypeInv'
<1> USE Assumptions DEF TypeInv, TypeOK, CallInProgress, harpoon
<1>1. ASSUME NEW size \in Sizes, SendTidalWave(size)
      PROVE  TypeInv'
  <2> DEFINE call == [op |-> "SendTidalWave", size |-> size,
                      status |-> IF size = 0 THEN "CONTINUE" ELSE "running"]
  <2>1. call \in Call
    BY DEF Call, Battling
  <2>2. calls' = Append(calls, call)
    BY <1>1 DEF SendTidalWave
  <2>3. calls' \in Seq(Call) /\ Len(calls') > 0 /\ calls'[Len(calls')].size = size
    BY <2>1, <2>2, AppendProperties
  <2>4. kpc = "idle" /\ kpc' \in {"idle", "waiting"} /\ mIdentity' = mIdentity
    BY <1>1 DEF SendTidalWave
  <2>5. TypeOK'
    BY <1>1, <2>3, <2>4 DEF SendTidalWave
  <2>6. CallInProgress'
    BY <1>1, <2>3 DEF SendTidalWave
  <2>7. QED
    BY <2>5, <2>6
<1>2. CASE FinalBreach
  <2> DEFINE call == [op |-> "FinalBreach", size |-> 0, status |-> "running"]
  <2>1. call \in Call
    BY DEF Call, Battling
  <2>2. calls' = Append(calls, call)
    BY <1>2 DEF FinalBreach
  <2>3. calls' \in Seq(Call) /\ Len(calls') > 0 /\ calls'[Len(calls')].size = 0
    BY <2>1, <2>2, AppendProperties
  <2>4. QED
    BY <1>2, <2>3 DEF FinalBreach
<1>3. CASE RecvIdentity
  <2>1. Head(rx) \in Frame /\ Tail(rx) \in Seq(Frame)
    BY <1>3, HeadTailProperties DEF RecvIdentity
  <2>2. QED
    BY <1>3, <2>1 DEF RecvIdentity
<1>4. CASE NextChunkIdTimeout
  <2>1. calls' \in Seq(Call) /\ kpc' \in {"idle", "draining"} /\ mIdentity' = <<>>
    BY <1>4, ReturnType DEF NextChunkIdTimeout, Battling
  <2>2. QED
    BY <1>4, <2>1 DEF NextChunkIdTimeout
<1>5. CASE NextChunkIdInterrupt
  <2>1. calls' \in Seq(Call) /\ kpc' \in {"idle", "draining"} /\ mIdentity' = <<>>
    BY <1>5, ReturnType DEF NextChunkIdInterrupt, Battling
  <2>2. QED
    BY <1>5, <2>1 DEF NextChunkIdInterrupt
<1>6. CASE NextChunkIdCancel
  <2>1. Tail(rx) \in Seq(Frame)
    BY <1>6, HeadTailProperties DEF NextChunkIdCancel
  <2>2. calls' \in Seq(Call) /\ kpc' \in {"idle", "draining"} /\ mIdentity' = <<>>
    BY <1>6, ReturnType DEF NextChunkIdCancel, Battling
  <2>3. QED
    BY <1>6, <2>1, <2>2 DEF NextChunkIdCancel
<1>7. CASE SendRawData
  <2> DEFINE size == calls[Len(calls)].size
             chunk == [call |-> Len(calls), at |-> sentBytes,
                       len |-> ChunkSize(size, sentBytes)]
  <2>1. Tail(rx) \in Seq(Frame)
    BY <1>7, HeadTailProperties DEF SendRawData
  <2>2. calls[Len(calls)] \in Call
    BY <1>7, ElementOfSeq DEF SendRawData
  <2>3. size \in Nat /\ sentBytes <= size
    BY <1>7, <2>2 DEF SendRawData, Call
  <2>4. chunk \in Chunk
    BY <2>3 DEF Chunk, ChunkSize
  <2>5. accepted' = Append(accepted, chunk)
    BY <1>7 DEF SendRawData
  <2>6. accepted' \in Seq(Chunk)
    BY <2>4, <2>5, AppendProperties
  <2>7. inbox' \in [Harpoons -> Seq(Nat)] /\ lost' \subseteq Nat
    <3> DEFINE n == Len(accepted) + 1
    <3>1. n \in Nat
      OBVIOUS
    <3>2. \A id \in Harpoons : Append(inbox[id], n) \in Seq(Nat)
      BY <3>1, AppendProperties
    <3>3. \/ lost' = lost /\ \E id \in Harpoons : inbox' = [inbox EXCEPT ![id] = Append(@, n)]
          \/ lost' = lost \cup {n} /\ inbox' = inbox
      BY <1>7 DEF SendRawData, SendTo, Routable
    <3> HIDE DEF n
    <3>4. CASE lost' = lost \cup {n} /\ inbox' = inbox
      BY <3>1, <3>4
    <3>5. CASE lost' = lost /\ \E id \in Harpoons : inbox' = [inbox EXCEPT ![id] = Append(@, n)]
      <4>1. PICK id \in Harpoons : inbox' = [inbox EXCEPT ![id] = Append(@, n)]
        BY <3>5
      <4>2. inbox' \in [Harpoons -> Seq(Nat)]
        BY <3>2, <4>1
      <4>3. QED
        BY <3>5, <4>2
    <3>6. QED
      BY <3>3, <3>4, <3>5
  <2>8. sentBytes' \in Nat
    BY <1>7 DEF SendRawData
  <2>9. CASE sentBytes + MaxChunkSize < size
    <3>1. kpc' = "waiting" /\ mIdentity' = <<>> /\ calls' = calls
      BY <1>7, <2>9 DEF SendRawData
    <3>2. sentBytes' = sentBytes + MaxChunkSize
      BY <1>7 DEF SendRawData
    <3>3. sentBytes' <= calls'[Len(calls')].size
      BY <2>3, <2>9, <3>1, <3>2
    <3>4. Len(calls') > 0
      BY <1>7, <3>1 DEF SendRawData
    <3>5. rx' = Tail(rx) /\ UNCHANGED <<net, harpoon, received>>
      BY <1>7 DEF SendRawData
    <3>6. CallInProgress'
      BY <3>3, <3>4
    <3>7. TypeOK'
      BY <2>1, <2>6, <2>7, <2>8, <3>1, <3>5
    <3>8. QED
      BY <3>6, <3>7
  <2>10. CASE ~(sentBytes + MaxChunkSize < size)
    <3>1. Return("CONTINUE")
      BY <1>7, <2>10 DEF SendRawData
    <3>2. calls' \in Seq(Call) /\ kpc' \in {"idle", "draining"} /\ mIdentity' = <<>>
      BY <1>7, <3>1, ReturnType DEF SendRawData, Battling
    <3>3. QED
      BY <1>7, <2>1, <2>6, <2>7, <2>8, <3>2 DEF SendRawData
  <2>11. QED
    BY <2>9, <2>10
<1>8. CASE FinalBreachDrain
  <2>1. rx # <<>> => Tail(rx) \in Seq(Frame)
    BY HeadTailProperties
  <2>2. QED
    BY <1>8, <2>1 DEF FinalBreachDrain
<1>9. CASE KrakenRestart
  <2>1. net' \in [Harpoons -> Seq(Request)]
    BY <1>9, SuffixFacts DEF KrakenRestart
  <2>2. inbox' \in [Harpoons -> Seq(Nat)]
    BY <1>9, PrefixFacts DEF KrakenRestart
  <2>3. \A h \in Harpoons : Range(inbox[h]) \subseteq Nat
    BY RangeOfSeq DEF Range
  <2>4. lost' \subseteq Nat
    BY <1>9, <2>3 DEF KrakenRestart
  <2>5. calls' \in Seq(Call)
    <3>1. CASE kpc \in {"waiting", "reading"}
      <4>1. calls[Len(calls)] \in Call
        BY <3>1, ElementOfSeq
      <4>2. [calls[Len(calls)] EXCEPT !.status = "aborted"] \in Call
        BY <4>1 DEF Call
      <4>3. calls' = [calls EXCEPT ![Len(calls)] =
                        [calls[Len(calls)] EXCEPT !.status = "aborted"]]
        BY <1>9, <3>1 DEF KrakenRestart
      <4>4. QED
        BY <3>1, <4>2, <4>3, ExceptSeq
    <3>2. QED
      BY <1>9, <3>1 DEF KrakenRestart
  <2>6. /\ rx' = <<>> /\ kpc' = "idle" /\ mIdentity' = <<>>
        /\ UNCHANGED <<sentBytes, harpoon, accepted, received>>
    BY <1>9 DEF KrakenRestart
  <2>7. QED
    BY <2>1, <2>2, <2>4, <2>5, <2>6
<1>10. QED
  BY <1>1, <1>2, <1>3, <1>4, <1>5, <1>6, <1>7, <1>8, <1>9 DEF KrakenStep

\* The inductive form of the type invariant: with CallInProgress.
LEMMA TypeInvariance == Spec => []TypeInv
<1>1. Init => TypeInv
  BY Assumptions DEF Init, TypeInv, TypeOK, CallInProgress
<1>2. TypeInv /\ [Next]_vars => TypeInv'
  <2> SUFFICES ASSUME TypeInv, [Next]_vars
               PROVE  TypeInv'
    OBVIOUS
  <2>1. CASE UNCHANGED vars
    BY <2>1 DEF vars, kraken, harpoon, TypeInv, TypeOK, CallInProgress
  <2>2. CASE Next
    BY <2>2, HarpoonType, KrakenType DEF Next
  <2>3. QED
    BY <2>1, <2>2
<1>3. QED
  BY <1>1, <1>2, PTL DEF Spec

\* The type invariant holds in every reachable state, whatever the queue length,
\* the chunk size, the number of Harpoons and the faults: the Kraken holds an
\* identity exactly while it waits for the payload behind it (Kraken.cpp:103-118).
THEOREM TypeCorrect == Spec => []TypeOK
<1>1. TypeInv => TypeOK
  BY DEF TypeInv
<1>2. QED
  BY <1>1, TypeInvariance, PTL

-----------------------------------------------------------------------------
(* Flow control *)

IInv == TypeInv /\ RequestsAnsweredOnce

\* The frames still to be read are a sequence of frames, in both states of a step.
LEMMA FramesType ==
  /\ TypeOK => /\ Frames \in Seq(Frame)
               /\ Len(Frames) = Len(mIdentity) + Len(rx)
  /\ TypeOK' => /\ Frames' \in Seq(Frame)
                /\ Len(Frames') = Len(mIdentity') + Len(rx')
<1>1. TypeOK => mIdentity \in Seq(Frame) /\ rx \in Seq(Frame)
  BY DEF TypeOK
<1>2. TypeOK' => mIdentity' \in Seq(Frame) /\ rx' \in Seq(Frame)
  BY DEF TypeOK
<1>3. QED
  BY <1>1, <1>2, ConcatProperties DEF Frames

\* A step that drops the first d frames, one that only loses requests at either
\* end of the channels, and one that sends no chunk and makes no request.
DropsFrames(d) ==
  /\ Len(Frames') + d = Len(Frames)
  /\ \A i \in DOMAIN Frames' : Frames'[i] = Frames[i + d]

LosesRequests ==
  \A h \in Harpoons : \E e \in Nat :
    /\ Len(net'[h]) + e <= Len(net[h])
    /\ \A i \in DOMAIN net'[h] : net'[h][i] = net[h][i + e]

SendsNothing ==
  /\ mOffset' = mOffset
  /\ \A h \in Harpoons : Len(received'[h]) + Len(inbox'[h]) <= Answered(h)

\* A request that is in its window after the step.
InWindowNext(h, n) ==
  n # CANCEL => Len(received'[h]) + Len(inbox'[h]) <= n /\ n < mOffset'[h]

\* Credit does not grow faster than chunks are received.
KeepsCredit ==
  \A h \in Harpoons : mCredit'[h] + Len(received[h]) <= mCredit[h] + Len(received'[h])

\* A step of this kind leaves the requests on their way in order and in their
\* windows.
LEMMA FewerNetRequests ==
  ASSUME IInv, TypeOK', LosesRequests, SendsNothing
  PROVE  /\ NetRequests'
         /\ \A h \in Harpoons : \A i \in DOMAIN net'[h] :
              \E k \in DOMAIN net[h] : net'[h][i] = net[h][k]
         /\ \A h \in Harpoons, n \in Request : InWindow(h, n) => InWindowNext(h, n)
<1> USE DEF InWindowNext
<1>1. /\ received \in [Harpoons -> Seq(Nat)] /\ inbox \in [Harpoons -> Seq(Nat)]
      /\ received' \in [Harpoons -> Seq(Nat)] /\ inbox' \in [Harpoons -> Seq(Nat)]
      /\ mOffset \in [Harpoons -> Nat]
      /\ net \in [Harpoons -> Seq(Request)] /\ net' \in [Harpoons -> Seq(Request)]
  BY DEF IInv, TypeInv, TypeOK
<1>3. \A h \in Harpoons :
        /\ Len(received[h]) \in Nat /\ Len(inbox[h]) \in Nat
        /\ Len(received'[h]) \in Nat /\ Len(inbox'[h]) \in Nat
        /\ mOffset[h] \in Nat
        /\ net[h] \in Seq(Request) /\ net'[h] \in Seq(Request)
        /\ Len(received'[h]) + Len(inbox'[h]) <= Answered(h)
        /\ mOffset'[h] = mOffset[h]
  BY <1>1 DEF SendsNothing
<1>4. ASSUME NEW h \in Harpoons, NEW n \in Request, InWindow(h, n)
      PROVE  InWindowNext(h, n)
  <2>1. CASE n = CANCEL
    BY <2>1
  <2>2. CASE n \in Nat /\ n # CANCEL
    <3>1. Answered(h) <= n /\ n < mOffset[h]
      BY <1>4, <2>2 DEF InWindow
    <3>2. /\ Len(received'[h]) + Len(inbox'[h]) \in Nat
          /\ Answered(h) \in Nat
          /\ Len(received'[h]) + Len(inbox'[h]) <= Answered(h)
      BY <1>1, <1>3 DEF Answered
    <3>3. Len(received'[h]) + Len(inbox'[h]) <= n
      BY <1>1, <2>2, <3>1, <3>2
    <3>4. QED
      BY <1>3, <3>1, <3>3
  <2>3. QED
    BY <2>1, <2>2 DEF Request
<1>5. ASSUME NEW h \in Harpoons
      PROVE  /\ \A i \in DOMAIN net'[h] : \E k \in DOMAIN net[h] : net'[h][i] = net[h][k]
             /\ \A i \in DOMAIN net'[h] : InWindowNext(h, net'[h][i])
             /\ \A i, j \in DOMAIN net'[h] : i < j => Before(net'[h][i], net'[h][j])
  <2> HIDE DEF InWindowNext
  <2>1. PICK e \in Nat : /\ Len(net'[h]) + e <= Len(net[h])
                         /\ \A i \in DOMAIN net'[h] : net'[h][i] = net[h][i + e]
    BY DEF LosesRequests
  <2>8. /\ net[h] \in Seq(Request) /\ net'[h] \in Seq(Request)
        /\ DOMAIN net[h] = 1..Len(net[h]) /\ Len(net[h]) \in Nat
        /\ DOMAIN net'[h] = 1..Len(net'[h]) /\ Len(net'[h]) \in Nat
    BY <1>3, LenProperties
  <2>2. \A i \in DOMAIN net'[h] : i + e \in DOMAIN net[h] /\ i \in Nat
    BY <2>8, <2>1
  <2>3. \A i \in DOMAIN net'[h] : net'[h][i] \in Request /\ InWindow(h, net'[h][i])
    BY <2>8, <2>1, <2>2, ElementOfSeq DEF NetRequests, IInv, RequestsAnsweredOnce
  <2>4. \A i \in DOMAIN net'[h] : InWindowNext(h, net'[h][i])
    BY <1>4, <2>3
  <2>5. \A i, j \in DOMAIN net'[h] : i < j => i + e < j + e
    BY <2>2
  <2>6. \A i, j \in DOMAIN net'[h] : i < j => Before(net'[h][i], net'[h][j])
    BY <2>1, <2>2, <2>5 DEF NetRequests, IInv, RequestsAnsweredOnce
  <2>7. QED
    BY <2>1, <2>2, <2>4, <2>6
<1>6. NetRequests'
  BY <1>5 DEF NetRequests, Before, InWindow, Answered
<1>7. QED
  BY <1>4, <1>5, <1>6

\* Losing frames from the front, losing requests at either end, and forgetting
\* chunks never hurts: this covers every step that neither asks for a chunk, nor
\* delivers a request, nor sends a chunk.
LEMMA FewerRequests ==
  ASSUME IInv, TypeOK', NEW d \in Nat, DropsFrames(d), LosesRequests, SendsNothing,
         KeepsCredit
  PROVE  RequestsAnsweredOnce'
<1> USE DEF InWindowNext
<1>1. /\ Frames \in Seq(Frame) /\ DOMAIN Frames = 1..Len(Frames) /\ Len(Frames) \in Nat
      /\ Frames' \in Seq(Frame) /\ DOMAIN Frames' = 1..Len(Frames') /\ Len(Frames') \in Nat
  BY FramesType DEF IInv, TypeInv
<1>2. /\ NetRequests'
      /\ \A h \in Harpoons : \A i \in DOMAIN net'[h] :
           \E k \in DOMAIN net[h] : net'[h][i] = net[h][k]
      /\ \A h \in Harpoons, n \in Request : InWindow(h, n) => InWindowNext(h, n)
  BY FewerNetRequests
<1>6. ASSUME NEW i \in DOMAIN Frames', Frames'[i] \in Harpoons
      PROVE  /\ i + 1 \in DOMAIN Frames'
             /\ Frames'[i + 1] \in Request
             /\ InWindowNext(Frames'[i], Frames'[i + 1])
             /\ \A k \in DOMAIN net'[Frames'[i]] :
                  Before(Frames'[i + 1], net'[Frames'[i]][k])
             /\ \A j \in DOMAIN Frames' :
                  i < j /\ Frames'[j] = Frames'[i]
                    => Before(Frames'[i + 1], Frames'[j + 1])
  <2> DEFINE h == Frames'[i]
             n == Frames[(i + d) + 1]
  <2>1. i + d \in DOMAIN Frames /\ Frames[i + d] = h /\ h \in Harpoons
    BY <1>1, <1>6 DEF DropsFrames
  <2>2. /\ (i + d) + 1 \in DOMAIN Frames
        /\ n \in Request
        /\ InWindow(h, n)
        /\ \A k \in DOMAIN net[h] : Before(n, net[h][k])
        /\ \A j \in DOMAIN Frames : (i + d) < j /\ Frames[j] = h => Before(n, Frames[j + 1])
    BY <2>1 DEF FrameRequests, IInv, RequestsAnsweredOnce
  <2>3. i + 1 \in DOMAIN Frames' /\ Frames'[i + 1] = n
    BY <1>1, <2>1, <2>2 DEF DropsFrames
  <2> HIDE DEF h, n
  <2>4. InWindowNext(h, n)
    BY <1>2, <2>1, <2>2
  <2> HIDE DEF InWindowNext
  <2>5. \A k \in DOMAIN net'[h] : Before(n, net'[h][k])
    BY <1>2, <2>1, <2>2
  <2>6. ASSUME NEW j \in DOMAIN Frames', i < j, Frames'[j] = h
        PROVE  Before(n, Frames'[j + 1])
    <3>1. j + d \in DOMAIN Frames /\ Frames[j + d] = h /\ i + d < j + d
      BY <1>1, <2>6 DEF DropsFrames
    <3>2. (j + d) + 1 \in DOMAIN Frames
      BY <2>1, <3>1 DEF FrameRequests, IInv, RequestsAnsweredOnce
    <3>3. Frames'[j + 1] = Frames[(j + d) + 1]
      BY <1>1, <3>1, <3>2 DEF DropsFrames
    <3>4. QED
      BY <2>2, <3>1, <3>3
  <2> USE DEF h
  <2>7. QED
    BY <2>2, <2>3, <2>4, <2>5, <2>6
<1>7. FrameRequests'
  BY <1>6 DEF FrameRequests, Before, InWindow, Answered
<1>8. Credits'
  <2>1. /\ received \in [Harpoons -> Seq(Nat)] /\ inbox \in [Harpoons -> Seq(Nat)]
        /\ received' \in [Harpoons -> Seq(Nat)] /\ inbox' \in [Harpoons -> Seq(Nat)]
        /\ mOffset \in [Harpoons -> Nat] /\ mCredit \in [Harpoons -> Nat]
        /\ mCredit' \in [Harpoons -> Nat] /\ QueueLength \in Nat
    BY Assumptions DEF IInv, TypeInv, TypeOK
  <2>2. ASSUME NEW h \in Harpoons
        PROVE  /\ Len(received'[h]) + Len(inbox'[h]) <= mOffset'[h]
               /\ mCredit'[h] + mOffset'[h] <= QueueLength + Len(received'[h])
    <3>1. /\ Len(received[h]) \in Nat /\ Len(inbox[h]) \in Nat
          /\ Len(received'[h]) \in Nat /\ Len(inbox'[h]) \in Nat
          /\ mOffset[h] \in Nat /\ mCredit[h] \in Nat /\ mCredit'[h] \in Nat
      BY <2>1
    <3>2. /\ Len(received[h]) + Len(inbox[h]) <= mOffset[h]
          /\ mCredit[h] + mOffset[h] <= QueueLength + Len(received[h])
      BY DEF Credits, IInv, RequestsAnsweredOnce, Answered
    <3>3. /\ mOffset'[h] = mOffset[h]
          /\ Len(received'[h]) + Len(inbox'[h]) <= Len(received[h]) + Len(inbox[h])
      BY DEF SendsNothing, Answered
    <3>4. mCredit'[h] + Len(received[h]) <= mCredit[h] + Len(received'[h])
      BY DEF KeepsCredit
    <3>5. QED
      BY SMTT(20), <2>1, <3>1, <3>2, <3>3, <3>4
  <2>3. QED
    BY <2>2 DEF Credits, Answered
<1>9. QED
  BY <1>2, <1>7, <1>8 DEF RequestsAnsweredOnce

\* How the receives of the Kraken change the frames it has still to read.
LEMMA FrameSteps ==
  ASSUME TypeOK, TypeOK'
  PROVE  /\ mIdentity' = mIdentity /\ rx' = rx => DropsFrames(0)
         /\ mIdentity' = <<>> /\ rx' = rx => DropsFrames(Len(mIdentity))
         /\ mIdentity' = <<>> /\ rx' = <<>> => DropsFrames(Len(Frames))
         /\ rx # <<>> /\ rx' = Tail(rx) =>
              /\ mIdentity = <<>> /\ mIdentity' = <<Head(rx)>> => DropsFrames(0)
              /\ mIdentity = <<>> /\ mIdentity' = <<>> => DropsFrames(1)
              /\ Len(mIdentity) = 1 /\ mIdentity' = <<>> => DropsFrames(2)
<1>1. /\ mIdentity \in Seq(Frame) /\ rx \in Seq(Frame)
      /\ mIdentity' \in Seq(Frame) /\ rx' \in Seq(Frame)
  BY DEF TypeOK
<1>2. /\ Frames \in Seq(Frame) /\ Len(Frames) = Len(mIdentity) + Len(rx)
      /\ \A i \in 1..Len(mIdentity) : Frames[i] = mIdentity[i]
      /\ \A i \in (Len(mIdentity) + 1)..Len(Frames) : Frames[i] = rx[i - Len(mIdentity)]
  BY <1>1, ConcatProperties DEF Frames
<1>3. /\ Frames' \in Seq(Frame) /\ Len(Frames') = Len(mIdentity') + Len(rx')
      /\ \A i \in 1..Len(mIdentity') : Frames'[i] = mIdentity'[i]
      /\ \A i \in (Len(mIdentity') + 1)..Len(Frames') : Frames'[i] = rx'[i - Len(mIdentity')]
  BY <1>1, ConcatProperties DEF Frames
<1>4. rx # <<>> => /\ Len(Tail(rx)) = Len(rx) - 1
                   /\ \A i \in 1..Len(Tail(rx)) : Tail(rx)[i] = rx[i + 1]
                   /\ Head(rx) = rx[1] /\ Len(rx) >= 1
  BY <1>1, HeadTailProperties
<1>5. DOMAIN Frames' = 1..Len(Frames')
  BY <1>3
<1> USE DEF DropsFrames
<1>6. ASSUME mIdentity' = mIdentity, rx' = rx
      PROVE  DropsFrames(0)
  <2>1. Frames' = Frames
    BY <1>6 DEF Frames
  <2>2. Len(Frames) + 0 = Len(Frames) /\ \A i \in 1..Len(Frames) : i + 0 = i
    BY <1>2
  <2>3. QED
    BY <1>5, <2>1, <2>2
<1>7. ASSUME mIdentity' = <<>>, rx' = rx
      PROVE  DropsFrames(Len(mIdentity))
  <2>1. Len(Frames') = Len(rx) /\ Len(Frames') + Len(mIdentity) = Len(Frames)
    BY <1>1, <1>2, <1>3, <1>7
  <2>2. \A i \in 1..Len(Frames') : Frames'[i] = rx[i]
    BY <1>1, <1>3, <1>7, <2>1
  <2>3. ASSUME NEW i \in 1..Len(Frames')
        PROVE  Frames[i + Len(mIdentity)] = rx[i]
    <3> DEFINE k == i + Len(mIdentity)
    <3>1. Len(mIdentity) \in Nat /\ Len(rx) \in Nat
      BY <1>1
    <3>2. k \in (Len(mIdentity) + 1)..Len(Frames) /\ k - Len(mIdentity) = i
      BY <1>2, <2>1, <3>1
    <3> HIDE DEF k
    <3>3. Frames[k] = rx[k - Len(mIdentity)]
      BY <1>2, <3>2
    <3>4. QED
      BY <3>2, <3>3 DEF k
  <2>4. QED
    BY <1>5, <2>1, <2>2, <2>3
<1>8. mIdentity' = <<>> /\ rx' = <<>> => DropsFrames(Len(Frames))
  BY <1>1, <1>2, <1>3, <1>5
<1>9. ASSUME rx # <<>>, rx' = Tail(rx), mIdentity = <<>>, mIdentity' = <<Head(rx)>>
      PROVE  DropsFrames(0)
  <2>1. Len(Frames') = Len(Frames)
    BY <1>1, <1>2, <1>3, <1>4, <1>9
  <2>2. \A i \in 1..Len(Frames') : Frames'[i] = Frames[i + 0]
    BY <1>1, <1>2, <1>3, <1>4, <1>9, <2>1
  <2>3. QED
    BY <1>1, <1>2, <1>5, <2>1, <2>2
<1>10. ASSUME rx # <<>>, rx' = Tail(rx), mIdentity = <<>>, mIdentity' = <<>>
       PROVE  DropsFrames(1)
  BY <1>1, <1>2, <1>3, <1>4, <1>5, <1>10
<1>11. ASSUME rx # <<>>, rx' = Tail(rx), Len(mIdentity) = 1, mIdentity' = <<>>
       PROVE  DropsFrames(2)
  <2>1. Len(Frames') + 2 = Len(Frames)
    BY <1>1, <1>2, <1>3, <1>4, <1>11
  <2>2. \A i \in 1..Len(Frames') : Frames'[i] = Frames[i + 2]
    BY <1>1, <1>2, <1>3, <1>4, <1>11, <2>1
  <2>3. QED
    BY <1>5, <2>1, <2>2
<1>12. QED
  BY <1>6, <1>7, <1>8, <1>9, <1>10, <1>11

\* A Harpoon's requests get the numbers behind all those it used before, so they
\* keep the order, and they are not answered yet.
LEMMA AskingIsOrdered ==
  ASSUME IInv, TypeOK', NEW h \in Harpoons, Heave(h) \/ Cancel(h)
  PROVE  RequestsAnsweredOnce'
<1>1. PICK n \in 0..mCredit[h] :
        /\ RequestChunks(h, n)
        /\ \/ net' = [net EXCEPT ![h] = @ \o Requests(h, n)]
           \/ net' = [net EXCEPT ![h] = Append(@ \o Requests(h, n), CANCEL)]
  BY DEF Heave, Cancel
<1>2. /\ received \in [Harpoons -> Seq(Nat)] /\ inbox \in [Harpoons -> Seq(Nat)]
      /\ received' = received /\ inbox' = inbox
      /\ mOffset \in [Harpoons -> Nat] /\ mCredit \in [Harpoons -> Nat]
      /\ net \in [Harpoons -> Seq(Request)] /\ net' \in [Harpoons -> Seq(Request)]
      /\ n \in Nat /\ n <= mCredit[h]
  <2>1. mCredit \in [Harpoons -> Nat]
    BY DEF IInv, TypeInv, TypeOK
  <2>2. n \in Nat /\ n <= mCredit[h]
    BY <2>1
  <2>3. QED
    BY <2>1, <2>2 DEF IInv, TypeInv, TypeOK, Heave, Cancel
<1>3. /\ mOffset' = [mOffset EXCEPT ![h] = @ + n]
      /\ mCredit' = [mCredit EXCEPT ![h] = @ - n]
  BY <1>1 DEF RequestChunks
<1>4. Credits'
  <2>1. ASSUME NEW g \in Harpoons
        PROVE  /\ Len(received[g]) + Len(inbox[g]) <= mOffset'[g]
               /\ mCredit'[g] + mOffset'[g] <= QueueLength + Len(received[g])
    <3>1. /\ Len(received[g]) + Len(inbox[g]) <= mOffset[g]
          /\ mCredit[g] + mOffset[g] <= QueueLength + Len(received[g])
      BY DEF Credits, IInv, RequestsAnsweredOnce, Answered
    <3>2. /\ mOffset[g] \in Nat /\ mCredit[g] \in Nat /\ QueueLength \in Nat
          /\ Len(received[g]) \in Nat /\ Len(inbox[g]) \in Nat
      BY <1>2, Assumptions
    <3>3. CASE g = h
      <4>1. mOffset'[g] = mOffset[g] + n /\ mCredit'[g] = mCredit[g] - n
        BY <1>2, <1>3, <3>3
      <4>2. QED
        BY SMTT(20), <1>2, <3>1, <3>2, <4>1
    <3>4. CASE g # h
      BY <1>2, <1>3, <3>1, <3>4
    <3>5. QED
      BY <3>3, <3>4
  <2>2. QED
    BY <1>2, <2>1 DEF Credits, Answered
<1>5. Frames' = Frames
  BY DEF Heave, Cancel, Frames, kraken
<1>6. \A g \in Harpoons, m \in Request : InWindow(g, m) => InWindowNext(g, m)
  BY <1>2, <1>3 DEF InWindow, InWindowNext, Answered, Request
<1> DEFINE old == Len(net[h])
<1>7. /\ old \in Nat
      /\ Len(net'[h]) >= old + n
      /\ \A i \in 1..old : net'[h][i] = net[h][i]
      /\ \A i \in DOMAIN net'[h] : i > old =>
           \/ net'[h][i] = CANCEL
           \/ i - old <= n /\ net'[h][i] = mOffset[h] + (i - old) - 1
  <2>1. /\ Requests(h, n) \in Seq(Request) /\ Len(Requests(h, n)) = n
        /\ \A i \in 1..n : Requests(h, n)[i] = mOffset[h] + i - 1
    BY <1>2, RequestsType DEF IInv, TypeInv
  <2> DEFINE both == net[h] \o Requests(h, n)
  <2>2. /\ both \in Seq(Request) /\ Len(both) = old + n
        /\ \A i \in 1..old : both[i] = net[h][i]
        /\ \A i \in (old + 1)..(old + n) : both[i] = mOffset[h] + (i - old) - 1
    <3>1. net[h] \in Seq(Request) /\ Len(net[h]) \in Nat
      BY <1>2
    <3>2. /\ both \in Seq(Request) /\ Len(both) = old + n
          /\ \A i \in 1..Len(both) :
               both[i] = IF i <= old THEN net[h][i] ELSE Requests(h, n)[i - old]
      <4> DEFINE new == Requests(h, n)
      <4>1. new \in Seq(Request)
        BY <2>1
      <4> HIDE DEF new
      <4>2. /\ net[h] \o new \in Seq(Request)
            /\ Len(net[h] \o new) = Len(net[h]) + Len(new)
            /\ \A i \in 1..Len(net[h]) + Len(new) :
                 (net[h] \o new)[i] = IF i <= Len(net[h]) THEN net[h][i] ELSE new[i - Len(net[h])]
        BY <3>1, <4>1, ConcatProperties
      <4> USE DEF new
      <4>3. Len(new) = n
        BY <2>1
      <4>4. QED
        BY <4>2, <4>3
    <3>3. \A i \in (old + 1)..(old + n) : i - old \in 1..n
      BY <1>2, <3>1
    <3>4. \A i \in (old + 1)..(old + n) :
            both[i] = mOffset[h] + (i - old) - 1
      BY <1>2, <2>1, <3>1, <3>2, <3>3
    <3>5. QED
      BY <1>2, <3>1, <3>2, <3>4
  <2>3. net'[h] = both \/ net'[h] = Append(both, CANCEL)
    BY <1>1, <1>2
  <2> HIDE DEF both
  <2>4. old \in Nat
    BY <1>2
  <2> HIDE DEF old
  <2>5. CASE net'[h] = both
    BY <1>2, <2>2, <2>4, <2>5
  <2>6. CASE net'[h] = Append(both, CANCEL)
    <3>1. /\ Len(net'[h]) = old + n + 1
          /\ \A i \in 1..(old + n) : net'[h][i] = both[i]
          /\ net'[h][old + n + 1] = CANCEL
      BY SMTT(20), <1>2, <2>2, <2>4, <2>6, AppendProperties
    <3>2. n \in Nat /\ DOMAIN net'[h] = 1..(old + n + 1)
      BY <1>2, <2>4, <3>1
    <3>3. \A i \in 1..old : i \in 1..(old + n) /\ both[i] = net[h][i]
      BY <2>2, <2>4, <3>2
    <3>4. \A i \in 1..old : net'[h][i] = net[h][i]
      BY <3>1, <3>3
    <3>5. ASSUME NEW i \in DOMAIN net'[h], i > old
          PROVE  \/ net'[h][i] = CANCEL
                 \/ i - old <= n /\ net'[h][i] = mOffset[h] + (i - old) - 1
      <4>1. i = old + n + 1 \/ i \in (old + 1)..(old + n)
        BY <2>4, <3>2, <3>5
      <4>2. CASE i = old + n + 1
        BY <3>1, <4>2
      <4>3. CASE i \in (old + 1)..(old + n)
        <5>1. i \in 1..(old + n) /\ i - old <= n
          BY <2>4, <3>2, <4>3
        <5>2. net'[h][i] = both[i]
          BY <3>1, <5>1
        <5>3. both[i] = mOffset[h] + (i - old) - 1
          BY <2>2, <4>3
        <5>4. QED
          BY <5>1, <5>2, <5>3
      <4>4. QED
        BY <4>1, <4>2, <4>3
    <3>6. Len(net'[h]) >= old + n
      BY <2>4, <3>1, <3>2
    <3>7. QED
      BY <2>4, <3>4, <3>5, <3>6
  <2>7. QED
    BY <2>3, <2>5, <2>6
<1>8. \A g \in Harpoons : g # h => net'[g] = net[g]
  BY <1>1, <1>2
<1>9. /\ net[h] \in Seq(Request) /\ DOMAIN net[h] = 1..old
      /\ net'[h] \in Seq(Request) /\ DOMAIN net'[h] = 1..Len(net'[h])
      /\ Len(net'[h]) \in Nat /\ mOffset[h] \in Nat
      /\ Answered(h) \in Nat /\ Answered(h) <= mOffset[h]
  BY <1>2 DEF Credits, IInv, RequestsAnsweredOnce, Answered
<1>10. \A i \in 1..old : net[h][i] \in Request /\ InWindow(h, net[h][i])
  BY <1>7, <1>9, ElementOfSeq DEF NetRequests, IInv, RequestsAnsweredOnce
<1> HIDE DEF old
<1>11. ASSUME NEW i \in DOMAIN net'[h]
       PROVE  InWindowNext(h, net'[h][i])
  <2>1. CASE i <= old
    BY <1>6, <1>7, <1>9, <1>10, <2>1
  <2>2. CASE i > old
    BY <1>2, <1>3, <1>7, <1>9, <2>2 DEF InWindowNext, Answered
  <2>3. QED
    BY <1>7, <1>9, <2>1, <2>2
<1>12. ASSUME NEW i \in DOMAIN net'[h], NEW j \in DOMAIN net'[h], i < j
       PROVE  Before(net'[h][i], net'[h][j])
  <2>1. CASE j <= old
    BY SMTT(20), <1>7, <1>9, <1>12, <2>1 DEF NetRequests, IInv, RequestsAnsweredOnce
  <2>2. CASE i <= old /\ j > old
    <3>1. i \in 1..old /\ net'[h][i] = net[h][i]
      BY <1>7, <1>9, <2>2
    <3>2. net[h][i] = CANCEL \/ (net[h][i] \in Nat /\ net[h][i] < mOffset[h])
      BY <1>10, <3>1 DEF InWindow, Request
    <3>3. net'[h][j] = CANCEL \/ net'[h][j] = mOffset[h] + (j - old) - 1
      BY <1>7, <2>2
    <3>4. QED
      BY SMTT(20), <1>7, <1>9, <2>2, <3>1, <3>2, <3>3 DEF Before
  <2>3. CASE i > old
    <3>1. /\ net'[h][i] = CANCEL \/ net'[h][i] = mOffset[h] + (i - old) - 1
          /\ net'[h][j] = CANCEL \/ net'[h][j] = mOffset[h] + (j - old) - 1
      BY <1>7, <1>9, <1>12, <2>3
    <3>2. i \in Nat /\ j \in Nat /\ old \in Nat /\ mOffset[h] \in Nat
      BY <1>7, <1>9
    <3>3. mOffset[h] + (i - old) - 1 < mOffset[h] + (j - old) - 1
      BY <1>12, <3>2
    <3>4. QED
      BY <3>1, <3>3 DEF Before
  <2>4. QED
    BY <1>7, <1>9, <1>12, <2>1, <2>2, <2>3
<1>13. NetRequests'
  <2>1. ASSUME NEW g \in Harpoons
        PROVE  /\ \A i \in DOMAIN net'[g] : InWindowNext(g, net'[g][i])
               /\ \A i, j \in DOMAIN net'[g] : i < j => Before(net'[g][i], net'[g][j])
    <3>1. CASE g = h
      BY <1>11, <1>12, <3>1
    <3>2. CASE g # h
      <4>1. net'[g] = net[g] /\ net[g] \in Seq(Request)
        BY <1>2, <1>8, <3>2
      <4>2. \A i \in DOMAIN net[g] : net[g][i] \in Request
        BY <4>1, ElementOfSeq
      <4>3. QED
        BY <1>6, <4>1, <4>2 DEF NetRequests, IInv, RequestsAnsweredOnce
    <3>3. QED
      BY <3>1, <3>2
  <2>2. QED
    BY <2>1 DEF NetRequests, Before, InWindow, InWindowNext, Answered
<1>14. ASSUME NEW i \in DOMAIN Frames, Frames[i] \in Harpoons
       PROVE  /\ i + 1 \in DOMAIN Frames
              /\ Frames[i + 1] \in Request
              /\ InWindowNext(Frames[i], Frames[i + 1])
              /\ \A k \in DOMAIN net'[Frames[i]] :
                   Before(Frames[i + 1], net'[Frames[i]][k])
              /\ \A j \in DOMAIN Frames :
                   i < j /\ Frames[j] = Frames[i]
                     => Before(Frames[i + 1], Frames[j + 1])
  <2> DEFINE g == Frames[i]
             m == Frames[i + 1]
  <2>1. /\ i + 1 \in DOMAIN Frames
        /\ m \in Request
        /\ InWindow(g, m)
        /\ \A k \in DOMAIN net[g] : Before(m, net[g][k])
        /\ \A j \in DOMAIN Frames : i < j /\ Frames[j] = g => Before(m, Frames[j + 1])
    BY <1>14 DEF FrameRequests, IInv, RequestsAnsweredOnce
  <2>2. InWindowNext(g, m)
    BY <1>6, <1>14, <2>1
  <2>3. ASSUME NEW k \in DOMAIN net'[g]
        PROVE  Before(m, net'[g][k])
    <3> g \in Harpoons
      BY <1>14
    <3> HIDE DEF g, m
    <3>1. CASE g # h
      BY <1>8, <2>1, <2>3, <3>1
    <3>2. CASE g = h /\ k <= old
      BY <1>7, <1>9, <2>1, <2>3, <3>2
    <3>3. CASE g = h /\ k > old
      <4>1. m = CANCEL \/ (m \in Nat /\ m < mOffset[h])
        BY <2>1, <3>3 DEF InWindow, Request
      <4>2. net'[h][k] = CANCEL \/ net'[h][k] = mOffset[h] + (k - old) - 1
        BY <1>7, <2>3, <3>3
      <4>3. k \in Nat /\ old \in Nat /\ mOffset[h] \in Nat
        BY <1>7, <1>9, <2>3, <3>3
      <4>4. mOffset[h] <= mOffset[h] + (k - old) - 1
        BY <3>3, <4>3
      <4>5. CASE m # CANCEL /\ net'[h][k] # CANCEL
        BY <4>1, <4>2, <4>3, <4>4, <4>5, <3>3 DEF Before
      <4>6. QED
        BY <3>3, <4>5 DEF Before
    <3>4. QED
      BY <1>7, <1>9, <2>3, <3>1, <3>2, <3>3
  <2>4. QED
    BY <2>1, <2>2, <2>3
<1>15. FrameRequests'
  BY <1>5, <1>14 DEF FrameRequests, Before, InWindow, InWindowNext, Answered
<1>16. QED
  BY <1>4, <1>13, <1>15 DEF RequestsAnsweredOnce

\* A delivered request was the oldest of its Harpoon, so it is behind all those
\* at the ROUTER and before all those still on their way.
LEMMA DeliveryIsOrdered ==
  ASSUME IInv, TypeOK', NEW h \in Harpoons, Deliver(h)
  PROVE  RequestsAnsweredOnce'
<1> DEFINE r == Head(net[h])
           L == Len(Frames)
<1>1. /\ net[h] \in Seq(Request) /\ net \in [Harpoons -> Seq(Request)]
      /\ Len(net[h]) \in Nat /\ Len(net[h]) >= 1
      /\ r \in Request /\ r = net[h][1]
      /\ net' = [net EXCEPT ![h] = Tail(@)]
      /\ Len(net'[h]) = Len(net[h]) - 1
      /\ DOMAIN net'[h] = 1..Len(net'[h])
      /\ \A i \in DOMAIN net'[h] : net'[h][i] = net[h][i + 1]
  <2>1. net \in [Harpoons -> Seq(Request)] /\ net[h] \in Seq(Request) /\ net[h] # <<>>
    BY DEF IInv, TypeInv, TypeOK, Deliver
  <2>2. net' = [net EXCEPT ![h] = Tail(@)]
    BY DEF Deliver
  <2>3. net'[h] = Tail(net[h])
    BY <2>1, <2>2
  <2>4. QED
    BY <2>1, <2>2, <2>3, HeadTailProperties
<1>2. r \notin Harpoons
  BY <1>1, Assumptions DEF Request
<1>3. /\ mIdentity \in Seq(Frame) /\ rx \in Seq(Frame)
      /\ mIdentity' = mIdentity /\ rx' = rx \o <<h, r>>
      /\ <<h, r>> \in Seq(Frame)
  BY <1>1 DEF IInv, TypeInv, TypeOK, Deliver, kraken, Frame
<1>4. /\ UNCHANGED <<inbox, mCredit, mOffset, received>>
      /\ received \in [Harpoons -> Seq(Nat)] /\ inbox \in [Harpoons -> Seq(Nat)]
  BY DEF IInv, TypeInv, TypeOK, Deliver, harpoon
<1> HIDE DEF r
<1>5. SendsNothing
  BY <1>4 DEF SendsNothing, Answered
<1>6. LosesRequests
  <2>1. ASSUME NEW g \in Harpoons
        PROVE  \E e \in Nat : /\ Len(net'[g]) + e <= Len(net[g])
                             /\ \A i \in DOMAIN net'[g] : net'[g][i] = net[g][i + e]
    <3>1. CASE g = h
      BY <1>1, <3>1
    <3>2. CASE g # h
      <4>1. net'[g] = net[g] /\ net[g] \in Seq(Request) /\ Len(net[g]) \in Nat
        BY <1>1, <3>2
      <4>2. /\ Len(net'[g]) + 0 <= Len(net[g])
            /\ \A i \in DOMAIN net'[g] : net'[g][i] = net[g][i + 0]
        BY <4>1
      <4>3. QED
        BY <4>2
    <3>3. QED
      BY <3>1, <3>2
  <2>2. QED
    BY <2>1 DEF LosesRequests
<1>7. /\ NetRequests'
      /\ \A g \in Harpoons : \A i \in DOMAIN net'[g] :
           \E k \in DOMAIN net[g] : net'[g][i] = net[g][k]
      /\ \A g \in Harpoons, n \in Request : InWindow(g, n) => InWindowNext(g, n)
  BY <1>5, <1>6, FewerNetRequests
<1>8. Credits'
  BY <1>4 DEF Credits, Answered, IInv, RequestsAnsweredOnce
<1>9. /\ L \in Nat /\ Frames \in Seq(Frame) /\ DOMAIN Frames = 1..L
      /\ DOMAIN Frames' = 1..(L + 2)
      /\ \A i \in 1..L : Frames'[i] = Frames[i]
      /\ Frames'[L + 1] = h /\ Frames'[L + 2] = r
  <2>1. Frames \in Seq(Frame) /\ L \in Nat /\ DOMAIN Frames = 1..L
    BY <1>3, ConcatProperties DEF Frames
  <2>2. Frames' = mIdentity \o (rx \o <<h, r>>)
    BY <1>3 DEF Frames
  <2>3. Frames' = Frames \o <<h, r>>
    BY <1>3, <2>2, ConcatAssociative DEF Frames
  <2> DEFINE two == <<h, r>>
  <2>4. two \in Seq(Frame) /\ Len(two) = 2 /\ two[1] = h /\ two[2] = r
    BY <1>3
  <2>5. Frames' = Frames \o two
    BY <2>3
  <2> HIDE DEF two
  <2> DEFINE both == Frames \o two
  <2>10. /\ both \in Seq(Frame) /\ Len(both) = Len(Frames) + Len(two)
         /\ \A i \in 1..(Len(Frames) + Len(two)) :
              both[i] = IF i <= Len(Frames) THEN Frames[i] ELSE two[i - Len(Frames)]
    BY <2>1, <2>4, ConcatProperties
  <2>11. Frames' = both
    BY <2>5
  <2> HIDE DEF both, L
  <2>6. /\ Frames' \in Seq(Frame) /\ Len(Frames') = Len(Frames) + 2
        /\ \A i \in 1..(Len(Frames) + 2) :
             Frames'[i] = IF i <= Len(Frames) THEN Frames[i] ELSE two[i - Len(Frames)]
    BY <2>4, <2>10, <2>11
  <2>7. L = Len(Frames) /\ DOMAIN Frames' = 1..Len(Frames')
    BY <2>6 DEF L
  <2>8. (L + 1) - L = 1 /\ (L + 2) - L = 2
    BY <2>1
  <2>9. QED
    BY <2>1, <2>4, <2>6, <2>7, <2>8
<1> HIDE DEF L
<1>10. ASSUME NEW i \in DOMAIN Frames', Frames'[i] \in Harpoons
       PROVE  /\ i + 1 \in DOMAIN Frames'
              /\ Frames'[i + 1] \in Request
              /\ InWindowNext(Frames'[i], Frames'[i + 1])
              /\ \A k \in DOMAIN net'[Frames'[i]] :
                   Before(Frames'[i + 1], net'[Frames'[i]][k])
              /\ \A j \in DOMAIN Frames' :
                   i < j /\ Frames'[j] = Frames'[i]
                     => Before(Frames'[i + 1], Frames'[j + 1])
  <2>1. CASE i <= L
    <3> DEFINE g == Frames[i]
               m == Frames[i + 1]
    <3>1. i \in DOMAIN Frames /\ Frames'[i] = g /\ g \in Harpoons
      BY <1>9, <1>10, <2>1
    <3>2. /\ i + 1 \in DOMAIN Frames
          /\ m \in Request
          /\ InWindow(g, m)
          /\ \A k \in DOMAIN net[g] : Before(m, net[g][k])
          /\ \A j \in DOMAIN Frames : i < j /\ Frames[j] = g => Before(m, Frames[j + 1])
      BY <3>1 DEF FrameRequests, IInv, RequestsAnsweredOnce
    <3>3. i + 1 \in DOMAIN Frames' /\ Frames'[i + 1] = m
      BY <1>9, <3>1, <3>2
    <3> HIDE DEF g, m
    <3>4. InWindowNext(g, m)
      BY <1>7, <3>1, <3>2
    <3>5. \A k \in DOMAIN net'[g] : Before(m, net'[g][k])
      BY <1>7, <3>1, <3>2
    <3>6. ASSUME NEW j \in DOMAIN Frames', i < j, Frames'[j] = g
          PROVE  Before(m, Frames'[j + 1])
      <4>1. CASE j <= L
        <5>1. j \in DOMAIN Frames /\ Frames[j] = g
          BY <1>9, <3>6, <4>1
        <5>2. j + 1 \in DOMAIN Frames
          BY <3>1, <5>1 DEF FrameRequests, IInv, RequestsAnsweredOnce
        <5>3. Frames'[j + 1] = Frames[j + 1]
          BY <1>9, <5>1, <5>2
        <5>4. QED
          BY <3>2, <3>6, <5>1, <5>3
      <4>2. CASE j = L + 1
        <5>1. g = h /\ Frames'[j + 1] = net[h][1] /\ 1 \in DOMAIN net[h]
          BY <1>1, <1>9, <3>6, <4>2
        <5>2. QED
          BY <3>2, <5>1
      <4>3. CASE j = L + 2
        BY <1>2, <1>9, <3>1, <3>6, <4>3
      <4>4. QED
        BY <1>9, <3>6, <4>1, <4>2, <4>3
    <3>7. QED
      BY <3>1, <3>2, <3>3, <3>4, <3>5, <3>6
  <2>2. CASE i = L + 1
    <3>1. Frames'[i] = h /\ i + 1 \in DOMAIN Frames' /\ Frames'[i + 1] = r
      BY <1>9, <2>2
    <3>2. 1 \in DOMAIN net[h] /\ InWindow(h, r)
      BY <1>1 DEF NetRequests, IInv, RequestsAnsweredOnce
    <3>3. InWindowNext(h, r)
      BY <1>1, <1>7, <3>2
    <3>4. ASSUME NEW k \in DOMAIN net'[h]
          PROVE  Before(r, net'[h][k])
      <4>1. k + 1 \in DOMAIN net[h] /\ 1 < k + 1 /\ net'[h][k] = net[h][k + 1]
        BY <1>1
      <4>2. QED
        BY <1>1, <3>2, <4>1 DEF NetRequests, IInv, RequestsAnsweredOnce
    <3>5. ASSUME NEW j \in DOMAIN Frames', i < j, Frames'[j] = h
          PROVE  FALSE
      <4>1. j = L + 2
        BY <1>9, <2>2, <3>5
      <4>2. QED
        BY <1>2, <1>9, <3>5, <4>1
    <3>6. QED
      BY <1>1, <3>1, <3>3, <3>4, <3>5
  <2>3. CASE i = L + 2
    BY <1>2, <1>9, <1>10, <2>3
  <2>4. QED
    BY <1>9, <2>1, <2>2, <2>3
<1>11. FrameRequests'
  BY <1>10 DEF FrameRequests, Before, InWindow, InWindowNext, Answered
<1>12. QED
  BY <1>7, <1>8, <1>11 DEF RequestsAnsweredOnce

\* A chunk that reaches its Harpoon answers the request that is first in line:
\* every request left over has a higher number, so it is still unanswered.
LEMMA AnswerUsesRequest ==
  ASSUME IInv, TypeOK', NEW id \in Harpoons, NEW n \in Nat, DropsFrames(2),
         Frames[1] = id, Frames[2] # CANCEL,
         inbox' = [inbox EXCEPT ![id] = Append(@, n)],
         UNCHANGED <<net, mOffset, mCredit, received>>
  PROVE  RequestsAnsweredOnce'
<1> DEFINE first == Frames[2]
<1>1. /\ Frames \in Seq(Frame) /\ DOMAIN Frames = 1..Len(Frames) /\ Len(Frames) \in Nat
      /\ Frames' \in Seq(Frame) /\ DOMAIN Frames' = 1..Len(Frames') /\ Len(Frames') \in Nat
      /\ Len(Frames') + 2 = Len(Frames)
      /\ \A i \in DOMAIN Frames' : Frames'[i] = Frames[i + 2]
  BY FramesType DEF IInv, TypeInv, DropsFrames
<1>2. /\ received \in [Harpoons -> Seq(Nat)] /\ inbox \in [Harpoons -> Seq(Nat)]
      /\ inbox' \in [Harpoons -> Seq(Nat)]
      /\ mOffset \in [Harpoons -> Nat] /\ mCredit \in [Harpoons -> Nat]
      /\ net \in [Harpoons -> Seq(Request)]
      /\ received' = received /\ mOffset' = mOffset /\ mCredit' = mCredit /\ net' = net
  BY DEF IInv, TypeInv, TypeOK
<1>3. 1 \in DOMAIN Frames /\ Frames[1] \in Harpoons /\ Frames[1] = id
  BY <1>1
<1>4. /\ first \in Request /\ InWindow(id, first)
      /\ \A k \in DOMAIN net[id] : Before(first, net[id][k])
      /\ \A j \in DOMAIN Frames : 1 < j /\ Frames[j] = id => Before(first, Frames[j + 1])
  <2>1. 1 + 1 = 2
    OBVIOUS
  <2>2. QED
    BY <1>3, <2>1 DEF FrameRequests, IInv, RequestsAnsweredOnce
<1>5. /\ first \in Nat /\ first # CANCEL
      /\ Len(received[id]) + Len(inbox[id]) <= first /\ first < mOffset[id]
  BY <1>4 DEF InWindow, Request, Answered
<1> HIDE DEF first
<1>6. /\ Len(inbox'[id]) = Len(inbox[id]) + 1
      /\ Len(received[id]) \in Nat /\ Len(inbox[id]) \in Nat /\ mOffset[id] \in Nat
      /\ \A g \in Harpoons : g # id => inbox'[g] = inbox[g]
  <2>1. inbox[id] \in Seq(Nat) /\ inbox'[id] = Append(inbox[id], n)
    BY <1>2
  <2>2. Len(inbox'[id]) = Len(inbox[id]) + 1
    BY <2>1, AppendProperties
  <2>3. Len(received[id]) \in Nat /\ Len(inbox[id]) \in Nat
    BY <1>2, <2>1
  <2>4. QED
    BY <1>2, <2>1, <2>2, <2>3
<1>7. \A m \in Nat : first < m => Len(received[id]) + Len(inbox'[id]) <= m
  <2> DEFINE a == Len(received[id])
             b == Len(inbox[id])
  <2>1. a \in Nat /\ b \in Nat /\ a + b <= first /\ first \in Nat /\ Len(inbox'[id]) = b + 1
    BY <1>5, <1>6
  <2> HIDE DEF a, b
  <2>2. \A m \in Nat : first < m => a + (b + 1) <= m
    BY <2>1
  <2> USE DEF a
  <2>3. QED
    BY <2>1, <2>2
<1>8. ASSUME NEW g \in Harpoons, NEW m \in Request, InWindow(g, m),
             g = id => Before(first, m)
      PROVE  InWindowNext(g, m)
  <2>1. CASE g # id
    BY <1>2, <1>6, <1>8, <2>1 DEF InWindow, InWindowNext, Answered
  <2>2. CASE g = id /\ m # CANCEL
    <3>1. m \in Nat /\ first < m /\ m < mOffset[id]
      BY <1>5, <1>8, <2>2 DEF Before, InWindow, Request
    <3>2. Len(received[id]) + Len(inbox'[id]) <= m
      BY <1>7, <3>1
    <3>3. QED
      BY <1>2, <2>2, <3>1, <3>2 DEF InWindowNext
  <2>3. CASE m = CANCEL
    BY <2>3 DEF InWindowNext
  <2>4. QED
    BY <2>1, <2>2, <2>3
<1>9. NetRequests'
  <2>1. ASSUME NEW g \in Harpoons, NEW i \in DOMAIN net[g]
        PROVE  InWindowNext(g, net[g][i])
    <3>1. net[g][i] \in Request
      BY <1>2, ElementOfSeq
    <3>2. InWindow(g, net[g][i])
      BY DEF NetRequests, IInv, RequestsAnsweredOnce
    <3>3. QED
      BY <1>4, <1>8, <3>1, <3>2
  <2>2. QED
    BY <1>2, <2>1 DEF NetRequests, Before, InWindow, InWindowNext, Answered,
                      IInv, RequestsAnsweredOnce
<1>10. ASSUME NEW i \in DOMAIN Frames', Frames'[i] \in Harpoons
      PROVE  /\ i + 1 \in DOMAIN Frames'
             /\ Frames'[i + 1] \in Request
             /\ InWindowNext(Frames'[i], Frames'[i + 1])
             /\ \A k \in DOMAIN net'[Frames'[i]] :
                  Before(Frames'[i + 1], net'[Frames'[i]][k])
             /\ \A j \in DOMAIN Frames' :
                  i < j /\ Frames'[j] = Frames'[i]
                    => Before(Frames'[i + 1], Frames'[j + 1])
  <2> DEFINE g == Frames'[i]
             m == Frames[(i + 2) + 1]
  <2>1. i + 2 \in DOMAIN Frames /\ Frames[i + 2] = g /\ g \in Harpoons /\ 1 < i + 2
    BY <1>1, <1>10
  <2>2. /\ (i + 2) + 1 \in DOMAIN Frames
        /\ m \in Request
        /\ InWindow(g, m)
        /\ \A k \in DOMAIN net[g] : Before(m, net[g][k])
        /\ \A j \in DOMAIN Frames : (i + 2) < j /\ Frames[j] = g => Before(m, Frames[j + 1])
    BY <2>1 DEF FrameRequests, IInv, RequestsAnsweredOnce
  <2>3. i + 1 \in DOMAIN Frames' /\ Frames'[i + 1] = m
    BY <1>1, <2>1, <2>2
  <2>4. g = id => Before(first, m)
    BY <1>4, <2>1
  <2> HIDE DEF g, m
  <2>5. InWindowNext(g, m)
    BY <1>8, <2>1, <2>2, <2>4
  <2>6. \A k \in DOMAIN net'[g] : Before(m, net'[g][k])
    BY <1>2, <2>2
  <2>7. ASSUME NEW j \in DOMAIN Frames', i < j, Frames'[j] = g
        PROVE  Before(m, Frames'[j + 1])
    <3>1. j + 2 \in DOMAIN Frames /\ Frames[j + 2] = g /\ i + 2 < j + 2
      BY <1>1, <2>7
    <3>2. (j + 2) + 1 \in DOMAIN Frames
      BY <2>1, <3>1 DEF FrameRequests, IInv, RequestsAnsweredOnce
    <3>3. Frames'[j + 1] = Frames[(j + 2) + 1]
      BY <1>1, <3>1, <3>2
    <3>4. QED
      BY <2>2, <3>1, <3>3
  <2> USE DEF g
  <2>8. QED
    BY <2>2, <2>3, <2>5, <2>6, <2>7
<1>11. FrameRequests'
  BY <1>10 DEF FrameRequests, Before, InWindow, InWindowNext, Answered
<1>12. Credits'
  <2>1. ASSUME NEW g \in Harpoons
        PROVE  Len(received[g]) + Len(inbox'[g]) <= mOffset[g]
    <3>1. CASE g = id
      BY <1>5, <1>6, <1>7, <3>1
    <3>2. CASE g # id
      BY <1>6, <3>2 DEF Credits, IInv, RequestsAnsweredOnce, Answered
    <3>3. QED
      BY <3>1, <3>2
  <2>2. QED
    BY <1>2, <2>1 DEF Credits, Answered, IInv, RequestsAnsweredOnce
<1>13. QED
  BY <1>9, <1>11, <1>12 DEF RequestsAnsweredOnce

\* What is the case in both states of a step that leaves the channels alone.
LEMMA QuietStep ==
  ASSUME TypeOK
  PROVE  /\ net' = net => LosesRequests
         /\ UNCHANGED <<inbox, mOffset, received>> => SendsNothing
         /\ UNCHANGED <<mCredit, received>> => KeepsCredit
<1>1. ASSUME net' = net PROVE LosesRequests
  <2>1. ASSUME NEW h \in Harpoons
        PROVE  /\ Len(net'[h]) + 0 <= Len(net[h])
               /\ \A i \in DOMAIN net'[h] : net'[h][i] = net[h][i + 0]
    <3>1. net[h] \in Seq(Request) /\ net'[h] = net[h]
      BY <1>1 DEF TypeOK
    <3>2. Len(net[h]) \in Nat /\ DOMAIN net[h] = 1..Len(net[h])
      BY <3>1
    <3>3. QED
      BY <3>1, <3>2
  <2>2. QED
    BY <2>1 DEF LosesRequests
<1>2. ASSUME UNCHANGED <<inbox, mOffset, received>> PROVE SendsNothing
  BY <1>2 DEF SendsNothing, Answered, TypeOK
<1>3. ASSUME UNCHANGED <<mCredit, received>> PROVE KeepsCredit
  BY <1>3 DEF KeepsCredit, TypeOK
<1>4. QED
  BY <1>1, <1>2, <1>3

\* A Harpoon's steps keep each request answered at most once.
LEMMA HarpoonAnswers ==
  ASSUME IInv, TypeOK', NEW h \in Harpoons, HarpoonStep(h)
  PROVE  RequestsAnsweredOnce'
<1>1. TypeOK
  BY DEF IInv, TypeInv
<1>2. CASE Aim(h) \/ HeaveTimeout(h) \/ HeaveInterrupt(h)
  <2>1. /\ mIdentity' = mIdentity /\ rx' = rx /\ net' = net
        /\ UNCHANGED <<inbox, mOffset, received>> /\ UNCHANGED <<mCredit, received>>
    BY <1>2 DEF Aim, HeaveTimeout, HeaveInterrupt, kraken
  <2>2. DropsFrames(0)
    BY <1>1, <2>1, FrameSteps
  <2>3. LosesRequests /\ SendsNothing /\ KeepsCredit
    BY <1>1, <2>1, QuietStep
  <2>4. QED
    BY <2>2, <2>3, FewerRequests
<1>3. CASE Heave(h) \/ Cancel(h)
  BY <1>3, AskingIsOrdered
<1>4. CASE HeaveChunk(h)
  <2>1. mIdentity' = mIdentity /\ rx' = rx /\ net' = net /\ mOffset' = mOffset
    BY <1>4 DEF HeaveChunk, kraken
  <2>2. DropsFrames(0)
    BY <1>1, <2>1, FrameSteps
  <2>3. LosesRequests
    BY <1>1, <2>1, QuietStep
  <2>4. /\ received \in [Harpoons -> Seq(Nat)] /\ inbox \in [Harpoons -> Seq(Nat)]
        /\ mCredit \in [Harpoons -> Nat]
    BY <1>1 DEF TypeOK
  <2>5. ASSUME NEW g \in Harpoons
        PROVE  /\ Len(received'[g]) + Len(inbox'[g]) <= Len(received[g]) + Len(inbox[g])
               /\ mCredit'[g] + Len(received[g]) <= mCredit[g] + Len(received'[g])
    <3>1. /\ Len(received[g]) \in Nat /\ Len(inbox[g]) \in Nat /\ mCredit[g] \in Nat
          /\ received[g] \in Seq(Nat) /\ inbox[g] \in Seq(Nat)
      BY <2>4
    <3>2. CASE g # h
      <4>1. received'[g] = received[g] /\ inbox'[g] = inbox[g] /\ mCredit'[g] = mCredit[g]
        BY <1>4, <2>4, <3>2 DEF HeaveChunk
      <4>2. QED
        BY <3>1, <4>1
    <3>3. CASE g = h
      <4>1. /\ inbox[g] # <<>> /\ received'[g] = Append(received[g], Head(inbox[g]))
            /\ inbox'[g] = Tail(inbox[g])
            /\ mCredit'[g] \in {mCredit[g], mCredit[g] + 1}
        BY <1>4, <2>4, <3>3 DEF HeaveChunk, CreditFor
      <4>2. Len(inbox'[g]) = Len(inbox[g]) - 1 /\ Len(inbox[g]) > 0 /\ Head(inbox[g]) \in Nat
        BY <3>1, <4>1, HeadTailProperties
      <4>3. Len(received'[g]) = Len(received[g]) + 1
        BY <3>1, <4>1, <4>2, AppendProperties
      <4> DEFINE a == Len(received[g])
                 b == Len(inbox[g])
                 c == mCredit[g]
      <4>4. /\ a \in Nat /\ b \in Nat /\ c \in Nat
            /\ Len(received'[g]) = a + 1 /\ Len(inbox'[g]) = b - 1
            /\ mCredit'[g] = c \/ mCredit'[g] = c + 1
        BY <3>1, <4>1, <4>2, <4>3
      <4> HIDE DEF a, b, c
      <4>5. (a + 1) + (b - 1) <= a + b /\ c + a <= c + (a + 1) /\ (c + 1) + a <= c + (a + 1)
        BY <4>4
      <4>6. /\ Len(received'[g]) + Len(inbox'[g]) <= a + b
            /\ mCredit'[g] + a <= c + Len(received'[g])
        BY <4>4, <4>5
      <4> USE DEF a, b, c
      <4>7. QED
        BY <4>6
    <3>4. QED
      BY <3>2, <3>3
  <2>6. SendsNothing /\ KeepsCredit
    BY <2>1, <2>5 DEF SendsNothing, KeepsCredit, Answered
  <2>7. QED
    BY <2>2, <2>3, <2>6, FewerRequests
<1>5. CASE Deliver(h)
  BY <1>5, DeliveryIsOrdered
<1>6. CASE Crash(h)
  <2>1. /\ mIdentity' = mIdentity /\ rx' = rx
        /\ UNCHANGED <<mOffset, mCredit, received>>
        /\ inbox' = [inbox EXCEPT ![h] = <<>>]
    BY <1>6 DEF Crash, kraken
  <2>2. DropsFrames(0)
    BY <1>1, <2>1, FrameSteps
  <2>3. ASSUME NEW g \in Harpoons
        PROVE  /\ Len(net'[g]) + 0 <= Len(net[g])
               /\ \A i \in DOMAIN net'[g] : net'[g][i] = net[g][i + 0]
    <3>1. net \in [Harpoons -> Seq(Request)] /\ net[g] \in Seq(Request)
      BY <1>1 DEF TypeOK
    <3>2. PICK kept \in Prefixes(net[h]) : net' = [net EXCEPT ![h] = kept]
      BY <1>6 DEF Crash
    <3>3. /\ net'[g] \in Seq(Request) /\ Len(net'[g]) <= Len(net[g])
          /\ \A i \in 1..Len(net'[g]) : net'[g][i] = net[g][i]
      BY <3>1, <3>2, PrefixFacts
    <3>4. Len(net'[g]) \in Nat /\ Len(net[g]) \in Nat /\ DOMAIN net'[g] = 1..Len(net'[g])
      BY <3>1, <3>3
    <3>5. QED
      BY <3>3, <3>4
  <2>4. LosesRequests
    BY <2>3 DEF LosesRequests
  <2>5. SendsNothing /\ KeepsCredit
    <3>1. KeepsCredit
      BY <1>1, <2>1, QuietStep
    <3>2. ASSUME NEW g \in Harpoons
          PROVE  Len(received'[g]) + Len(inbox'[g]) <= Len(received[g]) + Len(inbox[g])
      <4>1. received \in [Harpoons -> Seq(Nat)] /\ inbox \in [Harpoons -> Seq(Nat)]
        BY <1>1 DEF TypeOK
      <4>2. Len(received[g]) \in Nat /\ Len(inbox[g]) \in Nat
        BY <4>1
      <4>3. Len(inbox'[g]) = 0 \/ inbox'[g] = inbox[g]
        BY <2>1, <4>1
      <4>4. QED
        BY <2>1, <4>2, <4>3
    <3>3. QED
      BY <2>1, <3>1, <3>2 DEF SendsNothing, Answered
  <2>6. QED
    BY <2>2, <2>4, <2>5, FewerRequests
<1>7. QED
  BY <1>2, <1>3, <1>4, <1>5, <1>6 DEF HarpoonStep

\* The Kraken's steps keep each request answered at most once.
LEMMA KrakenAnswers ==
  ASSUME IInv, TypeOK', KrakenStep
  PROVE  RequestsAnsweredOnce'
<1>1. /\ TypeOK
      /\ kpc # "reading" => mIdentity = <<>>
      /\ kpc = "reading" => Len(mIdentity) = 1
      /\ Len(mIdentity) \in Nat /\ Len(Frames) \in Nat
  <2>1. TypeOK
    BY DEF IInv, TypeInv
  <2>2. mIdentity \in Seq(Frame) /\ Len(mIdentity) = IF kpc = "reading" THEN 1 ELSE 0
    BY <2>1 DEF TypeOK
  <2>3. Frames \in Seq(Frame)
    BY <2>1, FramesType
  <2>4. QED
    BY <2>1, <2>2, <2>3, EmptySeq
<1> DEFINE Chunkless == UNCHANGED <<inbox, mOffset, received>> /\ UNCHANGED <<mCredit, received>>
<1>2. ASSUME NEW d \in Nat, DropsFrames(d), net' = net, Chunkless
      PROVE  RequestsAnsweredOnce'
  <2>1. LosesRequests /\ SendsNothing /\ KeepsCredit
    BY <1>1, <1>2, QuietStep
  <2>2. QED
    BY <1>2, <2>1, FewerRequests
<1>3. CASE (\E size \in Sizes : SendTidalWave(size)) \/ FinalBreach
  <2>1. mIdentity' = mIdentity /\ rx' = rx /\ net' = net /\ Chunkless
    BY <1>3 DEF SendTidalWave, FinalBreach, harpoon
  <2>2. DropsFrames(0)
    BY <1>1, <2>1, FrameSteps
  <2>3. QED
    BY <1>2, <2>1, <2>2
<1>4. CASE RecvIdentity
  <2>1. /\ mIdentity = <<>> /\ mIdentity' = <<Head(rx)>> /\ rx # <<>> /\ rx' = Tail(rx)
        /\ net' = net /\ Chunkless
    BY <1>1, <1>4 DEF RecvIdentity, harpoon
  <2>2. DropsFrames(0)
    BY <1>1, <2>1, FrameSteps
  <2>3. QED
    BY <1>2, <2>1, <2>2
<1>5. CASE NextChunkIdTimeout \/ NextChunkIdInterrupt
  <2>1. mIdentity' = <<>> /\ rx' = rx /\ net' = net /\ Chunkless
    BY <1>5 DEF NextChunkIdTimeout, NextChunkIdInterrupt, Return, harpoon
  <2>2. DropsFrames(Len(mIdentity))
    BY <1>1, <2>1, FrameSteps
  <2>3. QED
    BY <1>1, <1>2, <2>1, <2>2
<1>6. CASE NextChunkIdCancel
  <2>1. /\ Len(mIdentity) = 1 /\ mIdentity' = <<>> /\ rx # <<>> /\ rx' = Tail(rx)
        /\ net' = net /\ Chunkless
    BY <1>1, <1>6 DEF NextChunkIdCancel, Return, harpoon
  <2>2. DropsFrames(2)
    BY <1>1, <2>1, FrameSteps
  <2>3. QED
    BY <1>2, <2>1, <2>2
<1>7. CASE SendRawData
  <2> DEFINE id == Head(mIdentity)
             n == Len(accepted) + 1
  <2>1. /\ kpc = "reading" /\ Len(mIdentity) = 1 /\ mIdentity' = <<>>
        /\ rx # <<>> /\ rx' = Tail(rx) /\ Head(rx) # CANCEL
        /\ UNCHANGED <<net, mOffset, mCredit, received>>
    BY <1>1, <1>7 DEF SendRawData, Return, harpoon
  <2>2. DropsFrames(2)
    BY <1>1, <2>1, FrameSteps
  <2>3. n \in Nat
    BY <1>1 DEF TypeOK
  <2>4. \/ Routable(id) /\ inbox' = [inbox EXCEPT ![id] = Append(@, n)]
        \/ inbox' = inbox
    BY <1>7 DEF SendRawData, SendTo
  <2>5. CASE inbox' = inbox
    BY <1>2, <2>1, <2>2, <2>5
  <2>6. CASE Routable(id) /\ inbox' = [inbox EXCEPT ![id] = Append(@, n)]
    <3>1. id \in Harpoons
      BY <2>6 DEF Routable
    <3>2. Frames[1] = id /\ Frames[2] = Head(rx)
      <4>1. mIdentity \in Seq(Frame) /\ rx \in Seq(Frame)
        BY <1>1 DEF TypeOK
      <4>2. Len(rx) >= 1 /\ Head(rx) = rx[1] /\ id = mIdentity[1]
        BY <2>1, <4>1, HeadTailProperties
      <4>3. \A i \in 1..(1 + Len(rx)) :
              Frames[i] = IF i <= 1 THEN mIdentity[i] ELSE rx[i - 1]
        <5>1. \A i \in 1..(Len(mIdentity) + Len(rx)) : (mIdentity \o rx)[i] =
                IF i <= Len(mIdentity) THEN mIdentity[i] ELSE rx[i - Len(mIdentity)]
          BY <4>1, ConcatProperties
        <5>2. QED
          BY <2>1, <5>1 DEF Frames
      <4>4. QED
        BY SMTT(20), <4>1, <4>2, <4>3
    <3> HIDE DEF id, n
    <3>3. QED
      BY <2>1, <2>2, <2>3, <2>6, <3>1, <3>2, AnswerUsesRequest
  <2>7. QED
    BY <2>4, <2>5, <2>6
<1>8. CASE FinalBreachDrain
  <2>1. /\ mIdentity = <<>> /\ mIdentity' = <<>>
        /\ rx' = rx \/ (rx # <<>> /\ rx' = Tail(rx))
        /\ net' = net /\ Chunkless
    BY <1>1, <1>8 DEF FinalBreachDrain, harpoon
  <2>2. DropsFrames(0) \/ DropsFrames(1)
    BY <1>1, <2>1, FrameSteps
  <2>3. QED
    BY <1>2, <2>1, <2>2
<1>9. CASE KrakenRestart
  <2>1. /\ mIdentity' = <<>> /\ rx' = <<>>
        /\ UNCHANGED <<mOffset, mCredit, received>>
    BY <1>9 DEF KrakenRestart, harpoon
  <2>2. DropsFrames(Len(Frames))
    BY <1>1, <2>1, FrameSteps
  <2>3. LosesRequests
    <3>1. ASSUME NEW h \in Harpoons
          PROVE  \E e \in Nat : /\ Len(net'[h]) + e <= Len(net[h])
                               /\ \A i \in DOMAIN net'[h] : net'[h][i] = net[h][i + e]
      <4>1. net[h] \in Seq(Request) /\ net'[h] \in Suffixes(net[h])
        BY <1>1, <1>9 DEF KrakenRestart, TypeOK
      <4>2. /\ net'[h] \in Seq(Request)
            /\ \E d \in 0..Len(net[h]) : /\ Len(net'[h]) = Len(net[h]) - d
                                        /\ \A i \in 1..Len(net'[h]) : net'[h][i] = net[h][i + d]
        BY <4>1, SuffixFacts
      <4>3. PICK d \in 0..Len(net[h]) : /\ Len(net'[h]) = Len(net[h]) - d
                                       /\ \A i \in 1..Len(net'[h]) : net'[h][i] = net[h][i + d]
        BY <4>2
      <4>4. DOMAIN net'[h] = 1..Len(net'[h]) /\ d \in Nat /\ Len(net[h]) \in Nat
        BY <4>1, <4>2
      <4>5. Len(net'[h]) + d <= Len(net[h])
        BY <4>3, <4>4
      <4>6. QED
        BY <4>3, <4>4, <4>5
    <3>2. QED
      BY <3>1 DEF LosesRequests
  <2>4. SendsNothing /\ KeepsCredit
    <3>1. KeepsCredit
      BY <1>1, <2>1, QuietStep
    <3>2. ASSUME NEW h \in Harpoons
          PROVE  Len(received[h]) + Len(inbox'[h]) <= Len(received[h]) + Len(inbox[h])
      <4>1. /\ inbox[h] \in Seq(Nat) /\ inbox'[h] \in Prefixes(inbox[h])
            /\ received[h] \in Seq(Nat)
        BY <1>1, <1>9 DEF KrakenRestart, TypeOK
      <4>2. inbox'[h] \in Seq(Nat) /\ Len(inbox'[h]) <= Len(inbox[h])
        BY <4>1, PrefixFacts
      <4>3. Len(inbox'[h]) \in Nat /\ Len(inbox[h]) \in Nat /\ Len(received[h]) \in Nat
        BY <4>1, <4>2
      <4>4. QED
        BY <4>2, <4>3
    <3>3. QED
      BY <2>1, <3>1, <3>2 DEF SendsNothing, Answered
  <2>5. QED
    BY <1>1, <2>2, <2>3, <2>4, FewerRequests
<1>10. QED
  BY <1>3, <1>4, <1>5, <1>6, <1>7, <1>8, <1>9 DEF KrakenStep

\* No request is ever answered twice, whatever is cancelled, interrupted, lost or
\* restarted: Kraken.cpp answers what NextChunkId hands it and checks no number.
THEOREM EachRequestAnsweredOnce == Spec => []RequestsAnsweredOnce
<1>1. Init => IInv
  <2> SUFFICES ASSUME Init PROVE IInv
    OBVIOUS
  <2>1. TypeInv
    BY Assumptions DEF Init, TypeInv, TypeOK, CallInProgress
  <2>2. Frames = <<>> /\ \A h \in Harpoons : net[h] = <<>>
    BY DEF Init, Frames
  <2>3. NetRequests /\ FrameRequests
    BY <2>2 DEF NetRequests, FrameRequests
  <2>4. Credits
    BY Assumptions DEF Init, Credits, Answered
  <2>5. QED
    BY <2>1, <2>3, <2>4 DEF IInv, RequestsAnsweredOnce
<1>2. IInv /\ [Next]_vars => IInv'
  <2> SUFFICES ASSUME IInv, [Next]_vars
               PROVE  IInv'
    OBVIOUS
  <2>1. CASE UNCHANGED vars
    <3>1. TypeOK /\ TypeInv'
      BY <2>1 DEF vars, kraken, harpoon, IInv, TypeInv, TypeOK, CallInProgress
    <3>2. /\ mIdentity' = mIdentity /\ rx' = rx /\ net' = net
          /\ UNCHANGED <<inbox, mOffset, received>> /\ UNCHANGED <<mCredit, received>>
      BY <2>1 DEF vars, kraken, harpoon
    <3>3. TypeOK'
      BY <3>1 DEF TypeInv
    <3>4. DropsFrames(0)
      BY <3>1, <3>2, <3>3, FrameSteps
    <3>5. LosesRequests /\ SendsNothing /\ KeepsCredit
      BY <3>1, <3>2, QuietStep
    <3>6. QED
      BY <3>1, <3>3, <3>4, <3>5, FewerRequests DEF IInv
  <2>2. CASE Next
    <3>1. TypeInv'
      BY <2>2, HarpoonType, KrakenType DEF Next, IInv
    <3>2. TypeOK'
      BY <3>1 DEF TypeInv
    <3>3. RequestsAnsweredOnce'
      BY <2>2, <3>2, HarpoonAnswers, KrakenAnswers DEF Next
    <3>4. QED
      BY <3>1, <3>3 DEF IInv
  <2>3. QED
    BY <2>1, <2>2
<1>3. IInv => RequestsAnsweredOnce
  BY DEF IInv
<1>4. QED
  BY <1>1, <1>2, <1>3, PTL DEF Spec

\* The flow control of Kraken.cpp:95-97 for every queue length: what is on its way
\* to a Harpoon and what it may still ask for fit in the queue.
THEOREM FlowControlHolds == Spec => []FlowControl
<1>1. TypeOK /\ RequestsAnsweredOnce => FlowControl
  <2> SUFFICES ASSUME TypeOK, RequestsAnsweredOnce, NEW h \in Harpoons
               PROVE  Len(inbox[h]) + mCredit[h] <= QueueLength
    BY DEF FlowControl
  <2>1. /\ Len(inbox[h]) \in Nat /\ Len(received[h]) \in Nat
        /\ mCredit[h] \in Nat /\ mOffset[h] \in Nat /\ QueueLength \in Nat
    BY Assumptions DEF TypeOK
  <2>2. /\ Len(received[h]) + Len(inbox[h]) <= mOffset[h]
        /\ mCredit[h] + mOffset[h] <= QueueLength + Len(received[h])
    BY DEF RequestsAnsweredOnce, Credits, Answered
  <2> DEFINE a == Len(received[h])
             b == Len(inbox[h])
  <2>3. /\ a \in Nat /\ b \in Nat /\ a + b <= mOffset[h]
        /\ mCredit[h] + mOffset[h] <= QueueLength + a
    BY <2>1, <2>2
  <2> HIDE DEF a, b
  <2>4. b + mCredit[h] <= QueueLength
    BY <2>1, <2>3
  <2> USE DEF b
  <2>5. QED
    BY <2>4
<1>2. QED
  BY <1>1, TypeCorrect, EachRequestAnsweredOnce, PTL

-----------------------------------------------------------------------------
(* Order and whereabouts of the chunks *)

Rising(s) == \A i, j \in DOMAIN s : i < j => s[i] < s[j]

\* What a Harpoon's application has, or its socket.
Has(h) == Range(received[h]) \cup Range(inbox[h])

SentOnce(h) ==
  /\ Rising(received[h]) /\ Rising(inbox[h])
  /\ \A m \in Range(received[h]), n \in Range(inbox[h]) : m < n

\* Every chunk has one place.
Placed ==
  /\ lost \subseteq 1..Len(accepted)
  /\ \A h \in Harpoons : Has(h) \subseteq 1..Len(accepted)
  /\ \A n \in 1..Len(accepted) : n \in lost \/ \E h \in Harpoons : n \in Has(h)
  /\ \A h \in Harpoons : lost \cap Has(h) = {}
  /\ \A g, h \in Harpoons : g # h => Has(g) \cap Has(h) = {}

SentInv == Placed /\ \A h \in Harpoons : SentOnce(h)

LEMMA AppendRises ==
  ASSUME NEW s \in Seq(Nat), NEW x \in Nat
  PROVE  /\ Range(Append(s, x)) = Range(s) \cup {x}
         /\ Rising(s) /\ (\A n \in Range(s) : n < x) => Rising(Append(s, x))
<1>1. PICK t, k : t = Append(s, x) /\ k = Len(s)
  OBVIOUS
<1>2. /\ k \in Nat /\ DOMAIN s = 1..k /\ DOMAIN t = 1..(k + 1) /\ t[k + 1] = x
      /\ \A i \in 1..k : t[i] = s[i]
  BY <1>1, AppendProperties
<1>3. Range(t) = Range(s) \cup {x}
  <2>1. ASSUME NEW y \in Range(t)
        PROVE  y \in Range(s) \cup {x}
    <3>1. PICK i \in 1..(k + 1) : y = t[i]
      BY <1>2, <2>1 DEF Range
    <3>2. i = k + 1 \/ i \in 1..k
      BY <1>2, <3>1
    <3>3. QED
      BY <1>2, <3>1, <3>2 DEF Range
  <2>2. Range(s) \subseteq Range(t)
    <3>1. 1..k \subseteq 1..(k + 1)
      BY <1>2
    <3>2. QED
      BY <1>2, <3>1 DEF Range
  <2>3. x \in Range(t)
    <3>1. k + 1 \in 1..(k + 1)
      BY <1>2
    <3>2. QED
      BY <1>2, <3>1 DEF Range
  <2>4. QED
    BY <2>1, <2>2, <2>3
<1>4. ASSUME Rising(s), \A n \in Range(s) : n < x
      PROVE  Rising(t)
  <2>1. ASSUME NEW i \in 1..(k + 1), NEW j \in 1..(k + 1), i < j
        PROVE  t[i] < t[j]
    <3>1. i \in 1..k /\ t[i] = s[i] /\ s[i] \in Range(s)
      BY <1>2, <2>1 DEF Range
    <3>2. j = k + 1 \/ (j \in 1..k /\ t[j] = s[j])
      BY <1>2, <2>1
    <3>3. QED
      BY <1>2, <1>4, <2>1, <3>1, <3>2 DEF Rising
  <2>2. QED
    BY <1>2, <2>1 DEF Rising
<1>5. QED
  BY <1>1, <1>3, <1>4

LEMMA TailRises ==
  ASSUME NEW s \in Seq(Nat), s # <<>>, Rising(s)
  PROVE  /\ Rising(Tail(s)) /\ Head(s) \in Nat /\ Tail(s) \in Seq(Nat)
         /\ Range(s) = {Head(s)} \cup Range(Tail(s))
         /\ \A n \in Range(Tail(s)) : Head(s) < n
<1>1. PICK t, h, k : t = Tail(s) /\ h = Head(s) /\ k = Len(s)
  OBVIOUS
<1>2. /\ k \in Nat \ {0} /\ DOMAIN s = 1..k /\ DOMAIN t = 1..(k - 1) /\ h = s[1] /\ h \in Nat
      /\ t \in Seq(Nat) /\ \A i \in 1..(k - 1) : t[i] = s[i + 1]
  BY <1>1, HeadTailProperties
<1>3. Rising(t)
  <2>1. ASSUME NEW i \in 1..(k - 1), NEW j \in 1..(k - 1), i < j
        PROVE  t[i] < t[j]
    <3>1. i + 1 \in 1..k /\ j + 1 \in 1..k /\ i + 1 < j + 1
      BY <1>2, <2>1
    <3>2. s[i + 1] < s[j + 1]
      BY <1>2, <3>1 DEF Rising
    <3>3. QED
      BY <1>2, <2>1, <3>2
  <2>2. QED
    BY <1>2, <2>1 DEF Rising
<1>4. Range(s) = {h} \cup Range(t)
  <2>1. ASSUME NEW y \in Range(s)
        PROVE  y \in {h} \cup Range(t)
    <3>1. PICK i \in 1..k : y = s[i]
      BY <1>2, <2>1 DEF Range
    <3>2. CASE i = 1
      BY <1>2, <3>1, <3>2
    <3>3. CASE i # 1
      <4>1. PICK j \in 1..(k - 1) : i = j + 1
        <5>1. i - 1 \in 1..(k - 1) /\ i = (i - 1) + 1
          BY <1>2, <3>3
        <5>2. QED
          BY <5>1
      <4>2. QED
        BY <1>2, <3>1, <4>1 DEF Range
    <3>4. QED
      BY <3>2, <3>3
  <2>2. ASSUME NEW y \in Range(t)
        PROVE  y \in Range(s)
    <3>1. PICK i \in 1..(k - 1) : y = t[i]
      BY <1>2, <2>2 DEF Range
    <3>2. i + 1 \in 1..k
      BY <1>2
    <3>3. QED
      BY <1>2, <3>1, <3>2 DEF Range
  <2>3. h \in Range(s)
    <3>1. 1 \in 1..k
      BY <1>2
    <3>2. QED
      BY <1>2, <3>1 DEF Range
  <2>4. QED
    BY <2>1, <2>2, <2>3
<1>5. ASSUME NEW n \in Range(t)
      PROVE  h < n
  <2>1. PICK i \in 1..(k - 1) : n = t[i]
    BY <1>2, <1>5 DEF Range
  <2>2. 1 \in 1..k /\ i + 1 \in 1..k /\ 1 < i + 1
    BY <1>2
  <2>3. s[1] < s[i + 1]
    BY <1>2, <2>2 DEF Rising
  <2>4. QED
    BY <1>2, <2>1, <2>3
<1>6. QED
  BY <1>1, <1>2, <1>3, <1>4, <1>5

LEMMA PrefixRises ==
  ASSUME NEW s \in Seq(Nat), Rising(s), NEW p \in Prefixes(s)
  PROVE  Rising(p) /\ Range(p) \subseteq Range(s)
<1>1. PICK k, l : k = Len(p) /\ l = Len(s)
  OBVIOUS
<1>2. /\ k \in Nat /\ l \in Nat /\ k <= l /\ DOMAIN p = 1..k /\ DOMAIN s = 1..l
      /\ \A i \in 1..k : i \in 1..l /\ p[i] = s[i]
  <2>1. p \in Seq(Nat) /\ Len(p) <= Len(s) /\ \A i \in 1..Len(p) : p[i] = s[i]
    BY PrefixFacts
  <2>2. k \in Nat /\ l \in Nat /\ k <= l
    BY <1>1, <2>1
  <2>3. QED
    BY <1>1, <2>1, <2>2
<1>3. QED
  BY SMTT(20), <1>2 DEF Rising, Range

\* Steps that send and drop nothing; a chunk taken from the socket; chunks dropped; a
\* chunk sent.
LEMMA SameSent ==
  ASSUME SentInv, UNCHANGED <<accepted, received, inbox, lost>>
  PROVE  SentInv'
  BY DEF SentInv, Placed, SentOnce, Has

LEMMA TakingKeepsSent ==
  ASSUME TypeOK, SentInv, NEW h \in Harpoons, HeaveChunk(h)
  PROVE  SentInv'
<1>1. PICK r, s, x : r = received[h] /\ s = inbox[h] /\ x = Head(inbox[h])
  OBVIOUS
<1>2. /\ s # <<>> /\ r \in Seq(Nat) /\ s \in Seq(Nat)
      /\ Rising(r) /\ Rising(s) /\ \A m \in Range(r), n \in Range(s) : m < n
  BY <1>1 DEF TypeOK, HeaveChunk, SentInv, SentOnce
<1>3. /\ received' = [received EXCEPT ![h] = Append(r, x)]
      /\ inbox' = [inbox EXCEPT ![h] = Tail(s)]
      /\ UNCHANGED <<accepted, lost>>
  BY <1>1 DEF HeaveChunk
<1>4. /\ Rising(Tail(s)) /\ x \in Nat /\ Range(s) = {x} \cup Range(Tail(s))
      /\ \A n \in Range(Tail(s)) : x < n
  <2>1. /\ Rising(Tail(s)) /\ Head(s) \in Nat /\ Range(s) = {Head(s)} \cup Range(Tail(s))
        /\ \A n \in Range(Tail(s)) : Head(s) < n
    BY <1>2, TailRises
  <2>2. QED
    BY <1>1, <2>1
<1>5. Range(Append(r, x)) = Range(r) \cup {x} /\ Rising(Append(r, x))
  BY <1>2, <1>4, AppendRises
<1>6. \A g \in Harpoons \ {h} : received'[g] = received[g] /\ inbox'[g] = inbox[g]
  BY <1>3 DEF TypeOK
<1>7. received'[h] = Append(r, x) /\ inbox'[h] = Tail(s)
  BY <1>3 DEF TypeOK
<1>8. SentOnce(h)'
  <2>1. \A m \in Range(r) \cup {x}, n \in Range(Tail(s)) : m < n
    BY <1>2, <1>4
  <2>2. QED
    BY <1>4, <1>5, <1>7, <2>1 DEF SentOnce
<1>9. \A g \in Harpoons : Has(g)' = Has(g)
  <2>1. Has(h)' = Has(h)
    BY <1>1, <1>4, <1>5, <1>7 DEF Has
  <2>2. QED
    BY <1>6, <2>1 DEF Has
<1>10. Placed'
  BY <1>3, <1>9 DEF SentInv, Placed
<1>11. \A g \in Harpoons \ {h} : SentOnce(g)'
  BY <1>6 DEF SentInv, SentOnce
<1>12. QED
  BY <1>8, <1>10, <1>11 DEF SentInv

LEMMA DroppingKeepsSent ==
  ASSUME TypeOK, SentInv, UNCHANGED <<accepted, received>>,
         \A h \in Harpoons : Rising(inbox'[h]) /\ Range(inbox'[h]) \subseteq Range(inbox[h]),
         lost' = lost \cup UNION {Range(inbox[h]) \ Range(inbox'[h]) : h \in Harpoons}
  PROVE  SentInv'
<1>1. \A h \in Harpoons : /\ Has(h)' = Range(received[h]) \cup Range(inbox'[h])
                          /\ Has(h)' \subseteq Has(h)
  BY DEF Has
<1>2. \A h \in Harpoons : SentOnce(h)'
  BY DEF SentInv, SentOnce
<1>3. \A h \in Harpoons : Range(received[h]) \cap Range(inbox[h]) = {}
  <2>1. ASSUME NEW h \in Harpoons, NEW n \in Range(received[h]) \cap Range(inbox[h])
        PROVE  FALSE
    <3>1. n < n
      BY <2>1 DEF SentInv, SentOnce
    <3>2. received[h] \in Seq(Nat)
      BY DEF TypeOK
    <3>3. n \in Nat
      BY <2>1, <3>2 DEF Range
    <3>4. QED
      BY <3>1, <3>3
  <2>2. QED
    BY <2>1
<1>4. /\ lost \subseteq 1..Len(accepted)
      /\ \A h \in Harpoons : Has(h) \subseteq 1..Len(accepted)
      /\ \A n \in 1..Len(accepted) : n \in lost \/ \E h \in Harpoons : n \in Has(h)
      /\ \A h \in Harpoons : lost \cap Has(h) = {}
      /\ \A g, h \in Harpoons : g # h => Has(g) \cap Has(h) = {}
  BY DEF SentInv, Placed
<1>5. lost' \subseteq 1..Len(accepted) /\ \A h \in Harpoons : Has(h)' \subseteq 1..Len(accepted)
  <2>1. ASSUME NEW n \in lost'
        PROVE  n \in 1..Len(accepted)
    <3>1. CASE n \in lost
      BY <1>4, <3>1
    <3>2. CASE n \notin lost
      <4>1. PICK h \in Harpoons : n \in Range(inbox[h])
        BY <2>1, <3>2
      <4>2. n \in Has(h)
        BY <4>1 DEF Has
      <4>3. QED
        BY <1>4, <4>2
    <3>3. QED
      BY <3>1, <3>2
  <2>2. QED
    BY <1>1, <1>4, <2>1
<1>6. \A n \in 1..Len(accepted) : n \in lost' \/ \E h \in Harpoons : n \in Has(h)'
  BY <1>1, <1>4 DEF Has
<1>7. \A h \in Harpoons : lost' \cap Has(h)' = {}
  <2>1. ASSUME NEW h \in Harpoons, NEW n \in lost' \cap Has(h)'
        PROVE  FALSE
    <3>1. n \notin lost /\ n \in Has(h)
      BY <1>1, <1>4, <2>1
    <3>2. PICK g \in Harpoons : n \in Range(inbox[g]) \ Range(inbox'[g])
      BY <2>1, <3>1
    <3>3. g = h
      BY <1>4, <3>1, <3>2 DEF Has
    <3>4. QED
      BY <1>1, <1>3, <2>1, <3>2, <3>3
  <2>2. QED
    BY <2>1
<1>8. \A g, h \in Harpoons : g # h => Has(g)' \cap Has(h)' = {}
  BY <1>1, <1>4
<1>9. Placed'
  BY <1>5, <1>6, <1>7, <1>8 DEF Placed
<1>10. QED
  BY <1>2, <1>9 DEF SentInv

LEMMA SendingKeepsSent ==
  ASSUME TypeOK, SentInv, SendRawData
  PROVE  SentInv'
<1>1. PICK k \in Nat : /\ k = Len(accepted) /\ Len(accepted') = k + 1
                       /\ SendTo(Head(mIdentity), k + 1)
                       /\ received' = received
  <2>1. Len(accepted) \in Nat
    BY DEF TypeOK
  <2>2. PICK c : accepted' = Append(accepted, c)
    BY DEF SendRawData
  <2>3. Len(accepted') = Len(accepted) + 1
    BY <2>2, AppendProperties DEF TypeOK
  <2>4. QED
    BY <2>1, <2>3 DEF SendRawData
<1>2. /\ lost \subseteq 1..k
      /\ \A h \in Harpoons : Has(h) \subseteq 1..k
      /\ \A n \in 1..k : n \in lost \/ \E h \in Harpoons : n \in Has(h)
      /\ \A h \in Harpoons : lost \cap Has(h) = {}
      /\ \A g, h \in Harpoons : g # h => Has(g) \cap Has(h) = {}
  BY <1>1 DEF SentInv, Placed
<1>3. k + 1 \in Nat /\ k + 1 \notin 1..k /\ 1..(k + 1) = 1..k \cup {k + 1} /\ \A n \in 1..k : n < k + 1
  OBVIOUS
<1>4. CASE lost' = lost \cup {k + 1} /\ inbox' = inbox
  <2>1. \A h \in Harpoons : Has(h)' = Has(h) /\ SentOnce(h)'
    BY <1>1, <1>4 DEF SentInv, SentOnce, Has
  <2>2. Placed'
    <3>1. /\ lost' \subseteq 1..(k + 1)
          /\ \A h \in Harpoons : Has(h)' \subseteq 1..(k + 1)
      BY <1>2, <1>3, <1>4, <2>1
    <3>2. \A n \in 1..(k + 1) : n \in lost' \/ \E h \in Harpoons : n \in Has(h)'
      BY <1>2, <1>3, <1>4, <2>1
    <3>3. \A h \in Harpoons : lost' \cap Has(h)' = {}
      BY <1>2, <1>3, <1>4, <2>1
    <3>4. \A g, h \in Harpoons : g # h => Has(g)' \cap Has(h)' = {}
      BY <1>2, <2>1
    <3>5. QED
      BY <1>1, <3>1, <3>2, <3>3, <3>4 DEF Placed
  <2>3. QED
    BY <2>1, <2>2 DEF SentInv
<1>5. ASSUME NEW id \in Harpoons, lost' = lost, inbox' = [inbox EXCEPT ![id] = Append(@, k + 1)]
      PROVE  SentInv'
  <2>1. inbox[id] \in Seq(Nat) /\ inbox'[id] = Append(inbox[id], k + 1)
    BY <1>5 DEF TypeOK
  <2>2. \A n \in Range(inbox[id]) : n < k + 1
    BY <1>2, <1>3 DEF Has
  <2>3. /\ Range(inbox'[id]) = Range(inbox[id]) \cup {k + 1}
        /\ Rising(inbox'[id])
    <3>1. Rising(inbox[id])
      BY DEF SentInv, SentOnce
    <3>2. PICK s, x : s = inbox[id] /\ x = k + 1
      OBVIOUS
    <3>3. s \in Seq(Nat) /\ x \in Nat /\ Rising(s) /\ \A n \in Range(s) : n < x
      BY <1>3, <2>1, <2>2, <3>1, <3>2
    <3>4. Range(Append(s, x)) = Range(s) \cup {x} /\ Rising(Append(s, x))
      BY <3>3, AppendRises
    <3>5. QED
      BY <2>1, <3>2, <3>4
  <2>4. \A h \in Harpoons \ {id} : Has(h)' = Has(h) /\ SentOnce(h)'
    <3>1. \A h \in Harpoons \ {id} : inbox'[h] = inbox[h]
      BY <1>5 DEF TypeOK
    <3>2. QED
      BY <1>1, <3>1 DEF SentInv, SentOnce, Has
  <2>5. Has(id)' = Has(id) \cup {k + 1}
    BY <1>1, <2>3 DEF Has
  <2>6. SentOnce(id)'
    <3>1. \A m \in Range(received[id]) : m < k + 1
      BY <1>2, <1>3 DEF Has
    <3>2. QED
      BY <1>1, <2>3, <3>1 DEF SentInv, SentOnce
  <2>7. Placed'
    <3>1. /\ lost' \subseteq 1..(k + 1)
          /\ \A h \in Harpoons : Has(h)' \subseteq 1..(k + 1)
      BY <1>2, <1>3, <1>5, <2>4, <2>5
    <3>2. \A n \in 1..(k + 1) : n \in lost' \/ \E h \in Harpoons : n \in Has(h)'
      BY <1>2, <1>3, <1>5, <2>4, <2>5
    <3>3. \A h \in Harpoons : lost' \cap Has(h)' = {}
      BY <1>2, <1>3, <1>5, <2>4, <2>5
    <3>4. \A g, h \in Harpoons : g # h => Has(g)' \cap Has(h)' = {}
      BY <1>2, <1>3, <2>4, <2>5
    <3>5. QED
      BY <1>1, <3>1, <3>2, <3>3, <3>4 DEF Placed
  <2>8. QED
    BY <2>4, <2>6, <2>7 DEF SentInv
<1>6. QED
  BY <1>1, <1>4, <1>5 DEF SendTo, Routable

LEMMA StepKeepsSent ==
  ASSUME TypeOK, SentInv, [Next]_vars
  PROVE  SentInv'
<1>1. ASSUME NEW h \in Harpoons, Crash(h)
      PROVE  SentInv'
  <2>1. /\ UNCHANGED <<accepted, received>>
        /\ inbox'[h] = <<>> /\ \A g \in Harpoons \ {h} : inbox'[g] = inbox[g]
        /\ lost' = lost \cup Range(inbox[h])
    BY <1>1 DEF Crash, TypeOK
  <2>2. DOMAIN <<>> = {} /\ Range(<<>>) = {} /\ Rising(<<>>)
    BY DEF Range, Rising
  <2>3. \A g \in Harpoons : Rising(inbox'[g]) /\ Range(inbox'[g]) \subseteq Range(inbox[g])
    BY <2>1, <2>2 DEF SentInv, SentOnce
  <2>4. UNION {Range(inbox[g]) \ Range(inbox'[g]) : g \in Harpoons} = Range(inbox[h])
    BY <2>1, <2>2
  <2>5. QED
    BY <2>1, <2>3, <2>4, DroppingKeepsSent
<1>2. CASE KrakenRestart
  <2>1. PICK kept : /\ \A h \in Harpoons : kept[h] \in Prefixes(inbox[h])
                    /\ inbox' = kept
                    /\ lost' = lost \cup UNION {Range(inbox[h]) \ Range(kept[h]) : h \in Harpoons}
    BY <1>2 DEF KrakenRestart
  <2>2. \A h \in Harpoons : Rising(inbox'[h]) /\ Range(inbox'[h]) \subseteq Range(inbox[h])
    BY <2>1, PrefixRises DEF TypeOK, SentInv, SentOnce
  <2>3. UNCHANGED <<accepted, received>>
    BY <1>2 DEF KrakenRestart
  <2>4. QED
    BY <2>1, <2>2, <2>3, DroppingKeepsSent
<1>3. ASSUME NEW h \in Harpoons,
             Aim(h) \/ Heave(h) \/ Cancel(h) \/ HeaveTimeout(h) \/ HeaveInterrupt(h) \/ Deliver(h)
      PROVE  UNCHANGED <<accepted, received, inbox, lost>>
  BY <1>3 DEF Aim, Heave, Cancel, HeaveTimeout, HeaveInterrupt, Deliver
<1>4. ASSUME \/ \E size \in Sizes : SendTidalWave(size)
             \/ FinalBreach \/ RecvIdentity \/ NextChunkIdTimeout \/ NextChunkIdInterrupt
             \/ NextChunkIdCancel \/ FinalBreachDrain \/ UNCHANGED vars
      PROVE  UNCHANGED <<accepted, received, inbox, lost>>
  BY <1>4 DEF SendTidalWave, FinalBreach, RecvIdentity, NextChunkIdTimeout, NextChunkIdInterrupt,
              NextChunkIdCancel, FinalBreachDrain, vars
<1>5. QED
  BY <1>1, <1>2, <1>3, <1>4, SameSent, TakingKeepsSent, SendingKeepsSent
  DEF Next, KrakenStep, HarpoonStep

LEMMA AlwaysSent == Spec => [](TypeInv /\ SentInv)
<1>1. Init => SentInv
  <2> SUFFICES ASSUME Init PROVE SentInv
    OBVIOUS
  <2>1. /\ accepted = <<>> /\ lost = {} /\ Len(accepted) = 0 /\ 1..0 = {} /\ DOMAIN <<>> = {}
        /\ \A h \in Harpoons : received[h] = <<>> /\ inbox[h] = <<>>
    BY DEF Init
  <2>2. Range(<<>>) = {} /\ Rising(<<>>)
    BY <2>1 DEF Range, Rising
  <2>3. QED
    BY <2>1, <2>2 DEF SentInv, SentOnce, Placed, Has
<1>2. TypeInv /\ SentInv /\ [Next]_vars => SentInv'
  BY StepKeepsSent DEF TypeInv
<1>3. QED
  BY <1>1, <1>2, TypeInvariance, PTL DEF Spec

\* The two parts put together.
LEMMA PartsOfSent ==
  ASSUME NEW r \in Seq(Nat), NEW s \in Seq(Nat)
  PROVE  /\ Range(r \o s) = Range(r) \cup Range(s)
         /\ Rising(r) /\ Rising(s) /\ (\A m \in Range(r), n \in Range(s) : m < n) => Rising(r \o s)
<1>1. PICK a, b, t : a = Len(r) /\ b = Len(s) /\ t = r \o s
  OBVIOUS
<1>2. /\ a \in Nat /\ b \in Nat /\ DOMAIN r = 1..a /\ DOMAIN s = 1..b /\ DOMAIN t = 1..(a + b)
      /\ \A i \in 1..(a + b) : t[i] = IF i <= a THEN r[i] ELSE s[i - a]
  BY <1>1, ConcatProperties
<1>3. Range(t) = Range(r) \cup Range(s)
  <2>1. ASSUME NEW y \in Range(t)
        PROVE  y \in Range(r) \cup Range(s)
    <3>1. PICK i \in 1..(a + b) : y = t[i]
      BY <1>2, <2>1 DEF Range
    <3>2. CASE i <= a
      <4>1. i \in 1..a
        BY <1>2, <3>2
      <4>2. QED
        BY <1>2, <3>1, <3>2, <4>1 DEF Range
    <3>3. CASE ~(i <= a)
      <4>1. i - a \in 1..b
        BY <1>2, <3>3
      <4>2. QED
        BY <1>2, <3>1, <3>3, <4>1 DEF Range
    <3>4. QED
      BY <3>2, <3>3
  <2>2. ASSUME NEW y \in Range(r)
        PROVE  y \in Range(t)
    <3>1. PICK i \in 1..a : y = r[i]
      BY <1>2, <2>2 DEF Range
    <3>2. i \in 1..(a + b) /\ i <= a
      BY <1>2
    <3>3. QED
      BY <1>2, <3>1, <3>2 DEF Range
  <2>3. ASSUME NEW y \in Range(s)
        PROVE  y \in Range(t)
    <3>1. PICK i \in 1..b : y = s[i]
      BY <1>2, <2>3 DEF Range
    <3>2. i + a \in 1..(a + b) /\ ~(i + a <= a) /\ (i + a) - a = i
      BY <1>2
    <3>3. t[i + a] = y
      BY <1>2, <3>1, <3>2
    <3>4. QED
      BY <1>2, <3>2, <3>3 DEF Range
  <2>4. QED
    BY <2>1, <2>2, <2>3
<1>4. ASSUME Rising(r), Rising(s), \A m \in Range(r), n \in Range(s) : m < n,
             NEW i \in 1..(a + b), NEW j \in 1..(a + b), i < j
      PROVE  t[i] < t[j]
  <2>1. CASE j <= a
    <3>1. i \in 1..a /\ j \in 1..a /\ i <= a
      BY <1>2, <1>4, <2>1
    <3>2. QED
      BY <1>2, <1>4, <2>1, <3>1 DEF Rising
  <2>2. CASE i <= a /\ ~(j <= a)
    <3>1. i \in 1..a /\ j - a \in 1..b
      BY <1>2, <2>2
    <3>2. r[i] \in Range(r) /\ s[j - a] \in Range(s)
      BY <1>2, <3>1 DEF Range
    <3>3. QED
      BY <1>2, <1>4, <2>2, <3>2
  <2>3. CASE ~(i <= a)
    <3>1. i - a \in 1..b /\ j - a \in 1..b /\ i - a < j - a /\ ~(j <= a)
      BY <1>2, <1>4, <2>3
    <3>2. QED
      BY <1>2, <1>4, <2>3, <3>1 DEF Rising
  <2>4. QED
    BY <1>2, <1>4, <2>1, <2>2, <2>3
<1>5. QED
  BY <1>1, <1>2, <1>3, <1>4 DEF Rising

\* Chunks reach each Harpoon in the order they were sent, none twice, for any number of
\* Harpoons and whatever is cancelled, interrupted, lost or restarted.
THEOREM ChunksComeInOrder == Spec => []InOrder
<1>1. TypeInv /\ SentInv => InOrder
  <2> SUFFICES ASSUME TypeInv, SentInv, NEW h \in Harpoons
               PROVE  Rising(SentTo(h))
    BY DEF InOrder, Rising
  <2>1. /\ received[h] \in Seq(Nat) /\ inbox[h] \in Seq(Nat)
    BY DEF TypeInv, TypeOK
  <2>2. /\ Rising(received[h]) /\ Rising(inbox[h])
        /\ \A m \in Range(received[h]), n \in Range(inbox[h]) : m < n
    BY DEF SentInv, SentOnce
  <2>3. QED
    BY <2>1, <2>2, PartsOfSent DEF SentTo
<1>2. QED
  BY <1>1, AlwaysSent, PTL

\* Every chunk the Kraken counts as sent is with one Harpoon or lost, and no two Harpoons
\* share one.
THEOREM ChunksAreAccounted == Spec => []Accounted
<1>1. TypeInv /\ SentInv => Accounted
  <2> SUFFICES ASSUME TypeInv, SentInv PROVE Accounted
    OBVIOUS
  <2>1. \A h \in Harpoons : Range(SentTo(h)) = Has(h)
    <3>1. ASSUME NEW h \in Harpoons
          PROVE  Range(SentTo(h)) = Has(h)
      <4>1. /\ received[h] \in Seq(Nat) /\ inbox[h] \in Seq(Nat)
        BY DEF TypeInv, TypeOK
      <4>2. QED
        BY <4>1, PartsOfSent DEF SentTo, Has
    <3>2. QED
      BY <3>1
  <2>2. DOMAIN accepted = 1..Len(accepted)
    BY DEF TypeInv, TypeOK
  <2>3. QED
    BY <2>1, <2>2 DEF SentInv, Placed, Accounted
<1>2. QED
  BY <1>1, AlwaysSent, PTL

-----------------------------------------------------------------------------
(* End markers *)

\* With one credit: behind an end marker nothing came, nothing is on its way and nothing
\* can be asked for.
EndsStream(h) ==
  \A i \in DOMAIN received[h] : IsEnd(received[h][i]) =>
    /\ i = Len(received[h]) /\ inbox[h] = <<>>
    /\ mCredit[h] + mOffset[h] <= Len(received[h])

EndInv == QueueLength = 1 => \A h \in Harpoons : EndsStream(h)

\* Chunks do not change any more once they are sent.
LEMMA ChunksStay ==
  ASSUME TypeOK, [Next]_vars
  PROVE  \A n \in 1..Len(accepted) : accepted'[n] = accepted[n]
<1>1. CASE SendRawData
  <2>1. PICK c : accepted' = Append(accepted, c)
    BY <1>1 DEF SendRawData
  <2>2. PICK s : s = accepted /\ s \in Seq(Chunk)
    BY DEF TypeOK
  <2>3. \A n \in 1..Len(s) : Append(s, c)[n] = s[n]
    BY <2>2, AppendProperties
  <2>4. QED
    BY <2>1, <2>2, <2>3
<1>2. CASE \E h \in Harpoons : HarpoonStep(h)
  BY <1>2 DEF HarpoonStep, Aim, Heave, Cancel, HeaveChunk, HeaveTimeout, HeaveInterrupt, Deliver, Crash
<1>3. CASE \/ \E size \in Sizes : SendTidalWave(size)
           \/ FinalBreach \/ RecvIdentity \/ NextChunkIdTimeout \/ NextChunkIdInterrupt
           \/ NextChunkIdCancel \/ FinalBreachDrain \/ KrakenRestart \/ UNCHANGED vars
  BY <1>3 DEF SendTidalWave, FinalBreach, RecvIdentity, NextChunkIdTimeout, NextChunkIdInterrupt,
              NextChunkIdCancel, FinalBreachDrain, KrakenRestart, vars
<1>4. QED
  BY <1>1, <1>2, <1>3 DEF Next, KrakenStep

LEMMA WasSent ==
  ASSUME TypeOK, SentInv, NEW h \in Harpoons
  PROVE  /\ \A i \in DOMAIN received[h] : received[h][i] \in 1..Len(accepted)
         /\ \A i \in DOMAIN inbox[h] : inbox[h][i] \in 1..Len(accepted)
  BY DEF SentInv, Placed, Has, Range

\* A Harpoon that gets no chunk and no credit in a step.
LEMMA StillEnds ==
  ASSUME TypeOK, SentInv, [Next]_vars, NEW h \in Harpoons, EndsStream(h),
         received'[h] = received[h], inbox[h] = <<>> => inbox'[h] = <<>>,
         mCredit'[h] + mOffset'[h] = mCredit[h] + mOffset[h]
  PROVE  EndsStream(h)'
<1>1. \A i \in DOMAIN received[h] : IsEnd(received[h][i])' <=> IsEnd(received[h][i])
  BY ChunksStay, WasSent DEF IsEnd
<1>2. QED
  BY <1>1 DEF EndsStream, IsEnd

\* Who asks for more keeps the sum of its credit and its offset.
LEMMA AskingKeepsSum ==
  ASSUME TypeOK, NEW h \in Harpoons, NEW n \in 0..mCredit[h], RequestChunks(h, n)
  PROVE  \A g \in Harpoons : mCredit'[g] + mOffset'[g] = mCredit[g] + mOffset[g]
<1>1. /\ mCredit \in [Harpoons -> Nat] /\ mOffset \in [Harpoons -> Nat] /\ n \in Nat
      /\ mCredit' = [mCredit EXCEPT ![h] = @ - n] /\ mOffset' = [mOffset EXCEPT ![h] = @ + n]
  BY DEF RequestChunks, TypeOK
<1>2. mCredit'[h] + mOffset'[h] = mCredit[h] + mOffset[h]
  <2>1. \A c, o \in Nat : (c - n) + (o + n) = c + o
    BY <1>1
  <2>2. QED
    BY <1>1, <2>1
<1>3. QED
  BY <1>1, <1>2

LEMMA TakingEnds ==
  ASSUME QueueLength = 1, TypeOK, TypeOK', SentInv, RequestsAnsweredOnce, FlowControl, [Next]_vars,
         NEW h \in Harpoons, EndsStream(h), HeaveChunk(h)
  PROVE  EndsStream(h)'
<1>1. PICK r, s, n, c, o : /\ r = received[h] /\ s = inbox[h] /\ n = Head(inbox[h])
                           /\ c = mCredit[h] /\ o = mOffset[h]
  OBVIOUS
<1>2. /\ r \in Seq(Nat) /\ s \in Seq(Nat) /\ s # <<>> /\ c \in Nat /\ o \in Nat /\ n = Head(s)
      /\ received'[h] = Append(r, n) /\ inbox'[h] = Tail(s)
      /\ mCredit'[h] = c + CreditFor(n) /\ mOffset'[h] = o
      /\ accepted' = accepted
  BY <1>1 DEF HeaveChunk, TypeOK
<1>3. PICK k \in Nat : k = Len(r)
  BY <1>2
<1>4. /\ Len(s) + c <= 1 /\ c + o <= 1 + k
  BY <1>1, <1>3 DEF FlowControl, RequestsAnsweredOnce, Credits
<1>5. Tail(s) = <<>>
  <2>1. Len(s) \in Nat \ {0} /\ Tail(s) \in Seq(Nat) /\ Len(Tail(s)) = Len(s) - 1
    BY <1>2, HeadTailProperties
  <2>2. Len(Tail(s)) = 0
    BY <1>2, <1>4, <2>1
  <2>3. QED
    BY <2>1, <2>2, EmptySeq
<1>6. \A i \in 1..k : ~IsEnd(r[i])
  BY <1>1, <1>2, <1>3 DEF EndsStream
<1>7. PICK t : t = Append(r, n) /\ Len(t) = k + 1 /\ DOMAIN t = 1..(k + 1) /\ \A i \in 1..k : t[i] = r[i]
  <2>1. n \in Nat
    BY <1>2, HeadTailProperties
  <2>2. r \in Seq(Nat)
    BY <1>2
  <2>3. /\ Append(r, n) \in Seq(Nat) /\ Len(Append(r, n)) = Len(r) + 1
        /\ \A i \in 1..Len(r) : Append(r, n)[i] = r[i]
    BY <2>1, <2>2, AppendProperties
  <2>4. PICK t : t = Append(r, n)
    OBVIOUS
  <2>5. t \in Seq(Nat) /\ Len(t) = k + 1 /\ \A i \in 1..k : t[i] = r[i]
    BY <1>3, <2>3, <2>4
  <2>6. QED
    BY <2>4, <2>5
<1>8. ASSUME NEW i \in DOMAIN t, IsEnd(t[i])
      PROVE  i = k + 1 /\ t[i] = n
  <2>1. i = k + 1 \/ i \in 1..k
    BY <1>7, <1>8
  <2>2. i = k + 1
    BY <1>6, <1>7, <1>8, <2>1
  <2>3. t[k + 1] = n
    <3>1. n \in Nat
      BY <1>2, HeadTailProperties
    <3>2. QED
      BY <1>2, <1>3, <1>7, <3>1, AppendProperties
  <2>4. QED
    BY <2>2, <2>3
<1>9. ASSUME IsEnd(n)
      PROVE  mCredit'[h] + mOffset'[h] <= k + 1
  <2>1. CreditFor(n) = 0
    BY <1>9 DEF CreditFor
  <2>2. QED
    BY <1>2, <1>4, <2>1
<1>10. \A m : IsEnd(m)' <=> IsEnd(m)
  BY <1>2 DEF IsEnd
<1>11. QED
  BY ZenonT(30), <1>2, <1>5, <1>7, <1>8, <1>9, <1>10 DEF EndsStream, IsEnd

\* A Harpoon that has its end marker has no request left to answer.
LEMMA SendingEnds ==
  ASSUME QueueLength = 1, TypeOK, TypeOK', SentInv, RequestsAnsweredOnce, [Next]_vars,
         NEW h \in Harpoons, EndsStream(h), SendRawData
  PROVE  EndsStream(h)'
<1>1. UNCHANGED <<received, mCredit, mOffset>>
  BY DEF SendRawData, harpoon
<1>2. CASE inbox'[h] = inbox[h]
  BY <1>1, <1>2, StillEnds
<1>3. CASE inbox'[h] # inbox[h]
  <2>1. Head(mIdentity) = h
    BY <1>3 DEF SendRawData, SendTo, TypeOK
  <2>2. Frames[1] = h /\ Frames[2] # CANCEL /\ 1 \in DOMAIN Frames
    <3>1. mIdentity \in Seq(Frame) /\ rx \in Seq(Frame) /\ Len(mIdentity) = 1 /\ rx # <<>> /\ Head(rx) # CANCEL
      BY DEF TypeOK, SendRawData
    <3>2. Len(rx) \in Nat \ {0} /\ Head(rx) = rx[1] /\ h = mIdentity[1]
      BY <2>1, <3>1, HeadTailProperties
    <3>3. /\ DOMAIN Frames = 1..(1 + Len(rx))
          /\ \A i \in 1..(1 + Len(rx)) : Frames[i] = IF i <= 1 THEN mIdentity[i] ELSE rx[i - 1]
      <4>1. /\ DOMAIN (mIdentity \o rx) = 1..(Len(mIdentity) + Len(rx))
            /\ \A i \in 1..(Len(mIdentity) + Len(rx)) : (mIdentity \o rx)[i] =
              IF i <= Len(mIdentity) THEN mIdentity[i] ELSE rx[i - Len(mIdentity)]
        BY SMTT(20), <3>1, ConcatProperties
      <4>2. QED
        BY <3>1, <4>1 DEF Frames
    <3>4. QED
      BY <3>1, <3>2, <3>3
  <2>3. Frames[2] \in Request /\ InWindow(h, Frames[2])
    <3>1. 1 + 1 = 2
      OBVIOUS
    <3>2. QED
      BY <2>2, <3>1 DEF FrameRequests, RequestsAnsweredOnce
  <2>4. PICK n \in Nat : n = Frames[2] /\ Len(received[h]) + Len(inbox[h]) <= n /\ n < mOffset[h]
    BY <2>2, <2>3 DEF InWindow, Request, Answered
  <2>5. \A i \in DOMAIN received[h] : ~IsEnd(received[h][i])
    <3>1. ASSUME mCredit[h] + mOffset[h] <= Len(received[h])
          PROVE  FALSE
      <4>1. PICK a, b, c, o \in Nat : /\ a = Len(received[h]) /\ b = Len(inbox[h])
                                      /\ c = mCredit[h] /\ o = mOffset[h]
        <5>1. received[h] \in Seq(Nat) /\ inbox[h] \in Seq(Nat) /\ mCredit[h] \in Nat /\ mOffset[h] \in Nat
          BY DEF TypeOK
        <5>2. Len(received[h]) \in Nat /\ Len(inbox[h]) \in Nat
          BY <5>1
        <5>3. QED
          BY <5>1, <5>2
      <4>2. a + b <= n /\ n < o /\ c + o <= a
        BY <2>4, <3>1, <4>1
      <4>3. QED
        BY <4>2
    <3>2. QED
      BY <3>1 DEF EndsStream
  <2>6. \A i \in DOMAIN received[h] : IsEnd(received[h][i])' <=> IsEnd(received[h][i])
    BY <1>1, ChunksStay, WasSent DEF IsEnd
  <2>7. QED
    BY <1>1, <2>5, <2>6 DEF EndsStream, IsEnd
<1>4. QED
  BY <1>2, <1>3

LEMMA StepKeepsEnds ==
  ASSUME TypeOK, TypeOK', SentInv, RequestsAnsweredOnce, FlowControl, EndInv, [Next]_vars
  PROVE  EndInv'
<1> SUFFICES ASSUME QueueLength = 1, NEW h \in Harpoons, EndsStream(h)
             PROVE  EndsStream(h)'
  BY DEF EndInv
<1>1. CASE HeaveChunk(h)
  BY <1>1, TakingEnds
<1>2. CASE SendRawData
  BY <1>2, SendingEnds
<1>3. ASSUME NEW g \in Harpoons, Heave(g) \/ Cancel(g)
      PROVE  EndsStream(h)'
  <2>1. mCredit'[h] + mOffset'[h] = mCredit[h] + mOffset[h]
    BY <1>3, AskingKeepsSum DEF Heave, Cancel
  <2>2. UNCHANGED <<received, inbox>>
    BY <1>3 DEF Heave, Cancel
  <2>3. QED
    BY <2>1, <2>2, StillEnds
<1>4. ASSUME NEW g \in Harpoons,
             \/ g # h /\ HeaveChunk(g)
             \/ Aim(g) \/ HeaveTimeout(g) \/ HeaveInterrupt(g) \/ Deliver(g) \/ Crash(g)
      PROVE  /\ received'[h] = received[h] /\ (inbox[h] = <<>> => inbox'[h] = <<>>)
             /\ mCredit'[h] = mCredit[h] /\ mOffset'[h] = mOffset[h]
  BY ZenonT(30), <1>4 DEF HeaveChunk, Aim, HeaveTimeout, HeaveInterrupt, Deliver, Crash, harpoon, TypeOK
<1>5. CASE KrakenRestart
  <2>1. inbox'[h] \in Prefixes(inbox[h]) /\ UNCHANGED <<received, mCredit, mOffset>>
    BY <1>5 DEF KrakenRestart, harpoon
  <2>2. inbox[h] = <<>> => inbox'[h] = <<>>
    <3>1. ASSUME inbox[h] = <<>>
          PROVE  inbox'[h] = <<>>
      <4>1. inbox[h] \in Seq(Nat) /\ Len(inbox[h]) = 0
        BY <3>1 DEF TypeOK
      <4>2. inbox'[h] \in Seq(Nat) /\ Len(inbox'[h]) <= 0
        BY <2>1, <4>1, PrefixFacts
      <4>3. QED
        BY <4>2, EmptySeq
    <3>2. QED
      BY <3>1
  <2>3. QED
    BY <2>1, <2>2, StillEnds
<1>6. ASSUME \/ \E size \in Sizes : SendTidalWave(size)
             \/ FinalBreach \/ RecvIdentity \/ NextChunkIdTimeout \/ NextChunkIdInterrupt
             \/ NextChunkIdCancel \/ FinalBreachDrain \/ UNCHANGED vars
      PROVE  UNCHANGED <<received, inbox, mCredit, mOffset>>
  BY <1>6 DEF SendTidalWave, FinalBreach, RecvIdentity, NextChunkIdTimeout, NextChunkIdInterrupt,
              NextChunkIdCancel, FinalBreachDrain, vars, harpoon
<1>7. ASSUME received'[h] = received[h], inbox[h] = <<>> => inbox'[h] = <<>>,
             mCredit'[h] = mCredit[h], mOffset'[h] = mOffset[h]
      PROVE  EndsStream(h)'
  BY <1>7, StillEnds
<1>8. QED
  BY <1>1, <1>2, <1>3, <1>4, <1>5, <1>6, <1>7 DEF Next, KrakenStep, HarpoonStep

LEMMA AlwaysEnds == Spec => []EndInv
<1>1. Init => EndInv
  <2>1. DOMAIN <<>> = {}
    OBVIOUS
  <2>2. QED
    BY <2>1 DEF Init, EndInv, EndsStream
<1>2. TypeInv /\ TypeInv' /\ SentInv /\ RequestsAnsweredOnce /\ FlowControl /\ EndInv /\ [Next]_vars => EndInv'
  BY StepKeepsEnds DEF TypeInv
<1>3. QED
  BY <1>1, <1>2, TypeInvariance, AlwaysSent, EachRequestAnsweredOnce, FlowControlHolds, PTL DEF Spec

\* With one credit, as in both constructors, the end marker is the last that a Harpoon is
\* ever sent, also when a cancelled stream left requests behind it.
THEOREM EndMarkerIsFinal == Spec => []EndIsFinal
<1>1. TypeInv /\ FlowControl /\ EndInv => EndIsFinal
  <2> SUFFICES ASSUME TypeInv, FlowControl, EndInv, QueueLength = 1, NEW h \in Harpoons,
                      NEW i \in DOMAIN SentTo(h), IsEnd(SentTo(h)[i])
               PROVE  i = Len(SentTo(h))
    BY DEF EndIsFinal
  <2>1. PICK r, s : /\ r = received[h] /\ s = inbox[h] /\ r \in Seq(Nat) /\ s \in Seq(Nat)
                    /\ SentTo(h) = r \o s
    BY DEF TypeInv, TypeOK, SentTo
  <2>2. PICK a, b \in Nat : a = Len(r) /\ b = Len(s)
    BY <2>1
  <2>3. /\ DOMAIN (r \o s) = 1..(a + b) /\ Len(r \o s) = a + b
        /\ \A j \in 1..(a + b) : (r \o s)[j] = IF j <= a THEN r[j] ELSE s[j - a]
    <3>1. r \in Seq(Nat) /\ s \in Seq(Nat)
      BY <2>1
    <3>2. /\ Len(r \o s) = Len(r) + Len(s) /\ r \o s \in Seq(Nat)
          /\ \A j \in 1..(Len(r) + Len(s)) : (r \o s)[j] = IF j <= Len(r) THEN r[j] ELSE s[j - Len(r)]
      BY <3>1, ConcatProperties
    <3>3. DOMAIN (r \o s) = 1..Len(r \o s)
      BY <3>2
    <3>4. QED
      BY <2>2, <3>2, <3>3
  <2>4. b <= 1
    <3>1. b + mCredit[h] <= 1 /\ mCredit[h] \in Nat
      BY <2>1, <2>2 DEF FlowControl, TypeInv, TypeOK
    <3>2. QED
      BY <3>1
  <2>5. i \in 1..(a + b)
    BY <2>1, <2>3
  <2>6. CASE i <= a
    <3>1. i \in DOMAIN received[h] /\ IsEnd(received[h][i])
      BY <2>1, <2>2, <2>3, <2>5, <2>6
    <3>2. i = a /\ s = <<>>
      BY <2>1, <2>2, <3>1 DEF EndInv, EndsStream
    <3>3. b = 0
      BY <2>2, <3>2
    <3>4. QED
      BY <2>1, <2>3, <3>2, <3>3
  <2>7. CASE ~(i <= a)
    <3>1. i = a + b
      BY <2>4, <2>5, <2>7
    <3>2. QED
      BY <2>1, <2>3, <3>1
  <2>8. QED
    BY <2>6, <2>7
<1>2. QED
  BY <1>1, TypeInvariance, FlowControlHolds, AlwaysEnds, PTL

-----------------------------------------------------------------------------
(* The bytes of a call *)

\* The call in progress has no result yet; SendTidalWave has bytes left to send, and
\* FinalBreach sends a chunk of none.
CallRuns ==
  kpc \in {"waiting", "reading"} =>
    /\ calls[Len(calls)].status = "running"
    /\ calls[Len(calls)].op = "SendTidalWave" => sentBytes < calls[Len(calls)].size
    /\ calls[Len(calls)].op = "FinalBreach" => sentBytes = 0 /\ calls[Len(calls)].size = 0

Sends(k) == calls[k].op = "SendTidalWave" /\ calls[k].status = "CONTINUE"

\* The bytes of a chunk, and the chunks of s that are pieces of call k: they tile the
\* bytes 0..upto-1.
Bytes(c) == c.at .. (c.at + c.len - 1)
PiecesOf(s, k) == {n \in 1..Len(s) : s[n].call = k}
Tiles(s, k, upto) ==
  /\ UNION {Bytes(s[n]) : n \in PiecesOf(s, k)} = 0..(upto - 1)
  /\ \A m, n \in PiecesOf(s, k) : m # n => Bytes(s[m]) \cap Bytes(s[n]) = {}

\* Each chunk belongs to a call, the empty ones to FinalBreach, and a SendTidalWave has
\* sent each byte in front of its loop variable once.
PiecesInv ==
  /\ CallRuns
  /\ \A n \in 1..Len(accepted) :
       /\ accepted[n].call \in 1..Len(calls)
       /\ accepted[n].len = 0 => calls[accepted[n].call].op = "FinalBreach"
  /\ \A k \in 1..Len(calls) : Sends(k) => Tiles(accepted, k, calls[k].size)
  /\ kpc \in {"waiting", "reading"} /\ calls[Len(calls)].op = "SendTidalWave" =>
       Tiles(accepted, Len(calls), sentBytes)

\* Calls and chunks stay what they are, and no call starts.
LEMMA SamePieces ==
  ASSUME PiecesInv, UNCHANGED <<calls, accepted, sentBytes>>,
         kpc' \in {"waiting", "reading"} => kpc \in {"waiting", "reading"}
  PROVE  PiecesInv'
<1>1. CallRuns'
  BY DEF PiecesInv, CallRuns
<1>2. QED
  BY <1>1 DEF PiecesInv, Sends

\* A result goes to the last call only.
LEMMA ResultOfCall ==
  ASSUME calls \in Seq(Call), Len(calls) > 0, NEW status \in Battling \cup {"aborted"},
         calls' = [calls EXCEPT ![Len(calls)].status = status]
  PROVE  /\ Len(calls') = Len(calls)
         /\ \A k \in 1..Len(calls) : calls'[k].op = calls[k].op /\ calls'[k].size = calls[k].size
         /\ \A k \in 1..Len(calls) : calls'[k].status = IF k = Len(calls) THEN status ELSE calls[k].status
<1>1. PICK last \in 1..Len(calls) : last = Len(calls)
  OBVIOUS
<1>2. PICK call \in Call : call = [calls[last] EXCEPT !.status = status]
  <2>1. calls[last] \in Call
    BY ElementOfSeq
  <2>2. QED
    BY <2>1 DEF Call
<1>3. calls' = [calls EXCEPT ![last] = call]
  BY <1>1, <1>2
<1>4. /\ Len(calls') = Len(calls)
      /\ \A k \in 1..Len(calls) : calls'[k] = IF k = last THEN call ELSE calls[k]
  BY <1>3, ExceptSeq
<1>5. call.op = calls[last].op /\ call.size = calls[last].size /\ call.status = status
  <2>1. calls[last] \in Call
    BY ElementOfSeq
  <2>2. QED
    BY <1>2, <2>1 DEF Call
<1>6. QED
  BY <1>1, <1>4, <1>5

\* The call in progress gets a result other than CONTINUE.
LEMMA FailingKeepsPieces ==
  ASSUME TypeInv, PiecesInv, UNCHANGED accepted,
         NEW status \in Battling \cup {"aborted"}, status # "CONTINUE",
         kpc \in {"waiting", "reading"}, kpc' \notin {"waiting", "reading"},
         calls' = [calls EXCEPT ![Len(calls)].status = status]
  PROVE  PiecesInv'
<1>1. calls \in Seq(Call) /\ Len(calls) > 0
  BY DEF TypeInv, TypeOK, CallInProgress
<1>2. /\ Len(calls') = Len(calls)
      /\ \A k \in 1..Len(calls) : calls'[k].op = calls[k].op /\ calls'[k].size = calls[k].size
      /\ \A k \in 1..Len(calls) : calls'[k].status = "CONTINUE" => calls[k].status = "CONTINUE"
  BY <1>1, ResultOfCall
<1>3. CallRuns'
  BY DEF CallRuns
<1>4. QED
  BY <1>2, <1>3 DEF PiecesInv, Sends

\* A call starts, without pieces.
LEMMA CallingKeepsPieces ==
  ASSUME TypeInv, PiecesInv, UNCHANGED accepted, NEW call \in Call,
         calls' = Append(calls, call), sentBytes' = 0,
         \/ call.op = "FinalBreach" /\ call.size = 0 /\ call.status = "running"
         \/ call.op = "SendTidalWave" /\ call.size = 0 /\ call.status = "CONTINUE" /\ kpc' = "idle"
         \/ call.op = "SendTidalWave" /\ call.size > 0 /\ call.status = "running"
  PROVE  PiecesInv'
<1>1. PICK k \in Nat : k = Len(calls)
  BY DEF TypeInv, TypeOK
<1>2. /\ Len(calls') = k + 1 /\ calls'[k + 1] = call
      /\ \A i \in 1..k : calls'[i] = calls[i]
  BY <1>1, AppendProperties DEF TypeInv, TypeOK
<1>3. \A n \in 1..Len(accepted) : /\ accepted[n].call \in 1..k
                                  /\ accepted[n].len = 0 => calls[accepted[n].call].op = "FinalBreach"
  BY <1>1 DEF PiecesInv
<1>4. Tiles(accepted, k + 1, 0)
  <2>1. PiecesOf(accepted, k + 1) = {}
    BY <1>1, <1>3 DEF PiecesOf
  <2>2. 0..(0 - 1) = {} /\ UNION {Bytes(accepted[n]) : n \in {}} = {}
    OBVIOUS
  <2>3. QED
    BY <2>1, <2>2 DEF Tiles
<1>5. CallRuns'
  BY <1>2 DEF CallRuns
<1>6. ASSUME NEW n \in 1..Len(accepted)
      PROVE  /\ accepted[n].call \in 1..(k + 1)
             /\ accepted[n].len = 0 => calls'[accepted[n].call].op = "FinalBreach"
  BY <1>2, <1>3
<1>7. ASSUME NEW i \in 1..(k + 1), Sends(i)'
      PROVE  Tiles(accepted, i, calls'[i].size)
  <2>1. CASE i \in 1..k
    BY <1>1, <1>2, <1>7, <2>1 DEF PiecesInv, Sends
  <2>2. CASE i = k + 1
    BY <1>2, <1>4, <1>7, <2>2 DEF Sends
  <2>3. QED
    BY <1>1, <2>1, <2>2
<1>8. QED
  BY <1>2, <1>4, <1>5, <1>6, <1>7 DEF PiecesInv

\* A piece behind the bytes sent so far.
LEMMA PieceTiles ==
  ASSUME NEW s \in Seq(Chunk), NEW t \in Seq(Chunk), NEW c \in Chunk,
         Len(t) = Len(s) + 1, t[Len(s) + 1] = c, \A n \in 1..Len(s) : t[n] = s[n]
  PROVE  /\ \A k, upto : k # c.call /\ Tiles(s, k, upto) => Tiles(t, k, upto)
         /\ Tiles(s, c.call, c.at) => Tiles(t, c.call, c.at + c.len)
<1>1. PICK a \in Nat : a = Len(s)
  OBVIOUS
<1>2. ASSUME NEW k, NEW upto, k # c.call, Tiles(s, k, upto)
      PROVE  Tiles(t, k, upto)
  <2>1. PiecesOf(t, k) = PiecesOf(s, k)
    BY <1>1, <1>2 DEF PiecesOf
  <2>2. \A n \in PiecesOf(s, k) : t[n] = s[n]
    BY DEF PiecesOf
  <2>3. {Bytes(t[n]) : n \in PiecesOf(t, k)} = {Bytes(s[n]) : n \in PiecesOf(s, k)}
    BY <2>1, <2>2
  <2>4. QED
    BY <1>2, <2>1, <2>2, <2>3 DEF Tiles
<1>3. ASSUME Tiles(s, c.call, c.at)
      PROVE  Tiles(t, c.call, c.at + c.len)
  <2>1. PICK from \in Nat, len \in Nat : from = c.at /\ len = c.len
    BY DEF Chunk
  <2>2. PICK P : P = PiecesOf(s, c.call)
    OBVIOUS
  <2>3. /\ UNION {Bytes(s[n]) : n \in P} = 0..(from - 1)
        /\ \A m, n \in P : m # n => Bytes(s[m]) \cap Bytes(s[n]) = {}
    BY <1>3, <2>1, <2>2 DEF Tiles
  <2>4. PiecesOf(t, c.call) = P \cup {a + 1} /\ a + 1 \notin P
    BY <1>1, <2>2 DEF PiecesOf
  <2>5. \A n \in P : t[n] = s[n]
    BY <2>2 DEF PiecesOf
  <2>6. Bytes(t[a + 1]) = from..((from + len) - 1)
    BY <1>1, <2>1 DEF Bytes
  <2>7. UNION {Bytes(t[n]) : n \in P \cup {a + 1}} = 0..((from + len) - 1)
    <3>1. {Bytes(t[n]) : n \in P \cup {a + 1}} = {Bytes(s[n]) : n \in P} \cup {Bytes(t[a + 1])}
      BY <2>4, <2>5
    <3>2. UNION {Bytes(t[n]) : n \in P \cup {a + 1}} = (0..(from - 1)) \cup (from..((from + len) - 1))
      BY <2>3, <2>6, <3>1
    <3>3. (0..(from - 1)) \cup (from..((from + len) - 1)) = 0..((from + len) - 1)
      BY <2>1
    <3>4. QED
      BY <3>2, <3>3
  <2>8. \A n \in P : Bytes(s[n]) \cap Bytes(t[a + 1]) = {}
    <3>1. \A n \in P : Bytes(s[n]) \subseteq 0..(from - 1)
      BY <2>3
    <3>2. (0..(from - 1)) \cap (from..((from + len) - 1)) = {}
      BY <2>1
    <3>3. QED
      BY <2>6, <3>1, <3>2
  <2>9. \A m, n \in P \cup {a + 1} : m # n => Bytes(t[m]) \cap Bytes(t[n]) = {}
    BY <2>3, <2>4, <2>5, <2>8
  <2>10. Tiles(t, c.call, from + len)
    BY Zenon, <2>4, <2>7, <2>9 DEF Tiles
  <2>11. c.at + c.len = from + len
    BY <2>1
  <2>12. QED
    BY Zenon, <2>10, <2>11
<1>4. QED
  BY <1>2, <1>3

\* SendRawData sends the next piece of the call in progress.
LEMMA SendingKeepsPieces ==
  ASSUME TypeInv, PiecesInv, SendRawData
  PROVE  PiecesInv'
<1>1. PICK k, size : k = Len(calls) /\ size = calls[k].size
  OBVIOUS
<1>2. /\ calls \in Seq(Call) /\ k \in Nat /\ k > 0 /\ calls[k] \in Call
      /\ size \in Nat /\ sentBytes \in Nat /\ sentBytes <= size /\ kpc = "reading"
  <2>1. calls \in Seq(Call) /\ k \in Nat /\ k > 0 /\ sentBytes \in Nat /\ sentBytes <= size /\ kpc = "reading"
    BY <1>1 DEF TypeInv, TypeOK, CallInProgress, SendRawData
  <2>2. calls[k] \in Call
    BY <1>1, <2>1, ElementOfSeq
  <2>3. QED
    BY <1>1, <2>1, <2>2 DEF Call
<1>3. PICK len \in Nat : /\ len = ChunkSize(size, sentBytes)
                         /\ sentBytes + len <= size
                         /\ len = MaxChunkSize \/ sentBytes + len = size
                         /\ len <= MaxChunkSize
                         /\ len = 0 => sentBytes = size
  <2>1. PICK max \in Nat \ {0} : max = MaxChunkSize
    BY Assumptions
  <2>2. CASE size - sentBytes < max
    <3>1. ChunkSize(size, sentBytes) = size - sentBytes /\ size - sentBytes \in Nat
      BY <1>2, <2>1, <2>2 DEF ChunkSize
    <3>2. QED
      BY <1>2, <2>1, <2>2, <3>1
  <2>3. CASE ~(size - sentBytes < max)
    <3>1. ChunkSize(size, sentBytes) = max
      BY <2>1, <2>3 DEF ChunkSize
    <3>2. QED
      BY <1>2, <2>1, <2>3, <3>1
  <2>4. QED
    BY <2>2, <2>3
<1>4. PICK c \in Chunk : c = [call |-> k, at |-> sentBytes, len |-> len]
  BY <1>2 DEF Chunk
<1>5. PICK s, t \in Seq(Chunk) : s = accepted /\ t = Append(s, c) /\ accepted' = t
  <2>1. accepted \in Seq(Chunk) /\ accepted' = Append(accepted, c)
    BY <1>1, <1>3, <1>4 DEF SendRawData, TypeInv, TypeOK
  <2>2. QED
    BY <2>1, AppendProperties
<1>6. Len(t) = Len(s) + 1 /\ t[Len(s) + 1] = c /\ \A n \in 1..Len(s) : t[n] = s[n]
  BY <1>5, AppendProperties
<1>7. /\ \A i, upto : i # k /\ Tiles(s, i, upto) => Tiles(t, i, upto)
      /\ Tiles(s, k, sentBytes) => Tiles(t, k, sentBytes + len)
  <2>1. c.call = k /\ c.at = sentBytes /\ c.len = len
    BY <1>4
  <2>2. QED
    BY <1>6, <2>1, PieceTiles
<1>8. \/ /\ sentBytes + MaxChunkSize < size /\ sentBytes' = sentBytes + MaxChunkSize
         /\ kpc' = "waiting" /\ calls' = calls
      \/ /\ ~(sentBytes + MaxChunkSize < size)
         /\ kpc' \notin {"waiting", "reading"}
         /\ calls' = [calls EXCEPT ![k].status = "CONTINUE"]
  BY <1>1 DEF SendRawData, Return
<1>9. /\ Len(calls') = k
      /\ \A i \in 1..k : calls'[i].op = calls[i].op /\ calls'[i].size = calls[i].size
      /\ \A i \in 1..k : i # k => calls'[i].status = calls[i].status
  <2>1. CASE calls' = calls
    BY <1>1, <2>1
  <2>2. CASE calls' = [calls EXCEPT ![k].status = "CONTINUE"]
    <3>1. "CONTINUE" \in Battling \cup {"aborted"}
      BY DEF Battling
    <3>2. QED
      BY <1>1, <1>2, <2>2, <3>1, ResultOfCall
  <2>3. QED
    BY <1>8, <2>1, <2>2
<1>10. CallRuns /\ calls[k].op \in {"SendTidalWave", "FinalBreach"}
  BY <1>2 DEF PiecesInv, Call
<1>11. CallRuns'
  BY <1>1, <1>2, <1>8, <1>10, Assumptions DEF CallRuns
<1>12. ASSUME NEW n \in 1..Len(t)
       PROVE  /\ t[n].call \in 1..k
              /\ t[n].len = 0 => calls'[t[n].call].op = "FinalBreach"
  <2>1. CASE n \in 1..Len(s)
    BY <1>1, <1>5, <1>6, <1>9, <2>1 DEF PiecesInv
  <2>2. CASE n = Len(s) + 1
    <3>1. t[n].call = k /\ t[n].len = len
      BY <1>4, <1>6, <2>2
    <3>2. len = 0 => calls[k].op = "FinalBreach"
      BY <1>1, <1>2, <1>3, <1>10 DEF CallRuns
    <3>3. QED
      BY <1>2, <1>9, <3>1, <3>2
  <2>3. QED
    BY <1>6, <2>1, <2>2
<1>13. ASSUME NEW i \in 1..k, Sends(i)'
       PROVE  Tiles(t, i, calls'[i].size)
  <2>1. CASE i # k
    BY <1>1, <1>5, <1>7, <1>9, <1>13, <2>1 DEF PiecesInv, Sends
  <2>2. CASE i = k
    <3>1. calls[k].op = "SendTidalWave" /\ calls'[k].status = "CONTINUE"
      BY <1>9, <1>13, <2>2 DEF Sends
    <3>2. calls[k].status = "running"
      BY <1>1, <1>2, <1>10 DEF CallRuns
    <3>3. ~(sentBytes + MaxChunkSize < size)
      BY <1>8, <3>1, <3>2
    <3>4. sentBytes + len = size
      <4>1. MaxChunkSize \in Nat
        BY Assumptions
      <4>2. QED
        BY <1>2, <1>3, <3>3, <4>1
    <3>5. Tiles(s, k, sentBytes)
      BY <1>1, <1>2, <1>5, <3>1 DEF PiecesInv
    <3>6. QED
      BY <1>1, <1>7, <1>9, <2>2, <3>4, <3>5
  <2>3. QED
    BY <2>1, <2>2
<1>14. ASSUME kpc' \in {"waiting", "reading"}, calls'[k].op = "SendTidalWave"
       PROVE  Tiles(t, k, sentBytes')
  <2>1. sentBytes + MaxChunkSize < size /\ sentBytes' = sentBytes + MaxChunkSize
    BY <1>8, <1>14
  <2>2. len = MaxChunkSize
    BY <1>2, <1>3, <2>1, Assumptions
  <2>3. calls[k].op = "SendTidalWave"
    BY <1>2, <1>9, <1>14
  <2>4. Tiles(s, k, sentBytes)
    BY <1>1, <1>2, <1>5, <2>3 DEF PiecesInv
  <2>5. QED
    BY <1>7, <2>1, <2>2, <2>4
<1>15. QED
  BY <1>5, <1>9, <1>11, <1>12, <1>13, <1>14 DEF PiecesInv

LEMMA StepKeepsPieces ==
  ASSUME TypeInv, PiecesInv, [Next]_vars
  PROVE  PiecesInv'
<1>1. ASSUME \/ UNCHANGED vars \/ RecvIdentity \/ FinalBreachDrain
             \/ \E h \in Harpoons : HarpoonStep(h)
      PROVE  PiecesInv'
  <2>1. /\ UNCHANGED <<calls, accepted, sentBytes>>
        /\ kpc' \in {"waiting", "reading"} => kpc \in {"waiting", "reading"}
    BY <1>1 DEF vars, kraken, RecvIdentity, FinalBreachDrain, HarpoonStep, Aim, Heave, Cancel,
                HeaveChunk, HeaveTimeout, HeaveInterrupt, Deliver, Crash
  <2>2. QED
    BY <2>1, SamePieces
<1>2. ASSUME NEW size \in Sizes, SendTidalWave(size)
      PROVE  PiecesInv'
  <2>1. PICK call : /\ calls' = Append(calls, call)
                    /\ call = [op |-> "SendTidalWave", size |-> size,
                               status |-> IF size = 0 THEN "CONTINUE" ELSE "running"]
                    /\ sentBytes' = 0 /\ UNCHANGED accepted /\ (size = 0 => kpc' = "idle")
    BY <1>2 DEF SendTidalWave
  <2>2. size \in Nat
    BY Assumptions
  <2>3. call \in Call
    BY <2>1, <2>2 DEF Call, Battling
  <2>4. \/ call.op = "SendTidalWave" /\ call.size = 0 /\ call.status = "CONTINUE" /\ kpc' = "idle"
        \/ call.op = "SendTidalWave" /\ call.size > 0 /\ call.status = "running"
    BY <2>1, <2>2
  <2>5. QED
    BY <2>1, <2>3, <2>4, CallingKeepsPieces
<1>3. CASE FinalBreach
  <2>1. PICK call : /\ calls' = Append(calls, call)
                    /\ call = [op |-> "FinalBreach", size |-> 0, status |-> "running"]
                    /\ sentBytes' = 0 /\ UNCHANGED accepted
    BY <1>3 DEF FinalBreach
  <2>2. call \in Call
    BY <2>1 DEF Call, Battling
  <2>3. call.op = "FinalBreach" /\ call.size = 0 /\ call.status = "running"
    BY <2>1
  <2>4. QED
    BY <2>1, <2>2, <2>3, CallingKeepsPieces
<1>4. CASE NextChunkIdTimeout \/ NextChunkIdInterrupt \/ NextChunkIdCancel
  <2>1. PICK status \in {"TIMEOUT", "INTERRUPT", "CANCEL"} :
          /\ calls' = [calls EXCEPT ![Len(calls)].status = status] /\ UNCHANGED accepted
          /\ kpc \in {"waiting", "reading"} /\ kpc' \notin {"waiting", "reading"}
    BY <1>4 DEF NextChunkIdTimeout, NextChunkIdInterrupt, NextChunkIdCancel, Return
  <2>2. status \in Battling \cup {"aborted"} /\ status # "CONTINUE"
    BY DEF Battling
  <2>3. QED
    BY <2>1, <2>2, FailingKeepsPieces
<1>5. CASE KrakenRestart
  <2>1. /\ UNCHANGED <<accepted, sentBytes>> /\ kpc' \notin {"waiting", "reading"}
        /\ calls' = IF kpc \in {"waiting", "reading"}
                      THEN [calls EXCEPT ![Len(calls)].status = "aborted"] ELSE calls
    BY <1>5 DEF KrakenRestart
  <2>2. CASE kpc \in {"waiting", "reading"}
    BY <2>1, <2>2, FailingKeepsPieces
  <2>3. CASE kpc \notin {"waiting", "reading"}
    BY <2>1, <2>3, SamePieces
  <2>4. QED
    BY <2>2, <2>3
<1>6. QED
  BY <1>1, <1>2, <1>3, <1>4, <1>5, SendingKeepsPieces DEF Next, KrakenStep

\* Whatever happens, the chunks of a SendTidalWave that returned CONTINUE are its bytes.
LEMMA AlwaysPieces == Spec => []PiecesInv
<1>1. Init => PiecesInv
  <2>1. Len(<<>>) = 0 /\ 1..0 = {}
    OBVIOUS
  <2>2. QED
    BY <2>1 DEF Init, PiecesInv, CallRuns
<1>2. TypeInv /\ PiecesInv /\ [Next]_vars => PiecesInv'
  BY StepKeepsPieces
<1>3. QED
  BY <1>1, <1>2, TypeInvariance, PTL DEF Spec

-----------------------------------------------------------------------------
(* Calls of one chunk *)

\* A call that needs one chunk: a FinalBreach, or a SendTidalWave of at most one.
Short(k) ==
  calls[k].op = "FinalBreach" \/ (calls[k].size > 0 /\ calls[k].size <= MaxChunkSize)

\* What KrakenBattle takes for granted of its calls: such a call sent all of its data as
\* one chunk if it returned CONTINUE, and nothing at all if it returned anything else or
\* has not returned; and chunks are in the order of the calls.
WholeOrNothing ==
  /\ \A k \in 1..Len(calls) : Short(k) =>
       IF calls[k].status = "CONTINUE"
         THEN \E n \in 1..Len(accepted) :
                /\ PiecesOf(accepted, k) = {n}
                /\ accepted[n].at = 0 /\ accepted[n].len = calls[k].size
         ELSE PiecesOf(accepted, k) = {}
  /\ \A m, n \in 1..Len(accepted) : m < n => accepted[m].call <= accepted[n].call

\* While a call waits or reads, a short one has not sent its chunk.
ShortInv ==
  /\ WholeOrNothing
  /\ kpc \in {"waiting", "reading"} /\ Short(Len(calls)) => sentBytes = 0

\* Nothing is called or sent.
LEMMA SameShort ==
  ASSUME ShortInv, UNCHANGED <<calls, accepted, sentBytes>>,
         kpc' \in {"waiting", "reading"} => kpc \in {"waiting", "reading"}
  PROVE  ShortInv'
BY DEF ShortInv, WholeOrNothing, Short

\* The call in progress gets a result other than CONTINUE.
LEMMA FailingKeepsShort ==
  ASSUME TypeInv, PiecesInv, ShortInv, UNCHANGED accepted,
         NEW status \in Battling \cup {"aborted"}, status # "CONTINUE",
         kpc \in {"waiting", "reading"}, kpc' \notin {"waiting", "reading"},
         calls' = [calls EXCEPT ![Len(calls)].status = status]
  PROVE  ShortInv'
<1>1. calls \in Seq(Call) /\ Len(calls) > 0
  BY DEF TypeInv, TypeOK, CallInProgress
<1>2. calls[Len(calls)].status # "CONTINUE"
  BY DEF PiecesInv, CallRuns
<1>3. /\ Len(calls') = Len(calls)
      /\ \A k \in 1..Len(calls) : calls'[k].op = calls[k].op /\ calls'[k].size = calls[k].size
      /\ \A k \in 1..Len(calls) : calls'[k].status = "CONTINUE" <=> calls[k].status = "CONTINUE"
  BY <1>1, <1>2, ResultOfCall
<1>4. \A k \in 1..Len(calls) : Short(k)' <=> Short(k)
  BY <1>3 DEF Short
<1>5. WholeOrNothing'
  BY <1>3, <1>4 DEF ShortInv, WholeOrNothing
<1>6. QED
  BY <1>5 DEF ShortInv

\* A call starts, without a chunk.
LEMMA CallingKeepsShort ==
  ASSUME TypeInv, PiecesInv, ShortInv, UNCHANGED accepted, NEW call \in Call,
         calls' = Append(calls, call), sentBytes' = 0,
         \/ call.op = "FinalBreach" /\ call.status = "running"
         \/ call.op = "SendTidalWave" /\ call.size = 0
         \/ call.op = "SendTidalWave" /\ call.status = "running"
  PROVE  ShortInv'
<1>1. PICK k \in Nat : k = Len(calls)
  BY DEF TypeInv, TypeOK
<1>2. /\ Len(calls') = k + 1 /\ calls'[k + 1] = call
      /\ \A i \in 1..k : calls'[i] = calls[i]
  BY <1>1, AppendProperties DEF TypeInv, TypeOK
<1>3. PiecesOf(accepted, k + 1) = {}
  BY <1>1 DEF PiecesOf, PiecesInv
<1>4. ASSUME NEW i \in 1..(k + 1), Short(i)'
      PROVE  IF calls'[i].status = "CONTINUE"
               THEN \E n \in 1..Len(accepted) :
                      /\ PiecesOf(accepted, i) = {n}
                      /\ accepted[n].at = 0 /\ accepted[n].len = calls'[i].size
               ELSE PiecesOf(accepted, i) = {}
  <2>1. CASE i \in 1..k
    <3>1. Short(i)
      BY <1>2, <1>4, <2>1 DEF Short
    <3>2. QED
      BY <1>1, <1>2, <2>1, <3>1 DEF ShortInv, WholeOrNothing
  <2>2. CASE i = k + 1
    <3>1. call.size = 0 /\ call.op = "SendTidalWave" => ~Short(i)'
      BY <1>2, <2>2 DEF Short
    <3>2. call.status = "running"
      BY <1>4, <3>1
    <3>3. QED
      BY <1>2, <1>3, <2>2, <3>2
  <2>3. QED
    BY <1>1, <2>1, <2>2
<1>5. WholeOrNothing'
  BY <1>2, <1>4 DEF ShortInv, WholeOrNothing
<1>6. QED
  BY <1>5 DEF ShortInv

\* SendRawData sends the only chunk of a short call, or one of a longer one.
LEMMA SendingKeepsShort ==
  ASSUME TypeInv, PiecesInv, ShortInv, SendRawData
  PROVE  ShortInv'
<1>1. PICK k, size : k = Len(calls) /\ size = calls[k].size
  OBVIOUS
<1>2. /\ calls \in Seq(Call) /\ k \in Nat /\ k > 0 /\ calls[k] \in Call
      /\ size \in Nat /\ sentBytes \in Nat /\ kpc = "reading"
  <2>1. calls \in Seq(Call) /\ k \in Nat /\ k > 0 /\ sentBytes \in Nat /\ kpc = "reading"
    BY <1>1 DEF TypeInv, TypeOK, CallInProgress, SendRawData
  <2>2. calls[k] \in Call
    BY <1>1, <2>1, ElementOfSeq
  <2>3. QED
    BY <1>1, <2>1, <2>2 DEF Call
<1>3. /\ calls[k].status = "running" /\ (calls[k].op = "FinalBreach" => size = 0)
      /\ Short(k) => sentBytes = 0 /\ PiecesOf(accepted, k) = {}
  BY <1>1, <1>2 DEF PiecesInv, CallRuns, ShortInv, WholeOrNothing
<1>4. PICK max \in Nat \ {0} : max = MaxChunkSize
  BY Assumptions
<1>5. Short(k) => ChunkSize(size, sentBytes) = size /\ ~(sentBytes + MaxChunkSize < size)
  <2>1. SUFFICES ASSUME Short(k) PROVE ChunkSize(size, sentBytes) = size /\ ~(sentBytes + MaxChunkSize < size)
    OBVIOUS
  <2>2. sentBytes = 0 /\ size <= max
    BY <1>1, <1>2, <1>3, <1>4, <2>1 DEF Short
  <2>3. QED
    BY <1>2, <1>4, <2>2 DEF ChunkSize
<1>6. PICK c : c = [call |-> k, at |-> sentBytes, len |-> ChunkSize(size, sentBytes)]
  OBVIOUS
<1>7. PICK s : s = accepted
  OBVIOUS
<1>8. /\ s \in Seq(Chunk) /\ Len(s) \in Nat /\ accepted' = Append(s, c) /\ accepted' \in Seq(Chunk)
      /\ Len(accepted') = Len(s) + 1 /\ accepted'[Len(s) + 1] = c
      /\ \A n \in 1..Len(s) : accepted'[n] = s[n]
  <2>1. s \in Seq(Chunk) /\ accepted' = Append(s, c)
    BY <1>1, <1>6, <1>7 DEF SendRawData, TypeInv, TypeOK
  <2>2. c \in Chunk
    <3>1. sentBytes <= size
      BY <1>1, <1>2 DEF TypeInv, CallInProgress
    <3>2. ChunkSize(size, sentBytes) \in Nat
      BY <1>2, <1>4, <3>1 DEF ChunkSize
    <3>3. QED
      BY <1>2, <1>6, <3>2 DEF Chunk
  <2>3. QED
    BY <2>1, <2>2, AppendProperties, LenProperties
<1>9. PiecesOf(accepted', k) = PiecesOf(s, k) \cup {Len(s) + 1}
      /\ \A i : i # k => PiecesOf(accepted', i) = PiecesOf(s, i)
  <2>1. \A n \in 1..(Len(s) + 1) : n \in 1..Len(s) \/ n = Len(s) + 1
    BY <1>8
  <2>2. c.call = k
    BY <1>6
  <2>3. \A i, n : n \in PiecesOf(accepted', i) <=> n \in PiecesOf(s, i) \/ (n = Len(s) + 1 /\ i = k)
    BY <1>8, <2>1, <2>2 DEF PiecesOf
  <2>4. PiecesOf(accepted', k) = PiecesOf(s, k) \cup {Len(s) + 1}
    BY <2>3
  <2>5. ASSUME NEW i, i # k
        PROVE  PiecesOf(accepted', i) = PiecesOf(s, i)
    <3>1. \A n : n \in PiecesOf(accepted', i) <=> n \in PiecesOf(s, i)
      BY <2>3, <2>5
    <3>2. QED
      BY <3>1
  <2>6. QED
    BY <2>4, <2>5
<1>10. \/ kpc' = "waiting" /\ calls' = calls /\ sentBytes + MaxChunkSize < size
       \/ /\ ~(sentBytes + MaxChunkSize < size)
          /\ kpc' \notin {"waiting", "reading"}
          /\ calls' = [calls EXCEPT ![k].status = "CONTINUE"]
  BY <1>1 DEF SendRawData, Return
<1>11. /\ Len(calls') = k
       /\ \A i \in 1..k : calls'[i].op = calls[i].op /\ calls'[i].size = calls[i].size
       /\ \A i \in 1..k : i # k => calls'[i].status = calls[i].status
       /\ Short(k) => calls'[k].status = "CONTINUE"
  <2>1. CASE calls' = calls /\ sentBytes + MaxChunkSize < size
    BY <1>1, <1>5, <2>1
  <2>2. CASE calls' = [calls EXCEPT ![k].status = "CONTINUE"]
    <3>1. "CONTINUE" \in Battling \cup {"aborted"}
      BY DEF Battling
    <3>2. QED
      BY <1>1, <1>2, <2>2, <3>1, ResultOfCall
  <2>3. QED
    BY <1>10, <2>1, <2>2
<1>12. \A i \in 1..k : Short(i)' <=> Short(i)
  BY <1>11 DEF Short
<1>13. ASSUME NEW i \in 1..k, Short(i)
       PROVE  IF calls'[i].status = "CONTINUE"
                THEN \E n \in 1..Len(accepted') :
                       /\ PiecesOf(accepted', i) = {n}
                       /\ accepted'[n].at = 0 /\ accepted'[n].len = calls'[i].size
                ELSE PiecesOf(accepted', i) = {}
  <2>1. CASE i = k
    <3>1. PiecesOf(accepted', k) = {Len(s) + 1} /\ Len(s) + 1 \in 1..Len(accepted')
      BY <1>3, <1>7, <1>8, <1>9, <1>13, <2>1
    <3>2. c.at = 0 /\ c.len = size
      BY <1>3, <1>5, <1>6, <1>13, <2>1
    <3>3. calls'[k].status = "CONTINUE" /\ calls'[k].size = size
      BY <1>1, <1>2, <1>11, <1>13, <2>1
    <3>4. QED
      BY <1>8, <2>1, <3>1, <3>2, <3>3
  <2>2. CASE i # k
    <3>1. IF calls[i].status = "CONTINUE"
            THEN \E n \in 1..Len(s) :
                   /\ PiecesOf(s, i) = {n} /\ s[n].at = 0 /\ s[n].len = calls[i].size
            ELSE PiecesOf(s, i) = {}
      BY <1>1, <1>7, <1>13 DEF ShortInv, WholeOrNothing
    <3>2. \A n \in 1..Len(s) : n \in 1..Len(accepted')
      BY <1>8
    <3>3. QED
      BY <1>8, <1>9, <1>11, <2>2, <3>1, <3>2
  <2>3. QED
    BY <2>1, <2>2
<1>14. ASSUME NEW m \in 1..Len(accepted'), NEW n \in 1..Len(accepted'), m < n
       PROVE  accepted'[m].call <= accepted'[n].call
  <2>1. m \in 1..Len(s)
    BY <1>8, <1>14
  <2>2. CASE n \in 1..Len(s)
    BY <1>7, <1>8, <1>14, <2>1, <2>2 DEF ShortInv, WholeOrNothing
  <2>3. CASE n = Len(s) + 1
    <3>1. accepted'[n].call = k /\ accepted'[m].call = s[m].call
      BY <1>6, <1>8, <2>1, <2>3
    <3>2. s[m].call \in 1..k
      BY <1>1, <1>7, <2>1 DEF PiecesInv
    <3>3. QED
      BY <1>2, <3>1, <3>2
  <2>4. QED
    BY <1>8, <2>2, <2>3
<1>15. WholeOrNothing'
  BY <1>11, <1>12, <1>13, <1>14 DEF WholeOrNothing
<1>16. kpc' \in {"waiting", "reading"} => ~Short(Len(calls))'
  <2>1. SUFFICES ASSUME kpc' \in {"waiting", "reading"} PROVE ~Short(k)
    <3>1. \A i : i = k => (Short(i)' <=> Short(i))
      BY <1>2, <1>12
    <3>2. QED
      BY <1>2, <1>11, <3>1 DEF Short
  <2>2. QED
    BY <1>5, <1>10, <2>1
<1>17. QED
  BY <1>15, <1>16 DEF ShortInv

\* Every step keeps it.
LEMMA StepKeepsShort ==
  ASSUME TypeInv, PiecesInv, ShortInv, [Next]_vars
  PROVE  ShortInv'
<1>1. ASSUME \/ UNCHANGED vars \/ RecvIdentity \/ FinalBreachDrain
             \/ \E h \in Harpoons : HarpoonStep(h)
      PROVE  ShortInv'
  <2>1. /\ UNCHANGED <<calls, accepted, sentBytes>>
        /\ kpc' \in {"waiting", "reading"} => kpc \in {"waiting", "reading"}
    BY <1>1 DEF vars, kraken, RecvIdentity, FinalBreachDrain, HarpoonStep, Aim, Heave, Cancel,
                HeaveChunk, HeaveTimeout, HeaveInterrupt, Deliver, Crash
  <2>2. QED
    BY <2>1, SameShort
<1>2. ASSUME NEW size \in Sizes, SendTidalWave(size)
      PROVE  ShortInv'
  <2>1. PICK call : /\ calls' = Append(calls, call)
                    /\ call = [op |-> "SendTidalWave", size |-> size,
                               status |-> IF size = 0 THEN "CONTINUE" ELSE "running"]
                    /\ sentBytes' = 0 /\ UNCHANGED accepted
    BY <1>2 DEF SendTidalWave
  <2>2. call \in Call
    BY <2>1, Assumptions DEF Call, Battling
  <2>3. \/ call.op = "SendTidalWave" /\ call.size = 0
        \/ call.op = "SendTidalWave" /\ call.status = "running"
    BY <2>1
  <2>4. QED
    BY <2>1, <2>2, <2>3, CallingKeepsShort
<1>3. CASE FinalBreach
  <2>1. PICK call : /\ calls' = Append(calls, call)
                    /\ call = [op |-> "FinalBreach", size |-> 0, status |-> "running"]
                    /\ sentBytes' = 0 /\ UNCHANGED accepted
    BY <1>3 DEF FinalBreach
  <2>2. call \in Call
    BY <2>1 DEF Call, Battling
  <2>3. call.op = "FinalBreach" /\ call.status = "running"
    BY <2>1
  <2>4. QED
    BY <2>1, <2>2, <2>3, CallingKeepsShort
<1>4. CASE NextChunkIdTimeout \/ NextChunkIdInterrupt \/ NextChunkIdCancel
  <2>1. PICK status \in {"TIMEOUT", "INTERRUPT", "CANCEL"} :
          /\ calls' = [calls EXCEPT ![Len(calls)].status = status] /\ UNCHANGED accepted
          /\ kpc \in {"waiting", "reading"} /\ kpc' \notin {"waiting", "reading"}
    BY <1>4 DEF NextChunkIdTimeout, NextChunkIdInterrupt, NextChunkIdCancel, Return
  <2>2. status \in Battling \cup {"aborted"} /\ status # "CONTINUE"
    BY DEF Battling
  <2>3. QED
    BY <2>1, <2>2, FailingKeepsShort
<1>5. CASE KrakenRestart
  <2>1. /\ UNCHANGED <<accepted, sentBytes>> /\ kpc' \notin {"waiting", "reading"}
        /\ calls' = IF kpc \in {"waiting", "reading"}
                      THEN [calls EXCEPT ![Len(calls)].status = "aborted"] ELSE calls
    BY <1>5 DEF KrakenRestart
  <2>2. CASE kpc \in {"waiting", "reading"}
    BY <2>1, <2>2, FailingKeepsShort
  <2>3. CASE kpc \notin {"waiting", "reading"}
    BY <2>1, <2>3, SameShort
  <2>4. QED
    BY <2>2, <2>3
<1>6. QED
  BY <1>1, <1>2, <1>3, <1>4, <1>5, SendingKeepsShort DEF Next, KrakenStep

\* A FinalBreach and a SendTidalWave of at most one chunk are all or nothing, whatever
\* the Harpoons and the network do.  This is what KrakenBattle rests on: it never
\* hands the Kraken more than one chunk.
THEOREM ShortCallsAreWholeOrNothing == Spec => []WholeOrNothing
<1>1. Init => ShortInv
  <2>1. Len(<<>>) = 0 /\ 1..0 = {}
    OBVIOUS
  <2>2. QED
    BY <2>1 DEF Init, ShortInv, WholeOrNothing
<1>2. TypeInv /\ PiecesInv /\ ShortInv /\ [Next]_vars => ShortInv'
  BY StepKeepsShort
<1>3. ShortInv => WholeOrNothing
  BY DEF ShortInv
<1>4. QED
  BY <1>1, <1>2, <1>3, TypeInvariance, AlwaysPieces, PTL DEF Spec

-----------------------------------------------------------------------------
(* One Harpoon, one credit and no fault *)

\* The queue length is that of both constructors, and the instance has one Harpoon whose
\* application never cancels and whose process and network stay.
Reliable == Faults = {} /\ QueueLength = 1 /\ Harpoons = {Client}

\* The Harpoon has its end marker.
Ends == \E i \in DOMAIN received[Client] : IsEnd(received[Client][i])

\* Nothing that only a fault brings about.
NoFault ==
  /\ lost = {} /\ interrupted = {}
  /\ hpc[Client] # "dead"
  /\ hpc[Client] = "new" => mOffset[Client] = 0
  /\ \A i \in DOMAIN net[Client] : net[Client][i] # CANCEL
  /\ \A i \in DOMAIN rx : rx[i] # CANCEL

\* The one request there may be: none, in the Harpoon's pipe, at the Kraken, or torn apart
\* by a FinalBreach that failed.
OneRequest ==
  \/ /\ net[Client] = <<>> /\ Len(Frames) = 0
     /\ mOffset[Client] = Answered(Client)
  \/ /\ Len(net[Client]) = 1 /\ Len(Frames) = 0
     /\ mOffset[Client] = Answered(Client) + 1
  \/ /\ net[Client] = <<>> /\ Len(Frames) = 2 /\ Frames[1] = Client
     /\ mOffset[Client] = Answered(Client) + 1
  \/ /\ net[Client] = <<>> /\ Len(Frames) <= 1 /\ BreachFailed
     /\ mOffset[Client] = Answered(Client) + 1

\* Credit is spent for requests and comes back with chunks, but for the end marker.
CreditSum ==
  mCredit[Client] + mOffset[Client] = Len(received[Client]) + IF Ends THEN 0 ELSE 1

\* When FinalBreach looks for leftovers its end marker is sent, or it failed.
DrainsAfterEnd == kpc = "draining" => BreachFailed \/ Ended

\* The chunks come in the order of their numbers and none is missing.
Numbered ==
  /\ Len(received[Client]) + Len(inbox[Client]) = Len(accepted)
  /\ \A i \in DOMAIN received[Client] : received[Client][i] = i
  /\ \A i \in DOMAIN inbox[Client] : inbox[Client][i] = Len(received[Client]) + i

ReliableInv == NoFault /\ OneRequest /\ CreditSum /\ DrainsAfterEnd /\ Numbered

\* What is known of every instance.
Known == TypeInv /\ RequestsAnsweredOnce /\ SentInv /\ EndInv /\ PiecesInv

LEMMA ClientFacts ==
  ASSUME Reliable
  PROVE  /\ Client \in Harpoons /\ \A h \in Harpoons : h = Client
         /\ Client \notin Nat /\ Client # CANCEL /\ QueueLength = 1 /\ Faults = {}
         /\ TypeOK => /\ received[Client] \in Seq(Nat) /\ inbox[Client] \in Seq(Nat)
                      /\ net[Client] \in Seq(Request)
                      /\ mCredit[Client] \in Nat /\ mOffset[Client] \in Nat
                      /\ Len(received[Client]) \in Nat /\ Len(inbox[Client]) \in Nat
<1>1. /\ Client \in Harpoons /\ \A h \in Harpoons : h = Client
      /\ Client \notin Nat /\ Client # CANCEL /\ QueueLength = 1 /\ Faults = {}
  BY Assumptions DEF Reliable
<1>2. QED
  BY <1>1 DEF TypeOK

\* A FinalBreach that failed stays one that failed: a result goes to a call that has none.
LEMMA BreachStays ==
  ASSUME TypeInv, PiecesInv, [Next]_vars, BreachFailed
  PROVE  BreachFailed'
<1>1. PICK k \in 1..Len(calls) : calls[k].op = "FinalBreach" /\ calls[k].status = "TIMEOUT"
  BY DEF BreachFailed, TypeInv, TypeOK
<1>2. calls \in Seq(Call)
  BY DEF TypeInv, TypeOK
<1>3. CASE calls' = calls
  BY <1>1, <1>2, <1>3 DEF BreachFailed
<1>4. ASSUME NEW call \in Call, calls' = Append(calls, call)
      PROVE  BreachFailed'
  <2>1. calls' \in Seq(Call) /\ Len(calls') = Len(calls) + 1 /\ calls'[k] = calls[k]
    BY <1>2, <1>4, AppendProperties
  <2>2. k \in DOMAIN calls'
    BY <1>2, <2>1
  <2>3. QED
    BY <1>1, <2>1, <2>2 DEF BreachFailed
<1>5. ASSUME NEW status \in Battling \cup {"aborted"}, kpc \in {"waiting", "reading"},
             calls' = [calls EXCEPT ![Len(calls)].status = status], TypeOK'
      PROVE  BreachFailed'
  <2>1. Len(calls) > 0 /\ calls[Len(calls)].status = "running"
    BY <1>5 DEF TypeInv, CallInProgress, PiecesInv, CallRuns
  <2>2. k # Len(calls)
    BY <1>1, <2>1
  <2>3. Len(calls') = Len(calls) /\ calls'[k].op = calls[k].op /\ calls'[k].status = calls[k].status
    BY <1>2, <1>5, <2>1, <2>2, ResultOfCall
  <2>4. k \in DOMAIN calls'
    BY <1>5, <2>3 DEF TypeOK
  <2>5. QED
    BY <1>1, <2>3, <2>4 DEF BreachFailed
<1>6. TypeOK'
  <2>1. CASE Next
    BY <2>1, HarpoonType, KrakenType DEF Next, TypeInv
  <2>2. CASE UNCHANGED vars
    BY <2>2 DEF vars, kraken, harpoon, TypeInv, TypeOK
  <2>3. QED
    BY <2>1, <2>2
<1>7. ASSUME \/ UNCHANGED vars \/ RecvIdentity \/ FinalBreachDrain
             \/ \E h \in Harpoons : HarpoonStep(h)
      PROVE  calls' = calls
  BY <1>7 DEF vars, kraken, RecvIdentity, FinalBreachDrain, HarpoonStep, Aim, Heave, Cancel,
              HeaveChunk, HeaveTimeout, HeaveInterrupt, Deliver, Crash
<1>8. ASSUME \/ \E size \in Sizes : SendTidalWave(size)
             \/ FinalBreach
      PROVE  \E call \in Call : calls' = Append(calls, call)
  <2>1. ASSUME NEW size \in Sizes, SendTidalWave(size)
        PROVE  \E call \in Call : calls' = Append(calls, call)
    <3>1. [op |-> "SendTidalWave", size |-> size,
           status |-> IF size = 0 THEN "CONTINUE" ELSE "running"] \in Call
      BY Assumptions DEF Call, Battling
    <3>2. QED
      BY <2>1, <3>1 DEF SendTidalWave
  <2>2. ASSUME FinalBreach
        PROVE  \E call \in Call : calls' = Append(calls, call)
    <3>1. [op |-> "FinalBreach", size |-> 0, status |-> "running"] \in Call
      BY DEF Call, Battling
    <3>2. QED
      BY <2>2, <3>1 DEF FinalBreach
  <2>3. QED
    BY <1>8, <2>1, <2>2
<1>9. ASSUME \/ NextChunkIdTimeout \/ NextChunkIdInterrupt \/ NextChunkIdCancel
             \/ SendRawData \/ KrakenRestart
      PROVE  \/ calls' = calls
             \/ /\ kpc \in {"waiting", "reading"}
                /\ \E status \in Battling \cup {"aborted"} :
                     calls' = [calls EXCEPT ![Len(calls)].status = status]
  <2>1. {"TIMEOUT", "INTERRUPT", "CANCEL", "CONTINUE", "aborted"} \subseteq Battling \cup {"aborted"}
    BY DEF Battling
  <2>2. CASE NextChunkIdTimeout \/ NextChunkIdInterrupt \/ NextChunkIdCancel
    BY <2>1, <2>2 DEF NextChunkIdTimeout, NextChunkIdInterrupt, NextChunkIdCancel, Return
  <2>3. CASE SendRawData
    BY <2>1, <2>3 DEF SendRawData, Return
  <2>4. CASE KrakenRestart
    BY <2>1, <2>4 DEF KrakenRestart
  <2>5. QED
    BY <1>9, <2>2, <2>3, <2>4
<1>10. QED
  BY <1>3, <1>4, <1>5, <1>6, <1>7, <1>8, <1>9 DEF Next, KrakenStep

\* An end marker that was sent stays sent.
LEMMA EndStays ==
  ASSUME TypeInv, TypeInv', [Next]_vars
  PROVE  /\ Len(accepted) <= Len(accepted')
         /\ Ended => Ended'
<1>1. \A n \in 1..Len(accepted) : accepted'[n] = accepted[n]
  BY ChunksStay DEF TypeInv
<1>2. Len(accepted) <= Len(accepted')
  <2>1. CASE SendRawData
    <3>1. PICK c : accepted' = Append(accepted, c)
      BY <2>1 DEF SendRawData
    <3>2. PICK s : s = accepted /\ s \in Seq(Chunk)
      BY DEF TypeInv, TypeOK
    <3>3. Len(Append(s, c)) = Len(s) + 1
      BY <3>2, AppendProperties
    <3>4. QED
      BY <3>1, <3>2, <3>3
  <2>2. CASE accepted' = accepted
    BY <2>2 DEF TypeInv, TypeOK
  <2>3. ASSUME ~SendRawData
        PROVE  accepted' = accepted
    BY <2>3 DEF Next, KrakenStep, HarpoonStep, Aim, Heave, Cancel, HeaveChunk, HeaveTimeout,
                HeaveInterrupt, Deliver, Crash, SendTidalWave, FinalBreach, RecvIdentity,
                NextChunkIdTimeout, NextChunkIdInterrupt, NextChunkIdCancel, FinalBreachDrain,
                KrakenRestart, vars
  <2>4. QED
    BY <2>1, <2>2, <2>3
<1>3. ASSUME Ended PROVE Ended'
  <2>1. PICK n \in 1..Len(accepted) : accepted[n].len = 0
    BY <1>3 DEF Ended, IsEnd, TypeInv, TypeOK
  <2>2. n \in DOMAIN accepted' /\ accepted'[n].len = 0
    BY <1>1, <1>2, <2>1 DEF TypeInv, TypeOK
  <2>3. QED
    BY <2>2 DEF Ended, IsEnd
<1>4. QED
  BY <1>2, <1>3

\* A step that touches neither chunks nor credit.
LEMMA KeepsCounts ==
  ASSUME Reliable, Known, ReliableInv, [Next]_vars,
         UNCHANGED <<received, inbox, mCredit, mOffset, accepted>>
  PROVE  CreditSum' /\ Numbered'
<1>1. Ends' <=> Ends
  BY DEF Ends, IsEnd
<1>2. QED
  BY <1>1 DEF CreditSum, Numbered, ReliableInv

\* A step that leaves the request where it is.
LEMMA KeepsRequest ==
  ASSUME Reliable, Known, Known', ReliableInv, [Next]_vars,
         UNCHANGED <<received, inbox, mOffset, net>>, DropsFrames(0)
  PROVE  OneRequest'
<1>1. Len(Frames') = Len(Frames) /\ (Len(Frames) = 2 => Frames'[1] = Frames[1])
  <2>1. /\ Frames \in Seq(Frame) /\ Frames' \in Seq(Frame)
    BY FramesType DEF Known, TypeInv
  <2>2. Len(Frames') + 0 = Len(Frames) /\ \A i \in DOMAIN Frames' : Frames'[i] = Frames[i + 0]
    BY DEF DropsFrames
  <2>3. Len(Frames') = Len(Frames)
    BY <2>1, <2>2
  <2>4. ASSUME Len(Frames) = 2 PROVE Frames'[1] = Frames[1]
    <3>1. 1 \in DOMAIN Frames' /\ 1 + 0 = 1
      BY <2>1, <2>3, <2>4
    <3>2. QED
      BY <2>2, <3>1
  <2>5. QED
    BY <2>3, <2>4
<1>2. Answered(Client)' = Answered(Client)
  BY DEF Answered
<1>3. BreachFailed => BreachFailed'
  BY BreachStays DEF Known
<1>4. QED
  BY <1>1, <1>2, <1>3 DEF OneRequest, ReliableInv

\* The chunks a Harpoon has and those on their way, its credit and its requests.
CountsAre(a, b, c, o) ==
  /\ a = Len(received[Client]) /\ b = Len(inbox[Client])
  /\ c = mCredit[Client] /\ o = mOffset[Client] /\ Answered(Client) = a + b
  /\ Ends => b = 0 /\ o = a /\ c = 0
  /\ ~Ends => c + o = a + 1
  /\ Ends \/ b # 0 => o = a + b
  /\ c # 0 => c = 1 /\ o = a /\ b = 0
  /\ b # 0 => b = 1 /\ o = a + 1 /\ c = 0 /\ ~Ends
  /\ o # a + b => o = a + 1 /\ b = 0 /\ c = 0 /\ ~Ends

LEMMA Counts ==
  ASSUME Reliable, Known, ReliableInv
  PROVE  \E a, b, c, o \in Nat : CountsAre(a, b, c, o)
<1>1. PICK a, b, c, o \in Nat : /\ a = Len(received[Client]) /\ b = Len(inbox[Client])
                                /\ c = mCredit[Client] /\ o = mOffset[Client]
  BY ClientFacts DEF Known, TypeInv
<1>2. Answered(Client) = a + b /\ a + b <= o /\ c + o <= a + 1
  <2>1. Answered(Client) = a + b
    BY <1>1 DEF Answered
  <2>2. Answered(Client) <= o /\ c + o <= 1 + a
    BY <1>1, ClientFacts DEF Known, RequestsAnsweredOnce, Credits
  <2>3. QED
    BY <2>1, <2>2
<1>3. c + o = a + IF Ends THEN 0 ELSE 1
  BY <1>1 DEF ReliableInv, CreditSum
<1>4. Ends => b = 0 /\ o = a /\ c = 0
  BY <1>2, <1>3
<1>5. /\ b # 0 => b = 1 /\ o = a + 1 /\ c = 0 /\ o = a + b
      /\ o # a + b => o = a + 1 /\ b = 0 /\ c = 0
      /\ c # 0 => c = 1 /\ o = a /\ b = 0
  BY <1>2
<1>6. (Ends => o = a + b) /\ (~Ends => c + o = a + 1)
  BY <1>3, <1>4
<1>7. (b # 0 => ~Ends) /\ (o # a + b => ~Ends)
  BY <1>4, <1>6
<1>8. /\ Ends \/ b # 0 => o = a + b
      /\ b # 0 => b = 1 /\ o = a + 1 /\ c = 0 /\ ~Ends
      /\ o # a + b => o = a + 1 /\ b = 0 /\ c = 0 /\ ~Ends
  BY Zenon, <1>5, <1>6, <1>7
<1>9. CountsAre(a, b, c, o)
  BY <1>1, <1>2, <1>4, <1>5, <1>6, <1>8 DEF CountsAre
<1>10. QED
  BY <1>9

\* Once an end marker is sent there is no request any more.
LEMMA NothingAskedAfterEnd ==
  ASSUME Reliable, Known, ReliableInv, Ended
  PROVE  mOffset[Client] = Answered(Client)
<1>1. PICK a, b, c, o \in Nat :
           /\ a = Len(received[Client]) /\ b = Len(inbox[Client])
           /\ c = mCredit[Client] /\ o = mOffset[Client] /\ Answered(Client) = a + b
           /\ Ends \/ b # 0 => o = a + b
  BY Counts DEF CountsAre
<1>2. PICK n \in 1..Len(accepted) : IsEnd(n)
  BY DEF Ended, Known, TypeInv, TypeOK
<1>3. n \in Has(Client)
  BY <1>2, ClientFacts DEF Known, SentInv, Placed, ReliableInv, NoFault
<1>4. CASE n \in Range(received[Client])
  <2>1. Ends
    BY <1>2, <1>4 DEF Ends, Range
  <2>2. QED
    BY <1>1, <2>1
<1>5. CASE n \in Range(inbox[Client])
  <2>1. b # 0
    <3>1. PICK i \in DOMAIN inbox[Client] : TRUE
      BY <1>5 DEF Range
    <3>2. QED
      BY <1>1, <3>1, ClientFacts DEF Known, TypeInv
  <2>2. QED
    BY <1>1, <2>1
<1>6. QED
  BY <1>3, <1>4, <1>5 DEF Has

\* The steps that move neither a request nor a chunk.
LEMMA QuietReliable ==
  ASSUME Reliable, Known, Known', ReliableInv, [Next]_vars,
         \/ UNCHANGED vars \/ RecvIdentity \/ FinalBreach
         \/ \E size \in Sizes : SendTidalWave(size)
         \/ \E h \in Harpoons : Aim(h) \/ HeaveTimeout(h)
  PROVE  ReliableInv'
<1>1. UNCHANGED <<received, inbox, mCredit, mOffset, accepted, net, lost, interrupted>>
  BY DEF vars, harpoon, RecvIdentity, FinalBreach, SendTidalWave, Aim, HeaveTimeout
<1>2. /\ hpc'[Client] = hpc[Client] \/ hpc'[Client] = "idle"
      /\ kpc' = "draining" => kpc = "draining"
      /\ \/ mIdentity' = mIdentity /\ rx' = rx
         \/ /\ rx # <<>> /\ rx' = Tail(rx) /\ mIdentity' = <<Head(rx)>> /\ kpc = "waiting"
  <2>1. CASE RecvIdentity
    BY <2>1 DEF RecvIdentity, harpoon
  <2>2. CASE UNCHANGED vars \/ FinalBreach \/ \E size \in Sizes : SendTidalWave(size)
    BY <2>2 DEF vars, kraken, harpoon, FinalBreach, SendTidalWave
  <2>3. ASSUME NEW h \in Harpoons, Aim(h) \/ HeaveTimeout(h)
        PROVE  /\ hpc'[Client] = hpc[Client] \/ hpc'[Client] = "idle"
               /\ UNCHANGED <<kpc, mIdentity, rx>>
    BY <2>3, ClientFacts DEF Aim, HeaveTimeout, kraken, Known, TypeInv, TypeOK
  <2>4. QED
    BY <2>1, <2>2, <2>3
<1>3. TypeOK /\ TypeOK'
  BY DEF Known, TypeInv
<1>4. kpc = "waiting" => mIdentity = <<>>
  BY <1>3, EmptySeq DEF TypeOK
<1>5. DropsFrames(0)
  BY <1>2, <1>3, <1>4, FrameSteps
<1>6. OneRequest'
  BY <1>1, <1>5, KeepsRequest
<1>7. CreditSum' /\ Numbered'
  BY <1>1, KeepsCounts
<1>8. \A i \in DOMAIN rx' : rx'[i] # CANCEL
  <2>1. CASE rx' = rx
    BY <2>1 DEF ReliableInv, NoFault
  <2>2. CASE rx # <<>> /\ rx' = Tail(rx)
    <3>1. rx \in Seq(Frame)
      BY <1>3 DEF TypeOK
    <3>2. \A i \in DOMAIN rx' : i + 1 \in DOMAIN rx /\ rx'[i] = rx[i + 1]
      BY <2>2, <3>1, HeadTailProperties
    <3>3. QED
      BY <3>2 DEF ReliableInv, NoFault
  <2>3. QED
    BY <1>2, <2>1, <2>2
<1>9. NoFault'
  <2>1. hpc'[Client] # "dead" /\ (hpc'[Client] = "new" => mOffset'[Client] = 0)
    BY <1>1, <1>2 DEF ReliableInv, NoFault
  <2>2. QED
    BY <1>1, <1>8, <2>1 DEF ReliableInv, NoFault
<1>10. DrainsAfterEnd'
  BY <1>2, BreachStays, EndStays DEF Known, ReliableInv, DrainsAfterEnd
<1>11. QED
  BY <1>6, <1>7, <1>9, <1>10 DEF ReliableInv

\* Without signals a Heave spends its whole credit: it makes the one request, or none.
LEMMA AskingReliable ==
  ASSUME Reliable, Known, Known', ReliableInv, [Next]_vars, Heave(Client)
  PROVE  ReliableInv'
<1>1. PICK a, b, c, o \in Nat :
           /\ a = Len(received[Client]) /\ b = Len(inbox[Client])
           /\ c = mCredit[Client] /\ o = mOffset[Client] /\ Answered(Client) = a + b
           /\ c # 0 => c = 1 /\ o = a /\ b = 0
  BY Counts DEF CountsAre
<1>2. TypeOK /\ TypeOK' /\ Client \in Harpoons
  BY ClientFacts DEF Known, TypeInv
<1>3. /\ mCredit' = [mCredit EXCEPT ![Client] = @ - c] /\ mOffset' = [mOffset EXCEPT ![Client] = @ + c]
      /\ net' = [net EXCEPT ![Client] = @ \o Requests(Client, c)] /\ interrupted' = interrupted
      /\ hpc' = [hpc EXCEPT ![Client] = "heaving"]
  <2>1. PICK n \in 0..mCredit[Client] :
          /\ RequestChunks(Client, n)
          /\ net' = [net EXCEPT ![Client] = @ \o Requests(Client, n)]
    BY DEF Heave
  <2>2. Client \notin interrupted /\ "signal" \notin Faults
    BY DEF ReliableInv, NoFault, Reliable
  <2>3. n = c /\ interrupted' = interrupted
    BY <1>1, <2>1, <2>2 DEF RequestChunks
  <2>4. QED
    BY <2>1, <2>3 DEF RequestChunks, Heave
<1>4. UNCHANGED <<rx, inbox, mIdentity, kpc, accepted, received, lost>>
  BY DEF Heave, kraken
<1>5. /\ mCredit'[Client] = c - c /\ mOffset'[Client] = o + c
      /\ net'[Client] = net[Client] \o Requests(Client, c)
  BY <1>1, <1>2, <1>3 DEF TypeOK
<1>6. /\ Requests(Client, c) \in Seq(Request) /\ Len(Requests(Client, c)) = c
      /\ \A i \in 1..c : Requests(Client, c)[i] = o + i - 1
  BY <1>1, <1>2, RequestsType
<1>7. Frames' = Frames /\ Answered(Client)' = a + b
  BY <1>1, <1>4 DEF Frames, Answered
<1>8. CASE c = 0
  <2>1. Requests(Client, c) = <<>>
    BY <1>6, <1>8, EmptySeq
  <2>2. net'[Client] = net[Client]
    BY <1>2, <1>5, <2>1 DEF TypeOK
  <2>3. net' = net /\ mOffset' = mOffset /\ mCredit' = mCredit
    <3>1. mOffset'[Client] = mOffset[Client] /\ mCredit'[Client] = mCredit[Client]
      BY <1>1, <1>5, <1>8
    <3>2. \A h \in Harpoons : net'[h] = net[h] /\ mOffset'[h] = mOffset[h] /\ mCredit'[h] = mCredit[h]
      BY <2>2, <3>1, ClientFacts
    <3>3. net' = net
      BY <1>2, <3>2 DEF TypeOK
    <3>4. mOffset' = mOffset
      BY <1>2, <3>2 DEF TypeOK
    <3>5. mCredit' = mCredit
      BY <1>2, <3>2 DEF TypeOK
    <3>6. QED
      BY <3>3, <3>4, <3>5
  <2>4. DropsFrames(0)
    BY <1>2, <1>4, FrameSteps
  <2>5. OneRequest'
    BY <1>4, <2>3, <2>4, KeepsRequest
  <2>6. CreditSum' /\ Numbered'
    BY <1>4, <2>3, KeepsCounts
  <2>7. NoFault'
    BY <1>2, <1>3, <1>4, <2>3 DEF ReliableInv, NoFault, TypeOK
  <2>8. DrainsAfterEnd'
    BY <1>4, BreachStays, EndStays DEF Known, ReliableInv, DrainsAfterEnd
  <2>9. QED
    BY <2>5, <2>6, <2>7, <2>8 DEF ReliableInv
<1>9. CASE c # 0
  <2>1. c = 1 /\ o = a /\ b = 0
    BY <1>1, <1>9
  <2>2. net[Client] = <<>> /\ Len(Frames) = 0
    BY <1>1, <2>1 DEF ReliableInv, OneRequest
  <2>3. net'[Client] = Requests(Client, c)
    BY <1>5, <1>6, <2>2
  <2>4. OneRequest'
    BY <1>5, <1>6, <1>7, <2>1, <2>2, <2>3 DEF OneRequest
  <2>5. CreditSum'
    <3>1. Ends' <=> Ends
      BY <1>4 DEF Ends, IsEnd
    <3>2. mCredit'[Client] + mOffset'[Client] = mCredit[Client] + mOffset[Client]
      BY <1>1, <1>5, <2>1
    <3>3. QED
      BY <1>4, <3>1, <3>2 DEF ReliableInv, CreditSum
  <2>6. Numbered'
    BY <1>4 DEF ReliableInv, Numbered
  <2>7. NoFault'
    <3>1. \A i \in DOMAIN net'[Client] : net'[Client][i] # CANCEL
      <4>1. \A i \in DOMAIN net'[Client] : net'[Client][i] \in Nat
        BY <1>6, <2>1, <2>3
      <4>2. QED
        BY <4>1, Assumptions
    <3>2. hpc'[Client] = "heaving"
      BY <1>2, <1>3 DEF TypeOK
    <3>3. QED
      BY <1>3, <1>4, <3>1, <3>2 DEF ReliableInv, NoFault
  <2>8. DrainsAfterEnd'
    BY <1>4, BreachStays, EndStays DEF Known, ReliableInv, DrainsAfterEnd
  <2>9. QED
    BY <2>4, <2>5, <2>6, <2>7, <2>8 DEF ReliableInv
<1>10. QED
  BY <1>8, <1>9

\* A chunk goes from the socket to the application and brings the credit back, or ends the
\* stream.
LEMMA TakingReliable ==
  ASSUME Reliable, Known, Known', ReliableInv, [Next]_vars, HeaveChunk(Client)
  PROVE  ReliableInv'
<1>1. PICK a, b, c, o \in Nat :
           /\ a = Len(received[Client]) /\ b = Len(inbox[Client])
           /\ c = mCredit[Client] /\ o = mOffset[Client] /\ Answered(Client) = a + b
           /\ b # 0 => b = 1 /\ o = a + 1 /\ c = 0 /\ ~Ends
  BY Counts DEF CountsAre
<1>2. TypeOK /\ TypeOK' /\ Client \in Harpoons
  BY ClientFacts DEF Known, TypeInv
<1>3. PICK r, s \in Seq(Nat) : r = received[Client] /\ s = inbox[Client] /\ s # <<>>
  BY <1>2, ClientFacts DEF HeaveChunk
<1>4. PICK n \in Nat : n = Head(s) /\ n = s[1]
  BY <1>3, HeadTailProperties
<1>5. /\ received'[Client] = Append(r, n) /\ inbox'[Client] = Tail(s)
      /\ mCredit'[Client] = c + CreditFor(n) /\ mOffset'[Client] = o
      /\ UNCHANGED <<net, rx, mIdentity, kpc, accepted, lost, interrupted>>
      /\ hpc'[Client] = "idle" /\ mOffset' = mOffset
  BY <1>1, <1>2, <1>3, <1>4 DEF HeaveChunk, kraken, TypeOK
<1>6. b = 1 /\ o = a + 1 /\ c = 0 /\ ~Ends
  BY <1>1, <1>3, EmptySeq
<1>7. Tail(s) = <<>>
  <2>1. Tail(s) \in Seq(Nat) /\ Len(Tail(s)) = Len(s) - 1
    BY <1>3, HeadTailProperties
  <2>2. Len(Tail(s)) = 0
    BY <1>1, <1>3, <1>6, <2>1
  <2>3. QED
    BY <2>1, <2>2, EmptySeq
<1>8. PICK t \in Seq(Nat) : /\ t = Append(r, n) /\ Len(t) = a + 1 /\ t[a + 1] = n
                            /\ \A i \in 1..a : t[i] = r[i]
  <2>1. PICK t : t = Append(r, n)
    OBVIOUS
  <2>2. t \in Seq(Nat) /\ Len(t) = Len(r) + 1 /\ t[Len(r) + 1] = n /\ \A i \in 1..Len(r) : t[i] = r[i]
    BY <1>3, <2>1, AppendProperties
  <2>3. Len(r) = a
    BY <1>1, <1>3
  <2>4. QED
    BY <2>1, <2>2, <2>3
<1>9. /\ received'[Client] = t /\ inbox'[Client] = <<>> /\ Len(inbox'[Client]) = 0
      /\ Len(received'[Client]) = a + 1
  <2>1. Len(<<>>) = 0
    OBVIOUS
  <2>2. QED
    BY <1>5, <1>7, <1>8, <2>1
<1>10. Answered(Client)' = a + 1 /\ Answered(Client) = a + 1
  BY <1>1, <1>6, <1>9 DEF Answered
<1>11. Frames' = Frames
  BY <1>5 DEF Frames
<1>12. OneRequest'
  <2>1. BreachFailed => BreachFailed'
    BY BreachStays DEF Known
  <2>2. QED
    BY <1>5, <1>10, <1>11, <2>1 DEF ReliableInv, OneRequest
<1>13. Ends' <=> IsEnd(n)
  <2>1. DOMAIN t = 1..(a + 1) /\ DOMAIN r = 1..a
    BY <1>1, <1>3, <1>8
  <2>2. \A i \in 1..a : ~(accepted[t[i]].len = 0)
    BY <1>3, <1>6, <1>8, <2>1 DEF Ends, IsEnd
  <2>3. (\E i \in 1..(a + 1) : accepted[t[i]].len = 0) <=> accepted[n].len = 0
    BY <1>8, <2>2
  <2>4. QED
    BY <1>5, <1>9, <2>1, <2>3 DEF Ends, IsEnd
<1>14. CreditSum'
  <2>1. CreditFor(n) = IF IsEnd(n) THEN 0 ELSE 1
    BY DEF CreditFor
  <2>2. mCredit'[Client] + mOffset'[Client] = (a + 1) + IF IsEnd(n) THEN 0 ELSE 1
    BY <1>5, <1>6, <2>1
  <2>3. QED
    BY <1>9, <1>13, <2>2 DEF CreditSum
<1>15. Numbered'
  <2>1. /\ a + b = Len(accepted) /\ n = a + 1
        /\ \A i \in 1..a : r[i] = i
    <3>1. /\ a + b = Len(accepted) /\ \A i \in 1..a : r[i] = i
          /\ \A i \in DOMAIN s : s[i] = a + i
      <4>1. /\ Len(received[Client]) + Len(inbox[Client]) = Len(accepted)
            /\ \A i \in DOMAIN received[Client] : received[Client][i] = i
            /\ \A i \in DOMAIN inbox[Client] : inbox[Client][i] = Len(received[Client]) + i
        BY DEF ReliableInv, Numbered
      <4>2. DOMAIN r = 1..a
        BY <1>1, <1>3
      <4>3. a + b = Len(accepted)
        BY <1>1, <4>1
      <4>4. \A i \in DOMAIN s : s[i] = a + i
        BY <1>1, <1>3, <4>1
      <4>5. QED
        BY <1>3, <4>1, <4>2, <4>3, <4>4
    <3>2. 1 \in DOMAIN s
      BY <1>1, <1>3, <1>6
    <3>3. QED
      BY <1>4, <3>1, <3>2
  <2>2. \A i \in 1..(a + 1) : t[i] = i
    BY <1>8, <2>1
  <2>3. Len(received'[Client]) + Len(inbox'[Client]) = Len(accepted')
    <3>1. (a + 1) + 0 = Len(accepted)
      BY <1>6, <2>1
    <3>2. QED
      BY <1>5, <1>9, <3>1
  <2>4. DOMAIN t = 1..(a + 1) /\ DOMAIN <<>> = {}
    BY <1>8
  <2>5. QED
    BY <1>9, <2>2, <2>3, <2>4 DEF Numbered
<1>16. NoFault'
  BY <1>5 DEF ReliableInv, NoFault
<1>17. DrainsAfterEnd'
  BY <1>5, BreachStays, EndStays DEF Known, ReliableInv, DrainsAfterEnd
<1>18. QED
  BY <1>12, <1>14, <1>15, <1>16, <1>17 DEF ReliableInv

\* The request reaches the ROUTER, as two frames.
LEMMA DeliveringReliable ==
  ASSUME Reliable, Known, Known', ReliableInv, [Next]_vars, Deliver(Client)
  PROVE  ReliableInv'
<1>1. TypeOK /\ TypeOK' /\ Client \in Harpoons /\ Client # CANCEL
  BY ClientFacts DEF Known, TypeInv
<1>2. PICK s \in Seq(Request) : s = net[Client] /\ s # <<>>
  BY <1>1, ClientFacts DEF Deliver
<1>3. PICK n : n = Head(s) /\ n = s[1] /\ 1 \in DOMAIN s
  BY <1>2, HeadTailProperties
<1>4. /\ rx' = rx \o <<Client, n>> /\ net'[Client] = Tail(s)
      /\ UNCHANGED <<inbox, mIdentity, kpc, accepted, received, lost, mCredit, mOffset, interrupted, hpc>>
  BY <1>1, <1>2, <1>3 DEF Deliver, kraken, harpoon, TypeOK
<1>5. Len(s) = 1 /\ Len(Frames) = 0 /\ mOffset[Client] = Answered(Client) + 1
  BY <1>2 DEF ReliableInv, OneRequest
<1>6. mIdentity = <<>> /\ rx = <<>>
  <2>1. mIdentity \in Seq(Frame) /\ rx \in Seq(Frame) /\ Len(mIdentity) + Len(rx) = 0
    BY <1>1, <1>5, FramesType DEF TypeOK
  <2>2. Len(mIdentity) = 0 /\ Len(rx) = 0
    BY <2>1
  <2>3. QED
    BY <2>1, <2>2, EmptySeq
<1>7. rx' = <<Client, n>>
  BY <1>4, <1>6
<1>8. Frames' = <<Client, n>>
  BY <1>4, <1>6, <1>7 DEF Frames
<1>9. Tail(s) = <<>>
  <2>1. Tail(s) \in Seq(Request) /\ Len(Tail(s)) = Len(s) - 1
    BY <1>2, HeadTailProperties
  <2>2. Len(Tail(s)) = 0
    BY <1>5, <2>1
  <2>3. QED
    BY <2>1, <2>2, EmptySeq
<1>10. OneRequest'
  <2>1. Answered(Client)' = Answered(Client)
    BY <1>4 DEF Answered
  <2>2. Len(<<Client, n>>) = 2 /\ <<Client, n>>[1] = Client
    OBVIOUS
  <2>3. QED
    BY <1>4, <1>5, <1>8, <1>9, <2>1, <2>2 DEF OneRequest
<1>11. CreditSum' /\ Numbered'
  BY <1>4, KeepsCounts
<1>12. NoFault'
  <2>1. n # CANCEL
    BY <1>2, <1>3 DEF ReliableInv, NoFault
  <2>2. \A i \in DOMAIN <<Client, n>> : <<Client, n>>[i] # CANCEL
    BY <1>1, <2>1
  <2>3. DOMAIN <<>> = {}
    OBVIOUS
  <2>4. QED
    BY <1>4, <1>7, <1>9, <2>2, <2>3 DEF ReliableInv, NoFault
<1>13. DrainsAfterEnd'
  BY <1>4, BreachStays, EndStays DEF Known, ReliableInv, DrainsAfterEnd
<1>14. QED
  BY <1>10, <1>11, <1>12, <1>13 DEF ReliableInv

\* A call that gives up has found no frame behind the identity: there was none, or it was
\* torn off by a FinalBreach that failed.  A FinalBreach that gives up has failed.
LEMMA GivingUpReliable ==
  ASSUME Reliable, Known, Known', ReliableInv, [Next]_vars, NextChunkIdTimeout
  PROVE  ReliableInv'
<1>1. TypeOK /\ TypeOK' /\ TypeInv
  BY DEF Known, TypeInv
<1>2. /\ rx = <<>> /\ rx' = rx /\ mIdentity' = <<>> /\ kpc \in {"waiting", "reading"}
      /\ UNCHANGED <<net, inbox, accepted, received, lost, mCredit, mOffset, interrupted, hpc>>
      /\ calls' = [calls EXCEPT ![Len(calls)].status = "TIMEOUT"]
      /\ kpc' = IF calls[Len(calls)].op = "FinalBreach" THEN "draining" ELSE "idle"
  BY DEF NextChunkIdTimeout, PollFails, Reliable, Return, harpoon
<1>3. Len(Frames) = Len(mIdentity) /\ Len(Frames) <= 1 /\ Len(Frames') = 0 /\ Len(Frames) \in Nat
  <2>1. Len(Frames) = Len(mIdentity) + Len(rx) /\ mIdentity \in Seq(Frame) /\ Len(mIdentity) <= 1
    <3>1. mIdentity \in Seq(Frame) /\ Len(mIdentity) <= 1
      BY <1>1 DEF TypeOK
    <3>2. QED
      BY Zenon, <1>1, <3>1, FramesType
  <2>2. Len(rx) = 0 /\ Len(rx') = 0 /\ Len(mIdentity') = 0
    BY <1>2
  <2>3. Len(Frames') = Len(mIdentity') + Len(rx')
    BY <1>1, FramesType
  <2>4. QED
    BY <2>1, <2>2, <2>3
<1>4. OneRequest'
  <2>1. BreachFailed => BreachFailed'
    BY BreachStays DEF Known
  <2>2. Answered(Client)' = Answered(Client)
    BY <1>2 DEF Answered
  <2>3. QED
    BY <1>2, <1>3, <2>1, <2>2 DEF ReliableInv, OneRequest
<1>5. CreditSum' /\ Numbered'
  BY <1>2, KeepsCounts
<1>6. NoFault'
  BY <1>2 DEF ReliableInv, NoFault
<1>7. DrainsAfterEnd'
  <2>1. calls \in Seq(Call) /\ Len(calls) > 0 /\ "TIMEOUT" \in Battling \cup {"aborted"}
    BY <1>1, <1>2 DEF TypeInv, TypeOK, CallInProgress, Battling
  <2>2. /\ Len(calls') = Len(calls) /\ calls'[Len(calls)].op = calls[Len(calls)].op
        /\ calls'[Len(calls)].status = "TIMEOUT"
    BY <1>2, <2>1, ResultOfCall
  <2>3. Len(calls) \in DOMAIN calls'
    BY <1>1, <2>1, <2>2 DEF TypeOK
  <2>4. ASSUME kpc' = "draining" PROVE BreachFailed'
    BY <1>2, <2>2, <2>3, <2>4 DEF BreachFailed
  <2>5. QED
    BY <2>4 DEF DrainsAfterEnd
<1>8. QED
  BY <1>4, <1>5, <1>6, <1>7 DEF ReliableInv

LEMMA TailHasNoCancel ==
  ASSUME NEW s \in Seq(Frame), s # <<>>, \A i \in DOMAIN s : s[i] # CANCEL
  PROVE  \A i \in DOMAIN Tail(s) : Tail(s)[i] # CANCEL
<1>1. \A i \in DOMAIN Tail(s) : i + 1 \in DOMAIN s /\ Tail(s)[i] = s[i + 1]
  BY HeadTailProperties
<1>2. QED
  BY <1>1

\* What a Kraken that sends knows: the request is the one of its Harpoon, which has taken
\* all it was sent, and the chunk goes to its socket.
LEMMA SendingFacts ==
  ASSUME Reliable, Known, Known', ReliableInv, [Next]_vars, SendRawData
  PROVE  \E a, n \in Nat :
           /\ a = Len(received[Client]) /\ Len(accepted) = a /\ n = a + 1
           /\ inbox[Client] = <<>> /\ net[Client] = <<>> /\ ~Ends
           /\ mOffset[Client] = n /\ Answered(Client) = a
           /\ inbox' = [inbox EXCEPT ![Client] = Append(@, n)] /\ inbox'[Client] = <<n>>
           /\ lost' = lost /\ Len(accepted') = n
           /\ \A i \in 1..a : accepted'[i] = accepted[i]
           /\ mIdentity' = <<>> /\ Len(Frames') = 0
           /\ UNCHANGED <<net, received, mCredit, mOffset, interrupted, hpc>>
<1>1. PICK a, b, c, o \in Nat :
           /\ a = Len(received[Client]) /\ b = Len(inbox[Client])
           /\ c = mCredit[Client] /\ o = mOffset[Client] /\ Answered(Client) = a + b
           /\ o # a + b => o = a + 1 /\ b = 0 /\ c = 0 /\ ~Ends
  BY Counts DEF CountsAre
<1>2. TypeOK /\ TypeOK' /\ Client \in Harpoons /\ QueueLength = 1
  BY ClientFacts DEF Known, TypeInv
<1>3. /\ mIdentity \in Seq(Frame) /\ Len(mIdentity) = 1 /\ rx \in Seq(Frame) /\ rx # <<>>
      /\ rx' = Tail(rx) /\ mIdentity' = <<>>
      /\ UNCHANGED <<net, received, mCredit, mOffset, interrupted, hpc>>
  BY <1>2 DEF SendRawData, TypeOK, Return, harpoon
<1>4. /\ Len(Frames) = 1 + Len(rx) /\ Len(rx) \in Nat \ {0} /\ Frames[1] = mIdentity[1]
      /\ Frames \in Seq(Frame)
  <2>1. Frames \in Seq(Frame) /\ Len(Frames) = Len(mIdentity) + Len(rx)
    BY <1>2, FramesType
  <2>2. Len(rx) \in Nat \ {0}
    BY <1>3, EmptySeq
  <2>3. Frames[1] = mIdentity[1]
    BY <1>3, ConcatProperties DEF Frames
  <2>4. QED
    BY <1>3, <2>1, <2>2, <2>3
<1>5. net[Client] = <<>> /\ Len(Frames) = 2 /\ Frames[1] = Client /\ o = (a + b) + 1
  <2>1. ~(Len(Frames) <= 1) /\ Len(Frames) # 0
    BY <1>4
  <2>2. net[Client] = <<>> /\ Len(Frames) = 2 /\ Frames[1] = Client /\ o = Answered(Client) + 1
    BY <1>1, <2>1 DEF ReliableInv, OneRequest
  <2>3. QED
    BY <1>1, <2>2
<1>6. o = a + 1 /\ b = 0 /\ ~Ends
  <2>1. o # a + b
    BY <1>5
  <2>2. QED
    BY <1>1, <2>1
<1>7. inbox[Client] = <<>>
  BY <1>1, <1>2, <1>6, ClientFacts, EmptySeq
<1>8. Head(mIdentity) = Client
  <2>1. mIdentity # <<>>
    <3>1. Len(<<>>) = 0 /\ 0 # 1
      OBVIOUS
    <3>2. QED
      BY Zenon, <1>3, <3>1
  <2>2. Head(mIdentity) = mIdentity[1]
    BY <1>3, <2>1, HeadTailProperties
  <2>3. QED
    BY <1>4, <1>5, <2>2
<1>9. Routable(Client)
  <2>1. Up(Client)
    <3>1. hpc[Client] \in {"new", "idle", "heaving", "dead"} /\ hpc[Client] # "dead"
      BY <1>2 DEF TypeOK, ReliableInv, NoFault
    <3>2. hpc[Client] # "new"
      BY <1>1, <1>6 DEF ReliableInv, NoFault
    <3>3. QED
      BY <3>1, <3>2 DEF Up
  <2>2. Len(inbox[Client]) < Hwm
    BY <1>1, <1>2, <1>6 DEF Hwm
  <2>3. QED
    BY <1>2, <2>1, <2>2 DEF Routable
<1>10. Len(accepted) = a
  <2>1. a + b = Len(accepted)
    BY <1>1 DEF ReliableInv, Numbered
  <2>2. QED
    BY <1>6, <2>1
<1>11. PICK n \in Nat : n = a + 1
  OBVIOUS
<1>12. inbox' = [inbox EXCEPT ![Client] = Append(@, n)] /\ lost' = lost
  BY <1>8, <1>9, <1>10, <1>11 DEF SendRawData, SendTo
<1>13. inbox'[Client] = <<n>>
  BY <1>2, <1>7, <1>12 DEF TypeOK
<1>14. Len(accepted') = n /\ \A i \in 1..a : accepted'[i] = accepted[i]
  <2>1. PICK ch : accepted' = Append(accepted, ch)
    BY DEF SendRawData
  <2>2. PICK s : s = accepted /\ s \in Seq(Chunk)
    BY <1>2 DEF TypeOK
  <2>3. Len(Append(s, ch)) = Len(s) + 1 /\ \A i \in 1..Len(s) : Append(s, ch)[i] = s[i]
    BY <2>2, AppendProperties
  <2>4. QED
    BY <1>10, <1>11, <2>1, <2>2, <2>3
<1>15. Len(Frames') = 0
  <2>1. DropsFrames(2)
    BY <1>2, <1>3, FrameSteps
  <2>2. Frames' \in Seq(Frame) /\ Len(Frames') + 2 = Len(Frames)
    BY <1>2, <2>1, FramesType DEF DropsFrames
  <2>3. QED
    BY <1>5, <2>2
<1>16. Answered(Client) = a /\ mOffset[Client] = n
  BY <1>1, <1>6, <1>11
<1>17. QED
  BY Zenon, <1>1, <1>3, <1>5, <1>6, <1>7, <1>10, <1>11, <1>12, <1>13, <1>14, <1>15, <1>16

LEMMA SendingReliable ==
  ASSUME Reliable, Known, Known', ReliableInv, [Next]_vars, SendRawData
  PROVE  ReliableInv'
<1>1. PICK a, n \in Nat :
           /\ a = Len(received[Client]) /\ Len(accepted) = a /\ n = a + 1
           /\ inbox[Client] = <<>> /\ net[Client] = <<>> /\ ~Ends
           /\ mOffset[Client] = n /\ inbox'[Client] = <<n>>
           /\ lost' = lost /\ Len(accepted') = n
           /\ \A i \in 1..a : accepted'[i] = accepted[i]
           /\ Len(Frames') = 0
           /\ UNCHANGED <<net, received, mCredit, mOffset, interrupted, hpc>>
  BY SendingFacts
<1>2. TypeInv /\ TypeOK /\ TypeOK' /\ Client \in Harpoons
  BY ClientFacts DEF Known, TypeInv
<1>3. Len(<<n>>) = 1 /\ <<n>>[1] = n /\ DOMAIN <<n>> = {1}
  OBVIOUS
<1>4. OneRequest'
  <2>1. Answered(Client)' = n
    BY <1>1, <1>3 DEF Answered
  <2>2. QED
    BY <1>1, <2>1 DEF OneRequest
<1>5. DOMAIN received[Client] = 1..a /\ \A i \in 1..a : received[Client][i] = i
  <2>1. DOMAIN received[Client] = 1..a
    BY <1>1, <1>2, ClientFacts
  <2>2. QED
    BY <2>1 DEF ReliableInv, Numbered
<1>6. CreditSum'
  <2>1. Ends' <=> Ends
    BY <1>1, <1>5 DEF Ends, IsEnd
  <2>2. QED
    BY <1>1, <2>1 DEF ReliableInv, CreditSum
<1>7. Numbered'
  <2>1. \A i \in DOMAIN <<n>> : <<n>>[i] = a + i
    BY <1>1, <1>3
  <2>2. a + Len(<<n>>) = n
    BY <1>1, <1>3
  <2>3. Len(received'[Client]) + Len(inbox'[Client]) = Len(accepted')
    BY <1>1, <2>2
  <2>4. QED
    BY <1>1, <1>5, <2>1, <2>3 DEF Numbered
<1>8. NoFault'
  <2>1. rx \in Seq(Frame) /\ rx # <<>> /\ rx' = Tail(rx)
    BY <1>2 DEF SendRawData, TypeOK
  <2>2. \A i \in DOMAIN rx' : rx'[i] # CANCEL
    BY <2>1, TailHasNoCancel DEF ReliableInv, NoFault
  <2>3. QED
    BY <1>1, <2>2 DEF ReliableInv, NoFault
<1>9. DrainsAfterEnd'
  <2> SUFFICES ASSUME kpc' = "draining"
               PROVE  Ended'
    BY DEF DrainsAfterEnd
  <2>1. calls[Len(calls)].op = "FinalBreach" /\ kpc = "reading"
    BY DEF SendRawData, Return
  <2>2. sentBytes = 0 /\ calls[Len(calls)].size = 0
    BY <2>1 DEF Known, PiecesInv, CallRuns
  <2>3. ChunkSize(0, 0) = 0
    BY Assumptions DEF ChunkSize
  <2>4. PICK ch : ch.len = 0 /\ accepted' = Append(accepted, ch)
    BY <2>2, <2>3 DEF SendRawData
  <2>5. accepted'[n] = ch /\ n \in DOMAIN accepted'
    <3>1. accepted \in Seq(Chunk) /\ accepted' \in Seq(Chunk)
      BY <1>2 DEF TypeOK
    <3>2. Append(accepted, ch)[Len(accepted) + 1] = ch
      BY <3>1, AppendProperties
    <3>3. n \in DOMAIN accepted'
      BY <1>1, <3>1
    <3>4. QED
      BY <1>1, <2>4, <3>2, <3>3
  <2>6. QED
    BY <2>4, <2>5 DEF Ended, IsEnd
<1>10. QED
  BY <1>4, <1>6, <1>7, <1>8, <1>9 DEF ReliableInv

\* Behind an end marker FinalBreach finds nothing to clean out; one that failed can tear a
\* request apart.
LEMMA DrainingReliable ==
  ASSUME Reliable, Known, Known', ReliableInv, [Next]_vars, FinalBreachDrain
  PROVE  ReliableInv'
<1>1. TypeInv /\ TypeOK /\ TypeOK'
  BY DEF Known, TypeInv
<1>2. /\ mIdentity' = mIdentity /\ kpc = "draining" /\ kpc' = "idle"
      /\ \/ rx' = rx
         \/ rx # <<>> /\ rx' = Tail(rx)
      /\ UNCHANGED <<net, inbox, accepted, received, lost, mCredit, mOffset, interrupted, hpc>>
  BY DEF FinalBreachDrain, harpoon
<1>3. mIdentity = <<>> /\ rx \in Seq(Frame)
  BY <1>1, <1>2, EmptySeq DEF TypeOK
<1>4. OneRequest'
  <2>1. CASE rx' = rx
    <3>1. DropsFrames(0)
      BY <1>1, <1>2, <2>1, FrameSteps
    <3>2. QED
      BY <1>2, <3>1, KeepsRequest
  <2>2. CASE rx # <<>> /\ rx' = Tail(rx)
    <3>1. Len(Frames') + 1 = Len(Frames) /\ Len(Frames') \in Nat
      <4>1. DropsFrames(1)
        BY <1>1, <1>2, <1>3, <2>2, FrameSteps
      <4>2. QED
        BY <1>1, <4>1, FramesType DEF DropsFrames
    <3>2. Len(Frames) # 0
      BY <3>1
    <3>3. BreachFailed
      <4>1. ASSUME ~BreachFailed PROVE FALSE
        <5>1. mOffset[Client] = Answered(Client)
          BY <1>2, <4>1, NothingAskedAfterEnd DEF ReliableInv, DrainsAfterEnd
        <5>2. Answered(Client) \in Nat
          <6>1. PICK a, b, c, o \in Nat : CountsAre(a, b, c, o)
            BY Counts
          <6>2. Answered(Client) = a + b
            BY <6>1 DEF CountsAre
          <6>3. QED
            BY <6>2
        <5>3. QED
          BY <3>2, <5>1, <5>2 DEF ReliableInv, OneRequest
      <4>2. QED
        BY <4>1
    <3>4. BreachFailed'
      BY <1>1, <3>3, BreachStays DEF Known
    <3>5. Answered(Client)' = Answered(Client)
      BY <1>2 DEF Answered
    <3>6. net[Client] = <<>> /\ Len(Frames) <= 2 /\ mOffset[Client] = Answered(Client) + 1
      BY <3>1, <3>2 DEF ReliableInv, OneRequest
    <3>7. Len(Frames') <= 1
      BY <3>1, <3>6
    <3>8. QED
      BY <1>2, <3>4, <3>5, <3>6, <3>7 DEF OneRequest
  <2>3. QED
    BY <1>2, <2>1, <2>2
<1>5. CreditSum' /\ Numbered'
  BY <1>2, KeepsCounts
<1>6. NoFault'
  <2>1. \A i \in DOMAIN rx' : rx'[i] # CANCEL
    BY <1>2, <1>3, TailHasNoCancel DEF ReliableInv, NoFault
  <2>2. QED
    BY <1>2, <2>1 DEF ReliableInv, NoFault
<1>7. DrainsAfterEnd'
  BY <1>2 DEF DrainsAfterEnd
<1>8. QED
  BY <1>4, <1>5, <1>6, <1>7 DEF ReliableInv

LEMMA StepReliable ==
  ASSUME Reliable, Known, Known', ReliableInv, [Next]_vars
  PROVE  ReliableInv'
<1>1. Faults = {} /\ \A h \in Harpoons : h = Client
  BY ClientFacts
<1>2. ~NextChunkIdCancel
  <2>1. rx \in Seq(Frame)
    BY DEF Known, TypeInv, TypeOK
  <2>2. rx # <<>> => Head(rx) # CANCEL
    <3>1. rx # <<>> => Head(rx) = rx[1] /\ 1 \in DOMAIN rx
      BY <2>1, HeadTailProperties, EmptySeq
    <3>2. QED
      BY <3>1 DEF ReliableInv, NoFault
  <2>3. QED
    BY <2>2 DEF NextChunkIdCancel
<1>3. ~NextChunkIdInterrupt /\ ~KrakenRestart
  BY <1>1 DEF NextChunkIdInterrupt, KrakenRestart
<1>4. \A h \in Harpoons : ~Cancel(h) /\ ~HeaveInterrupt(h) /\ ~Crash(h)
  BY <1>1 DEF Cancel, HeaveInterrupt, Crash
<1>5. \/ UNCHANGED vars \/ RecvIdentity \/ FinalBreach
      \/ \E size \in Sizes : SendTidalWave(size)
      \/ \E h \in Harpoons : Aim(h) \/ HeaveTimeout(h)
      \/ \E h \in Harpoons : Heave(h) \/ HeaveChunk(h) \/ Deliver(h)
      \/ NextChunkIdTimeout \/ SendRawData \/ FinalBreachDrain
  BY <1>2, <1>3, <1>4 DEF Next, KrakenStep, HarpoonStep
<1>6. ASSUME NEW h \in Harpoons, Heave(h) \/ HeaveChunk(h) \/ Deliver(h)
      PROVE  Heave(Client) \/ HeaveChunk(Client) \/ Deliver(Client)
  <2>1. h = Client
    BY <1>1
  <2>2. QED
    BY <1>6, <2>1
<1>7. QED
  BY <1>5, <1>6, QuietReliable, AskingReliable, TakingReliable, DeliveringReliable,
     GivingUpReliable, SendingReliable, DrainingReliable

LEMMA AlwaysKnown == Spec => []Known
<1>1. TypeInv /\ RequestsAnsweredOnce /\ SentInv /\ EndInv /\ PiecesInv => Known
  BY DEF Known
<1>2. QED
  BY <1>1, TypeInvariance, EachRequestAnsweredOnce, AlwaysSent, AlwaysEnds, AlwaysPieces, PTL

LEMMA AlwaysReliable ==
  ASSUME Reliable
  PROVE  Spec => []ReliableInv
<1>1. Init => ReliableInv
  <2> SUFFICES ASSUME Init PROVE ReliableInv
    OBVIOUS
  <2>1. Client \in Harpoons /\ QueueLength = 1
    BY ClientFacts
  <2>2. Len(<<>>) = 0 /\ DOMAIN <<>> = {} /\ <<>> \o <<>> = <<>>
    OBVIOUS
  <2>3. /\ received[Client] = <<>> /\ inbox[Client] = <<>> /\ net[Client] = <<>>
        /\ Frames = <<>> /\ rx = <<>> /\ mCredit[Client] = 1 /\ mOffset[Client] = 0
        /\ kpc = "idle" /\ lost = {} /\ interrupted = {} /\ hpc[Client] = "new" /\ accepted = <<>>
    BY <2>1, <2>2 DEF Init, Frames
  <2>4. Answered(Client) = 0
    BY <2>2, <2>3 DEF Answered
  <2>5. NoFault /\ OneRequest /\ DrainsAfterEnd /\ Numbered
    BY <2>2, <2>3, <2>4 DEF NoFault, OneRequest, DrainsAfterEnd, Numbered
  <2>6. CreditSum
    BY <2>2, <2>3 DEF CreditSum, Ends
  <2>7. QED
    BY <2>5, <2>6 DEF ReliableInv
<1>2. Known /\ Known' /\ ReliableInv /\ [Next]_vars => ReliableInv'
  BY StepReliable
<1>3. QED
  BY <1>1, <1>2, AlwaysKnown, PTL DEF Spec

\* Without faults and failed FinalBreaches the Kraken never takes a payload for an identity
\* (the two receives at Kraken.cpp:103-118), however the calls and requests interleave.
THEOREM FramesStayInSync ==
  ASSUME Reliable
  PROVE  Spec => []InSync
<1>1. Known /\ ReliableInv => InSync
  <2> SUFFICES ASSUME Known, ReliableInv, ~BreachFailed, NEW i \in DOMAIN Frames
               PROVE  Frames[i] \in Harpoons <=> i % 2 = 1
    BY DEF InSync
  <2>1. Frames \in Seq(Frame) /\ DOMAIN Frames = 1..Len(Frames)
    BY FramesType DEF Known, TypeInv
  <2>2. Len(Frames) = 2 /\ Frames[1] = Client
    <3>1. Len(Frames) # 0
      BY <2>1
    <3>2. QED
      BY <3>1 DEF ReliableInv, OneRequest
  <2>3. Frames[1] \in Harpoons
    BY <2>2, ClientFacts
  <2>4. Frames[2] \notin Harpoons
    <3>1. 1 \in DOMAIN Frames /\ 1 + 1 = 2
      BY <2>1, <2>2
    <3>2. Frames[2] \in Request
      BY <2>3, <3>1 DEF Known, RequestsAnsweredOnce, FrameRequests
    <3>3. QED
      BY <3>2, Assumptions DEF Request
  <2>5. i = 1 \/ i = 2
    BY <2>1, <2>2
  <2>6. 1 % 2 = 1 /\ 2 % 2 # 1
    OBVIOUS
  <2>7. QED
    BY <2>3, <2>4, <2>5, <2>6
<1>2. QED
  BY <1>1, AlwaysKnown, AlwaysReliable, PTL

\* The one credit is in hand, in a request, in a chunk on its way back, or kept by the end
\* marker: it is never lost, unless a FinalBreach failed, and never doubled.
THEOREM CreditIsConserved ==
  ASSUME Reliable
  PROVE  Spec => []CreditConserved
<1>1. Known /\ ReliableInv => CreditConserved
  <2> SUFFICES ASSUME Known, ReliableInv, ~BreachFailed
               PROVE  mCredit[Client] + Len(net[Client]) + Cardinality({i \in DOMAIN Frames : Frames[i] = Client})
                        + Len(inbox[Client]) + Cardinality({i \in DOMAIN received[Client] : IsEnd(received[Client][i])})
                      = QueueLength
    <3>1. \A h \in Harpoons : h = Client
      BY ClientFacts
    <3>2. QED
      BY <3>1 DEF CreditConserved
  <2>1. PICK a, b, c, o \in Nat :
           /\ a = Len(received[Client]) /\ b = Len(inbox[Client])
           /\ c = mCredit[Client] /\ o = mOffset[Client] /\ Answered(Client) = a + b
           /\ Ends => b = 0 /\ o = a /\ c = 0
           /\ ~Ends => c + o = a + 1
    BY Counts DEF CountsAre
  <2>2. Frames \in Seq(Frame) /\ DOMAIN Frames = 1..Len(Frames) /\ QueueLength = 1
    BY ClientFacts, FramesType DEF Known, TypeInv
  <2>3. PICK e : /\ e = Cardinality({i \in DOMAIN received[Client] : IsEnd(received[Client][i])})
                 /\ e = IF Ends THEN 1 ELSE 0
    <3>1. CASE Ends
      <4>1. PICK k \in DOMAIN received[Client] : IsEnd(received[Client][k])
        BY <3>1 DEF Ends
      <4>2. \A i \in DOMAIN received[Client] : IsEnd(received[Client][i]) => i = Len(received[Client])
        BY ClientFacts DEF Known, EndInv, EndsStream
      <4>3. {i \in DOMAIN received[Client] : IsEnd(received[Client][i])} = {k}
        BY <4>1, <4>2
      <4>4. QED
        BY <3>1, <4>3, FS_Singleton
    <3>2. CASE ~Ends
      <4>1. {i \in DOMAIN received[Client] : IsEnd(received[Client][i])} = {}
        BY <3>2 DEF Ends
      <4>2. QED
        BY <3>2, <4>1, FS_EmptySet
    <3>3. QED
      BY <3>1, <3>2
  <2>4. PICK n, f : /\ n = Len(net[Client])
                    /\ f = Cardinality({i \in DOMAIN Frames : Frames[i] = Client})
                    /\ \/ n = 0 /\ f = 0 /\ o = a + b
                       \/ n = 1 /\ f = 0 /\ o = (a + b) + 1
                       \/ n = 0 /\ f = 1 /\ o = (a + b) + 1
    <3>1. CASE Len(Frames) = 0
      <4>1. {i \in DOMAIN Frames : Frames[i] = Client} = {}
        BY <2>2, <3>1
      <4>2. Cardinality({i \in DOMAIN Frames : Frames[i] = Client}) = 0
        BY <4>1, FS_EmptySet
      <4>3. \/ net[Client] = <<>> /\ o = a + b
            \/ Len(net[Client]) = 1 /\ o = (a + b) + 1
        <5>1. 0 # 2
          OBVIOUS
        <5>2. QED
          BY Zenon, <2>1, <3>1, <5>1 DEF ReliableInv, OneRequest
      <4>4. Len(<<>>) = 0
        OBVIOUS
      <4>5. QED
        BY <4>2, <4>3, <4>4
    <3>2. CASE Len(Frames) # 0
      <4>1. net[Client] = <<>> /\ Len(Frames) = 2 /\ Frames[1] = Client /\ o = (a + b) + 1
        BY <2>1, <3>2 DEF ReliableInv, OneRequest
      <4>2. Frames[2] # Client
        <5>1. 1 \in DOMAIN Frames /\ 1 + 1 = 2 /\ Frames[1] \in Harpoons
          BY <2>2, <4>1, ClientFacts
        <5>2. Frames[2] \in Request
          BY <5>1 DEF Known, RequestsAnsweredOnce, FrameRequests
        <5>3. QED
          BY <5>2, ClientFacts DEF Request
      <4>3. {i \in DOMAIN Frames : Frames[i] = Client} = {1}
        BY <2>2, <4>1, <4>2
      <4>4. Cardinality({i \in DOMAIN Frames : Frames[i] = Client}) = 1
        BY <4>3, FS_Singleton
      <4>5. Len(net[Client]) = 0
        BY <4>1
      <4>6. QED
        BY <4>1, <4>4, <4>5
    <3>3. QED
      BY <3>1, <3>2
  <2>5. ((c + n) + f + b) + e = 1
    <3>1. /\ (e = 1 /\ b = 0 /\ o = a /\ c = 0) \/ (e = 0 /\ c + o = a + 1)
          /\ \/ n = 0 /\ f = 0 /\ o = a + b
             \/ n = 1 /\ f = 0 /\ o = (a + b) + 1
             \/ n = 0 /\ f = 1 /\ o = (a + b) + 1
      BY <2>1, <2>3, <2>4
    <3>2. QED
      BY <3>1
  <2>6. QED
    BY <2>1, <2>2, <2>3, <2>4, <2>5
<1>2. QED
  BY <1>1, AlwaysKnown, AlwaysReliable, PTL

\* "VICTORIOUS means that the stream has completed" (README.md:131): who got the end marker
\* has every chunk, and with them each byte of every SendTidalWave that returned CONTINUE
\* once, for any data, chunk size and number of calls.
THEOREM VictoryMeansComplete ==
  ASSUME Reliable
  PROVE  Spec => []VictoryIsComplete
<1>1. Known /\ ReliableInv => VictoryIsComplete
  <2>1. \A h \in Harpoons : h = Client
    BY ClientFacts
  <2> SUFFICES ASSUME Known, ReliableInv, received[Client] # <<>>, IsEnd(Last(received[Client]))
               PROVE  /\ Range(received[Client]) = DOMAIN accepted
                      /\ \A k \in DOMAIN calls :
                           calls[k].op = "SendTidalWave" /\ calls[k].status = "CONTINUE" =>
                             Covers(k, Range(received[Client]), calls[k].size)
                      /\ calls[accepted[Last(received[Client])].call].op = "FinalBreach"
    BY <2>1 DEF VictoryIsComplete
  <2>2. PICK r \in Seq(Nat) : r = received[Client] /\ r # <<>>
    BY ClientFacts DEF Known, TypeInv
  <2>3. PICK a \in Nat \ {0} : a = Len(r) /\ DOMAIN r = 1..a
    BY <2>2, EmptySeq
  <2>4. Last(r) = r[a] /\ a \in DOMAIN received[Client]
    BY <2>2, <2>3 DEF Last
  <2>5. Ends
    BY <2>2, <2>4 DEF Ends
  <2>6. a = Len(accepted) /\ \A i \in 1..a : r[i] = i
    <3>1. PICK b, x \in Nat : /\ x = Len(received[Client]) /\ b = Len(inbox[Client])
                              /\ Ends => b = 0
      BY Counts DEF CountsAre
    <3>2. Len(received[Client]) + Len(inbox[Client]) = Len(accepted)
      BY DEF ReliableInv, Numbered
    <3>3. a + 0 = Len(accepted)
      BY <2>2, <2>3, <2>5, <3>1, <3>2
    <3>4. \A i \in 1..a : r[i] = i
      BY <2>2, <2>3 DEF ReliableInv, Numbered
    <3>5. QED
      BY <3>3, <3>4
  <2>7. Range(r) = 1..a
    BY <2>3, <2>6 DEF Range
  <2>8. DOMAIN accepted = 1..a /\ DOMAIN calls = 1..Len(calls)
    BY <2>6 DEF Known, TypeInv, TypeOK
  <2>9. ASSUME NEW k \in DOMAIN calls, Sends(k)
        PROVE  Covers(k, 1..a, calls[k].size)
    <3>1. Tiles(accepted, k, calls[k].size)
      BY <2>8, <2>9 DEF Known, PiecesInv
    <3>2. PiecesOf(accepted, k) = {n \in 1..a : accepted[n].call = k}
      BY <2>6 DEF PiecesOf
    <3>3. QED
      BY Zenon, <3>1, <3>2 DEF Tiles, Covers, Bytes
  <2>10. accepted[a].len = 0 /\ a \in 1..Len(accepted)
    BY <2>2, <2>4, <2>6 DEF IsEnd
  <2>11. calls[accepted[a].call].op = "FinalBreach"
    BY <2>10 DEF Known, PiecesInv
  <2>12. Last(r) = a
    BY <2>3, <2>4, <2>6
  <2>13. QED
    BY <2>2, <2>7, <2>8, <2>9, <2>11, <2>12 DEF Sends
<1>2. QED
  BY <1>1, AlwaysKnown, AlwaysReliable, PTL

\* The items of ChunkStream: what was sent, and what of it the application has.
Delivered == [i \in DOMAIN received[Client] |-> accepted[received[Client][i]]]

\* While the Harpoon takes no chunk, what it got is the same.
LEMMA DeliveredStays ==
  ASSUME Reliable, Known, [Next]_vars, received' = received
  PROVE  Delivered' = Delivered
<1>1. \A i \in DOMAIN received[Client] : received[Client][i] \in 1..Len(accepted)
  BY WasSent, ClientFacts DEF Known, TypeInv
<1>2. \A i \in DOMAIN received[Client] : accepted'[received[Client][i]] = accepted[received[Client][i]]
  BY <1>1, ChunksStay DEF Known, TypeInv
<1>3. QED
  BY <1>2 DEF Delivered

\* ChunkStream counts as FiniteSets does.
LEMMA StreamCardinality ==
  ASSUME NEW S
  PROVE  Stream!Cardinality(S) = Cardinality(S)
  BY DEF Stream!Cardinality, Cardinality

\* One Kraken and one Harpoon without faults are the stream of ChunkStream: every item once
\* and in order, never two ahead of the reader, and nothing behind an end marker.
THEOREM KrakenHarpoonIsAStream ==
  ASSUME Reliable
  PROVE  Spec => ImplementsStream
<1>1. Init => Stream!Init
  <2> SUFFICES ASSUME Init PROVE accepted = <<>> /\ Delivered = <<>>
    BY DEF Stream!Init, Delivered
  <2>1. accepted = <<>> /\ received[Client] = <<>>
    BY ClientFacts DEF Init
  <2>2. DOMAIN <<>> = {}
    OBVIOUS
  <2>3. Delivered = [i \in {} |-> accepted[received[Client][i]]]
    BY <2>1, <2>2 DEF Delivered
  <2>4. [i \in {} |-> accepted[received[Client][i]]] = <<>>
    OBVIOUS
  <2>5. QED
    BY <2>1, <2>3, <2>4
<1>2. Known /\ Known' /\ ReliableInv /\ ReliableInv' /\ [Next]_vars => [Stream!Next]_(Stream!vars)
  <2> SUFFICES ASSUME Known, Known', ReliableInv, ReliableInv', [Next]_vars
               PROVE  Stream!Next \/ UNCHANGED Stream!vars
    OBVIOUS
  <2>1. TypeOK /\ TypeOK' /\ Client \in Harpoons /\ QueueLength = 1
    BY ClientFacts DEF Known, TypeInv
  <2>2. CASE SendRawData
    <3>1. PICK a, n \in Nat :
             /\ a = Len(received[Client]) /\ Len(accepted) = a /\ n = a + 1
             /\ ~Ends /\ Len(accepted') = n
             /\ \A i \in 1..a : accepted'[i] = accepted[i]
             /\ UNCHANGED received
      BY <2>2, SendingFacts
    <3>2. Delivered' = Delivered
      BY <3>1, DeliveredStays
    <3>3. SubSeq(accepted', 1, Len(accepted)) = accepted
      <4>1. PICK s, t \in Seq(Chunk) : s = accepted /\ t = accepted'
        BY <2>1 DEF TypeOK
      <4>2. Len(s) = a /\ Len(t) = a + 1 /\ \A i \in 1..a : t[i] = s[i]
        BY <3>1, <4>1
      <4>3. /\ SubSeq(t, 1, a) \in Seq(Chunk) /\ Len(SubSeq(t, 1, a)) = a
            /\ \A i \in 1..a : SubSeq(t, 1, a)[i] = t[i]
        BY <4>2, SubSeqProperties
      <4>4. SubSeq(t, 1, a) = s
        BY <4>2, <4>3, SeqEqual
      <4>5. QED
        BY <3>1, <4>1, <4>4
    <3>4. {i \in DOMAIN accepted : i > Len(Delivered) \/ Stream!IsEnd(accepted[i])} = {}
      <4>1. DOMAIN accepted = 1..a /\ DOMAIN received[Client] = 1..a
        BY <2>1, <3>1, ClientFacts DEF TypeOK
      <4>2. Len(Delivered) = a
        BY <4>1 DEF Delivered
      <4>3. \A i \in 1..a : received[Client][i] = i
        BY <4>1 DEF ReliableInv, Numbered
      <4>4. \A i \in 1..a : accepted[i].len # 0
        BY <3>1, <4>1, <4>3 DEF Ends, IsEnd
      <4>5. QED
        BY <4>1, <4>2, <4>4 DEF Stream!IsEnd
    <3>5. Stream!Cardinality(Stream!Occupied) < QueueLength
      <4>1. Stream!Occupied = {i \in DOMAIN accepted : i > Len(Delivered) \/ Stream!IsEnd(accepted[i])}
        BY Zenon DEF Stream!Occupied, Delivered
      <4>2. Stream!Cardinality(Stream!Occupied) = 0
        BY <3>4, <4>1, StreamCardinality, FS_EmptySet
      <4>3. QED
        BY <2>1, <4>2
    <3>6. Len(accepted') = Len(accepted) + 1
      BY <3>1
    <3>7. Stream!Send
      BY Zenon, <3>2, <3>3, <3>5, <3>6 DEF Stream!Send, Delivered
    <3>8. QED
      BY <3>7 DEF Stream!Next
  <2>3. CASE HeaveChunk(Client)
    <3>1. PICK a, b, c, o \in Nat :
             /\ a = Len(received[Client]) /\ b = Len(inbox[Client])
             /\ c = mCredit[Client] /\ o = mOffset[Client] /\ Answered(Client) = a + b
             /\ b # 0 => b = 1 /\ o = a + 1 /\ c = 0 /\ ~Ends
      BY Counts DEF CountsAre
    <3>2. PICK r, s \in Seq(Nat) : r = received[Client] /\ s = inbox[Client] /\ s # <<>>
      BY <2>1, <2>3, ClientFacts DEF HeaveChunk
    <3>3. PICK n \in Nat : n = Head(s) /\ n = s[1] /\ 1 \in DOMAIN s
      <4>1. Len(s) \in Nat \ {0} /\ DOMAIN s = 1..Len(s)
        BY <3>2, EmptySeq
      <4>2. Head(s) = s[1] /\ Head(s) \in Nat
        BY <3>2, HeadTailProperties
      <4>3. QED
        BY <4>1, <4>2
    <3>4. n = a + 1
      BY <3>1, <3>2, <3>3 DEF ReliableInv, Numbered
    <3>5. Len(accepted) = a + 1 /\ accepted' = accepted
      <4>1. b = 1
        BY <3>1, <3>2, EmptySeq
      <4>2. a + b = Len(accepted)
        BY <3>1 DEF ReliableInv, Numbered
      <4>3. QED
        BY <2>3, <4>1, <4>2 DEF HeaveChunk
    <3>6. PICK t \in Seq(Nat) : /\ t = received'[Client] /\ Len(t) = a + 1 /\ t[a + 1] = n
                                /\ \A i \in 1..a : t[i] = r[i]
      <4>1. received'[Client] = Append(r, n)
        BY <2>1, <2>3, <3>2, <3>3 DEF HeaveChunk, TypeOK
      <4>2. Len(r) = a
        BY <3>1, <3>2
      <4>3. PICK t : t = Append(r, n)
        OBVIOUS
      <4>4. /\ t \in Seq(Nat) /\ Len(t) = Len(r) + 1 /\ t[Len(r) + 1] = n
            /\ \A i \in 1..Len(r) : t[i] = r[i]
        BY <3>2, <4>3, AppendProperties
      <4>5. QED
        BY <4>1, <4>2, <4>3, <4>4
    <3>7. Delivered \in Seq(Chunk) /\ Len(Delivered) = a /\ \A i \in 1..a : Delivered[i] = accepted[r[i]]
      <4>1. DOMAIN received[Client] = 1..a
        BY <3>1, <3>2
      <4>2. \A i \in 1..a : accepted[received[Client][i]] \in Chunk
        <5>1. \A i \in 1..a : received[Client][i] \in 1..Len(accepted)
          BY <2>1, <4>1, WasSent DEF Known
        <5>2. accepted \in Seq(Chunk)
          BY <2>1 DEF TypeOK
        <5>3. QED
          BY <5>1, <5>2, ElementOfSeq
      <4>3. QED
        BY <3>2, <4>1, <4>2 DEF Delivered
    <3>8. Delivered' = [i \in 1..(a + 1) |-> accepted[t[i]]]
      <4>1. DOMAIN t = 1..(a + 1)
        BY <3>6
      <4>2. QED
        BY <3>5, <3>6, <4>1 DEF Delivered
    <3>9. accepted[a + 1] \in Chunk
      <4>1. accepted \in Seq(Chunk) /\ a + 1 \in 1..Len(accepted)
        BY <2>1, <3>5 DEF TypeOK
      <4>2. QED
        BY <4>1, ElementOfSeq
    <3>10. Delivered' = Append(Delivered, accepted[a + 1])
      <4>1. PICK d \in Seq(Chunk) : d = Delivered
        BY <3>7
      <4>2. PICK x \in Chunk : x = accepted[a + 1]
        BY <3>9
      <4>3. PICK e : e = Append(d, x)
        OBVIOUS
      <4>4. /\ e \in Seq(Chunk) /\ Len(e) = Len(d) + 1 /\ e[Len(d) + 1] = x
            /\ \A i \in 1..Len(d) : e[i] = d[i]
        BY <4>1, <4>3, AppendProperties
      <4>5. DOMAIN e = 1..(a + 1) /\ e[a + 1] = accepted[t[a + 1]]
        BY <3>4, <3>6, <3>7, <4>1, <4>2, <4>4
      <4>6. \A i \in 1..a : e[i] = accepted[t[i]]
        BY <3>6, <3>7, <4>1, <4>4
      <4>7. \A i \in 1..(a + 1) : e[i] = accepted[t[i]]
        BY <4>5, <4>6
      <4>8. e = [i \in 1..(a + 1) |-> accepted[t[i]]]
        BY <4>4, <4>5, <4>7
      <4>9. QED
        BY <3>8, <4>1, <4>2, <4>3, <4>8
    <3>11. Stream!Deliver
      <4>1. Len(Delivered) < Len(accepted) /\ Len(Delivered) + 1 = a + 1
        BY <3>5, <3>7
      <4>2. QED
        BY <3>5, <3>7, <3>10, <4>1 DEF Stream!Deliver, Delivered
    <3>12. QED
      BY <3>11 DEF Stream!Next
  <2>4. ASSUME ~SendRawData, ~HeaveChunk(Client)
        PROVE  UNCHANGED <<accepted, received>>
    <3>1. \A h \in Harpoons : ~HeaveChunk(h)
      BY <2>4, ClientFacts
    <3>2. QED
      BY <2>4, <3>1 DEF Next, KrakenStep, HarpoonStep, Aim, Heave, Cancel, HeaveTimeout,
        HeaveInterrupt, Deliver, Crash, SendTidalWave, FinalBreach, RecvIdentity,
        NextChunkIdTimeout, NextChunkIdInterrupt, NextChunkIdCancel, FinalBreachDrain,
        KrakenRestart, vars
  <2>5. QED
    <3>1. ASSUME UNCHANGED <<accepted, received>>
          PROVE  UNCHANGED Stream!vars
      BY <3>1 DEF Stream!vars
    <3>2. QED
      BY <2>2, <2>3, <2>4, <3>1
<1>3. QED
  BY <1>1, <1>2, AlwaysKnown, AlwaysReliable, PTL DEF Spec, ImplementsStream, Stream!Spec
=============================================================================
