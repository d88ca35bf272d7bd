--------------------------- MODULE KrakenHarpoon ---------------------------
(***************************************************************************)
(* The credit based streaming pair of src/src/Kraken.cpp (the server, a    *)
(* ROUTER socket) and src/src/Harpoon.cpp (the client, a DEALER socket).   *)
(*                                                                         *)
(* A Harpoon spends one credit per request for a chunk; the Kraken answers *)
(* each request with one chunk; a chunk with data gives the credit back,   *)
(* an empty chunk (the end marker of FinalBreach) does not.                *)
(*                                                                         *)
(* A message from a Harpoon reaches the Kraken as two frames, the sender's *)
(* identity and the payload.  The Kraken reads them with two separate      *)
(* receives, each of which can fail, so rx holds frames and not messages.  *)
(*                                                                         *)
(* Chunks are numbered by the order in which SendRawData handed them to    *)
(* the socket: accepted[i] is the chunk, and the queues hold numbers.      *)
(***************************************************************************)
EXTENDS Integers, Sequences, SequencesExt

CONSTANTS
  Harpoons,      \* client sockets; a restarted client is a new one
  CANCEL,        \* the payload "<CANCEL>"
  QueueLength,   \* mQueueLength, 1 in both constructors
  MaxChunkSize,  \* mMaxChunkSize
  Sizes,         \* sizes of the data handed to SendTidalWave
  Faults,        \* which of "cancel", "signal", "crash", "restart" can occur
  MaxCalls,      \* bound: calls on the Kraken
  MaxQueued      \* bound: frames on their way when a Harpoon cancels

ASSUME Assumptions ==
  /\ CANCEL \notin Nat \cup Harpoons
  /\ Harpoons \cap Nat = {}
  /\ QueueLength \in Nat \ {0}
  /\ MaxChunkSize \in Nat \ {0}
  /\ Sizes \subseteq Nat
  /\ MaxCalls \in Nat
  /\ MaxQueued \in Nat

VARIABLES
  \* the network, and the two sockets' queues
  net,         \* requests a Harpoon sent and the ROUTER does not have yet
  rx,          \* frames waiting at the ROUTER
  inbox,       \* chunks sent to a Harpoon and not received by it
  \* the Kraken
  kpc,         \* where the call in progress is
  mIdentity,   \* <<the frame read as the identity>> until NextChunkId returns, else <<>>
  sentBytes,   \* the loop variable i of SendTidalWave
  calls,       \* every call made on the Kraken and what it returned
  \* the Harpoons
  hpc,
  mCredit,
  mOffset,
  interrupted, \* the Harpoons whose process has zctx_interrupted set
  \* history
  accepted,    \* the chunks SendRawData returned CONTINUE for
  received,    \* the chunks each Harpoon took from its socket
  lost         \* the chunks that were dropped on the way

kraken == <<kpc, mIdentity, sentBytes, calls>>
harpoon == <<hpc, mCredit, mOffset, interrupted>>
vars == <<net, rx, inbox, kraken, harpoon, accepted, received, lost>>

Request == Nat \cup {CANCEL}
Frame == Harpoons \cup Request
Battling == {"TIMEOUT", "INTERRUPT", "CONTINUE", "CANCEL"}
Call == [op : {"SendTidalWave", "FinalBreach"}, size : Nat,
         status : Battling \cup {"running", "aborted"}]
Chunk == [call : Nat, at : Nat, len : Nat]

Up(h) == hpc[h] \in {"idle", "heaving"}
IsEnd(n) == accepted[n].len = 0

\* zsocket_set_hwm(mRouter, mQueueLength * 2): a ROUTER drops what it sends to
\* a peer whose pipe is full, and what it sends to an identity it cannot route.
Hwm == 2 * QueueLength
Routable(id) == id \in Harpoons /\ Up(id) /\ Len(inbox[id]) < Hwm

Init ==
  /\ net = [h \in Harpoons |-> <<>>]
  /\ rx = <<>>
  /\ inbox = [h \in Harpoons |-> <<>>]
  /\ kpc = "idle"
  /\ mIdentity = <<>>
  /\ sentBytes = 0
  /\ calls = <<>>
  /\ hpc = [h \in Harpoons |-> "new"]
  /\ mCredit = [h \in Harpoons |-> QueueLength]
  /\ mOffset = [h \in Harpoons |-> 0]
  /\ interrupted = {}
  /\ accepted = <<>>
  /\ received = [h \in Harpoons |-> <<>>]
  /\ lost = {}

-----------------------------------------------------------------------------
(* The Harpoon *)

Aim(h) ==
  /\ hpc[h] = "new"
  /\ hpc' = [hpc EXCEPT ![h] = "idle"]
  /\ UNCHANGED <<net, rx, inbox, kraken, mCredit, mOffset, interrupted,
                 accepted, received, lost>>

\* Mutants of RequestChunks: --mCredit or ++mOffset is forgotten.
RequestChunksFree(h, n) ==
  h \notin interrupted /\ n = mCredit[h] /\ UNCHANGED <<interrupted, mCredit>>
  /\ mOffset' = [mOffset EXCEPT ![h] = @ + n]
RequestChunksNoOffset(h, n) ==
  h \notin interrupted /\ n = mCredit[h] /\ UNCHANGED <<interrupted, mOffset>>
  /\ mCredit' = [mCredit EXCEPT ![h] = @ - n]

\* The loop spends the whole credit, unless zctx_interrupted is set or gets set
\* while it runs.  Nothing in the library clears that flag again.
RequestChunks(h, n) ==
  /\ \/ h \notin interrupted /\ n = mCredit[h] /\ UNCHANGED interrupted
     \/ h \in interrupted /\ n = 0 /\ UNCHANGED interrupted
     \/ /\ "signal" \in Faults
        /\ h \notin interrupted
        /\ interrupted' = interrupted \cup {h}
  /\ mCredit' = [mCredit EXCEPT ![h] = @ - n]
  /\ mOffset' = [mOffset EXCEPT ![h] = @ + n]

Requests(h, n) == [i \in 1..n |-> mOffset[h] + i - 1]

\* Heave up to its poll.
Heave(h) ==
  /\ hpc[h] = "idle"
  /\ \E n \in 0..mCredit[h] :
       /\ RequestChunks(h, n)
       /\ net' = [net EXCEPT ![h] = @ \o Requests(h, n)]
  /\ hpc' = [hpc EXCEPT ![h] = "heaving"]
  /\ UNCHANGED <<rx, inbox, kraken, accepted, received, lost>>

\* Cancel up to the poll of the Heave it ends with: the RequestChunks of that
\* Heave finds no credit left, or the flag set.
Cancel(h) ==
  /\ "cancel" \in Faults
  /\ Len(net[h]) + Len(rx) < MaxQueued
  /\ hpc[h] = "idle"
  /\ \E n \in 0..mCredit[h] :
       /\ RequestChunks(h, n)
       /\ net' = [net EXCEPT ![h] = Append(@ \o Requests(h, n), CANCEL)]
  /\ hpc' = [hpc EXCEPT ![h] = "heaving"]
  /\ UNCHANGED <<rx, inbox, kraken, accepted, received, lost>>

\* Mutants of CreditFor: VICTORIOUS gives the credit back too, CONTINUE does not.
CreditForEnd(n) == 1
CreditForNone(n) == 0

\* CONTINUE gives the credit back, VICTORIOUS (the chunk is empty) returns before.
CreditFor(n) == IF IsEnd(n) THEN 0 ELSE 1

\* The poll reports a chunk.
HeaveChunk(h) ==
  /\ hpc[h] = "heaving"
  /\ inbox[h] # <<>>
  /\ LET n == Head(inbox[h]) IN
       /\ received' = [received EXCEPT ![h] = Append(@, n)]
       /\ mCredit' = [mCredit EXCEPT ![h] = @ + CreditFor(n)]
  /\ inbox' = [inbox EXCEPT ![h] = Tail(@)]
  /\ hpc' = [hpc EXCEPT ![h] = "idle"]
  /\ UNCHANGED <<net, rx, kraken, mOffset, interrupted, accepted, lost>>

\* Mutant of HeaveTimeout: a chunk that comes too late is thrown away.
HeaveTimeoutDiscards(h) ==
  /\ hpc[h] = "heaving"
  /\ hpc' = [hpc EXCEPT ![h] = "idle"]
  /\ inbox' = [inbox EXCEPT ![h] = <<>>]
  /\ UNCHANGED <<net, rx, kraken, mCredit, mOffset, interrupted, accepted, received, lost>>

\* TIMEOUT: nothing arrived in time; what is in inbox is still on its way.
HeaveTimeout(h) ==
  /\ hpc[h] = "heaving"
  /\ hpc' = [hpc EXCEPT ![h] = "idle"]
  /\ UNCHANGED <<net, rx, inbox, kraken, mCredit, mOffset, interrupted,
                 accepted, received, lost>>

\* Mutant of HeaveInterrupt: the chunk is taken although INTERRUPT is returned.
HeaveInterruptTakes(h) ==
  /\ "signal" \in Faults
  /\ hpc[h] = "heaving"
  /\ inbox[h] # <<>>
  /\ inbox' = [inbox EXCEPT ![h] = Tail(@)]
  /\ hpc' = [hpc EXCEPT ![h] = "idle"]
  /\ UNCHANGED <<net, rx, kraken, mCredit, mOffset, interrupted, accepted, received, lost>>

\* INTERRUPT: zframe_recv returns NULL and leaves the chunk in the socket.
HeaveInterrupt(h) ==
  /\ "signal" \in Faults
  /\ hpc[h] = "heaving"
  /\ inbox[h] # <<>>
  /\ interrupted' = interrupted \cup {h}
  /\ hpc' = [hpc EXCEPT ![h] = "idle"]
  /\ UNCHANGED <<net, rx, inbox, kraken, mCredit, mOffset, accepted, received, lost>>

-----------------------------------------------------------------------------
(* The network *)

\* A whole message reaches the ROUTER, which puts the identity in front of it.
Deliver(h) ==
  /\ net[h] # <<>>
  /\ rx' = rx \o <<h, Head(net[h])>>
  /\ net' = [net EXCEPT ![h] = Tail(@)]
  /\ UNCHANGED <<inbox, kraken, harpoon, accepted, received, lost>>

\* The Harpoon's process goes away.  Requests that left its machine can still
\* arrive; chunks on their way to it are lost.
Crash(h) ==
  /\ "crash" \in Faults
  /\ Up(h)
  /\ hpc' = [hpc EXCEPT ![h] = "dead"]
  /\ \E kept \in Prefixes(net[h]) : net' = [net EXCEPT ![h] = kept]
  /\ inbox' = [inbox EXCEPT ![h] = <<>>]
  /\ lost' = lost \cup Range(inbox[h])
  /\ UNCHANGED <<rx, kraken, mCredit, mOffset, interrupted, accepted, received>>

-----------------------------------------------------------------------------
(* The Kraken *)

\* SendTidalWave returns at once when there is nothing to send; otherwise it
\* enters the SendRawData of its first piece.
SendTidalWave(size) ==
  /\ kpc = "idle"
  /\ Len(calls) < MaxCalls
  /\ calls' = Append(calls, [op |-> "SendTidalWave", size |-> size,
                             status |-> IF size = 0 THEN "CONTINUE" ELSE "running"])
  /\ kpc' = IF size = 0 THEN "idle" ELSE "waiting"
  /\ sentBytes' = 0
  /\ UNCHANGED <<net, rx, inbox, mIdentity, harpoon, accepted, received, lost>>

FinalBreach ==
  /\ kpc = "idle"
  /\ Len(calls) < MaxCalls
  /\ calls' = Append(calls, [op |-> "FinalBreach", size |-> 0, status |-> "running"])
  /\ kpc' = "waiting"
  /\ sentBytes' = 0
  /\ UNCHANGED <<net, rx, inbox, mIdentity, harpoon, accepted, received, lost>>

\* The call in progress gets its result.  FinalBreach keeps it while it looks
\* for leftovers in the socket.
Return(status) ==
  /\ calls' = [calls EXCEPT ![Len(calls)].status = status]
  /\ kpc' = IF calls[Len(calls)].op = "FinalBreach" THEN "draining" ELSE "idle"
  /\ mIdentity' = <<>>

\* PollTimeout gives up: there was no input, or every poll was cut by a signal.
PollFails == rx = <<>> \/ "signal" \in Faults

\* NextChunkId: the first frame is the identity of the client.
RecvIdentity ==
  /\ kpc = "waiting"
  /\ rx # <<>>
  /\ mIdentity' = <<Head(rx)>>
  /\ rx' = Tail(rx)
  /\ kpc' = "reading"
  /\ UNCHANGED <<net, inbox, sentBytes, calls, harpoon, accepted, received, lost>>

\* NextChunkId returns TIMEOUT at its first or at its second poll.
NextChunkIdTimeout ==
  /\ kpc \in {"waiting", "reading"}
  /\ PollFails
  /\ Return("TIMEOUT")
  /\ UNCHANGED <<net, rx, inbox, sentBytes, harpoon, accepted, received, lost>>

\* NextChunkId returns INTERRUPT: zframe_recv or zstr_recv returned NULL.
NextChunkIdInterrupt ==
  /\ "signal" \in Faults
  /\ kpc \in {"waiting", "reading"}
  /\ rx # <<>>
  /\ Return("INTERRUPT")
  /\ UNCHANGED <<net, rx, inbox, sentBytes, harpoon, accepted, received, lost>>

\* NextChunkId returns CANCEL.
NextChunkIdCancel ==
  /\ kpc = "reading"
  /\ rx # <<>>
  /\ Head(rx) = CANCEL
  /\ rx' = Tail(rx)
  /\ Return("CANCEL")
  /\ UNCHANGED <<net, inbox, sentBytes, harpoon, accepted, received, lost>>

\* Mutant of ChunkSize: the last piece is not cut short.
ChunkSizeFull(size, i) == IF size = 0 THEN 0 ELSE MaxChunkSize

ChunkSize(size, i) == IF size - i < MaxChunkSize THEN size - i ELSE MaxChunkSize

\* Mutants of SendTo: the chunk is sent again, or to every Harpoon.
SendToTwice(id, n) ==
  /\ inbox' = [h \in Harpoons |-> IF h = id THEN inbox[h] \o <<n, n>> ELSE inbox[h]]
  /\ UNCHANGED lost
SendToAll(id, n) ==
  /\ inbox' = [h \in Harpoons |-> Append(inbox[h], n)]
  /\ UNCHANGED lost

\* zframe_send of the identity and of chunk n; what it returns is ignored.
SendTo(id, n) ==
  IF Routable(id)
    THEN inbox' = [inbox EXCEPT ![id] = Append(@, n)] /\ UNCHANGED lost
    ELSE lost' = lost \cup {n} /\ UNCHANGED inbox

\* NextChunkId returns CONTINUE: SendRawData sends the identity and the chunk,
\* and returns CONTINUE.  SendTidalWave then goes on to its next piece, if any.
SendRawData ==
  /\ kpc = "reading"
  /\ rx # <<>>
  /\ Head(rx) # CANCEL
  /\ rx' = Tail(rx)
  /\ LET call == Len(calls)
         size == calls[call].size
     IN /\ accepted' = Append(accepted, [call |-> call, at |-> sentBytes,
                                         len |-> ChunkSize(size, sentBytes)])
        /\ SendTo(Head(mIdentity), Len(accepted) + 1)
        /\ sentBytes' = sentBytes + MaxChunkSize
        /\ IF sentBytes + MaxChunkSize < size
             THEN kpc' = "waiting" /\ mIdentity' = <<>> /\ UNCHANGED calls
             ELSE Return("CONTINUE")
  /\ UNCHANGED <<net, harpoon, received>>

\* The end of FinalBreach: "clean out any previous packets".  One receive, so
\* one frame, or none when nothing came within 100 ms or the receive failed.
FinalBreachDrain ==
  /\ kpc = "draining"
  /\ \/ rx # <<>> /\ rx' = Tail(rx)
     \/ PollFails /\ UNCHANGED rx
  /\ kpc' = "idle"
  /\ UNCHANGED <<net, inbox, mIdentity, sentBytes, calls, harpoon, accepted, received, lost>>

\* The Kraken is destroyed and another one binds the same location.  What its
\* socket held is gone; requests still in the Harpoons' own pipes are sent again
\* to the new one, and chunks already on the wire arrive.
KrakenRestart ==
  /\ "restart" \in Faults
  /\ \E kept \in [Harpoons -> UNION {Suffixes(net[h]) : h \in Harpoons}] :
       /\ \A h \in Harpoons : kept[h] \in Suffixes(net[h])
       /\ net' = kept
  /\ \E kept \in [Harpoons -> UNION {Prefixes(inbox[h]) : h \in Harpoons}] :
       /\ \A h \in Harpoons : kept[h] \in Prefixes(inbox[h])
       /\ inbox' = kept
       /\ lost' = lost \cup UNION {Range(inbox[h]) \ Range(kept[h]) : h \in Harpoons}
  /\ rx' = <<>>
  /\ calls' = IF kpc \in {"waiting", "reading"}
                THEN [calls EXCEPT ![Len(calls)].status = "aborted"] ELSE calls
  /\ kpc' = "idle"
  /\ mIdentity' = <<>>
  /\ UNCHANGED <<sentBytes, harpoon, accepted, received>>

-----------------------------------------------------------------------------
HarpoonStep(h) ==
  \/ Aim(h) \/ Heave(h) \/ Cancel(h)
  \/ HeaveChunk(h) \/ HeaveTimeout(h) \/ HeaveInterrupt(h)
  \/ Deliver(h) \/ Crash(h)

KrakenStep ==
  \/ \E size \in Sizes : SendTidalWave(size)
  \/ FinalBreach
  \/ RecvIdentity \/ NextChunkIdTimeout \/ NextChunkIdInterrupt \/ NextChunkIdCancel
  \/ SendRawData \/ FinalBreachDrain \/ KrakenRestart

Next == KrakenStep \/ \E h \in Harpoons : HarpoonStep(h)

Spec == Init /\ [][Next]_vars

\* The network delivers, the client application keeps calling Heave and the
\* Kraken's thread runs.  A chunk that keeps being on its way is received in
\* spite of timeouts; nothing makes a timeout happen.
Fairness ==
  /\ \A h \in Harpoons :
       /\ WF_vars(Aim(h)) /\ WF_vars(Heave(h)) /\ WF_vars(HeaveTimeout(h))
       /\ SF_vars(HeaveChunk(h))
       /\ WF_vars(Deliver(h))
  /\ WF_vars(RecvIdentity) /\ WF_vars(SendRawData) /\ WF_vars(FinalBreachDrain)

FairSpec == Spec /\ Fairness

-----------------------------------------------------------------------------
(* Properties *)

\* Every variable has its type.
TypeOK ==
  /\ net \in [Harpoons -> Seq(Request)]
  /\ rx \in Seq(Frame)
  /\ inbox \in [Harpoons -> Seq(Nat)]
  /\ kpc \in {"idle", "waiting", "reading", "draining"}
  /\ mIdentity \in Seq(Frame) /\ Len(mIdentity) = IF kpc = "reading" THEN 1 ELSE 0
  /\ sentBytes \in Nat
  /\ calls \in Seq(Call)
  /\ hpc \in [Harpoons -> {"new", "idle", "heaving", "dead"}]
  /\ mCredit \in [Harpoons -> Nat]
  /\ mOffset \in [Harpoons -> Nat]
  /\ interrupted \subseteq Harpoons
  /\ accepted \in Seq(Chunk)
  /\ received \in [Harpoons -> Seq(Nat)]
  /\ lost \subseteq Nat

\* What the Kraken has still to read, the frame it holds included, and what it
\* has sent to a Harpoon that is not lost, oldest first.
Frames == mIdentity \o rx
SentTo(h) == received[h] \o inbox[h]

\* The flow control the comment at Kraken.cpp:95-97 claims: whatever is
\* cancelled, interrupted, lost or restarted, the chunks on their way to a
\* Harpoon and the requests it may still make never exceed the queue length, so
\* the pipe of a live Harpoon never fills up and the ROUTER never drops for it.
FlowControl == \A h \in Harpoons : Len(inbox[h]) + mCredit[h] <= QueueLength

\* Why FlowControl holds: the requests still to be read, on their way and at the
\* ROUTER, carry increasing numbers that start at the number of chunks their
\* sender was sent and stay below its mOffset.  So each request is answered at
\* most once, even when frames were skipped, and no chunk goes out unasked.
Answered(h) == Len(received[h]) + Len(inbox[h])
InWindow(h, n) == n # CANCEL => Answered(h) <= n /\ n < mOffset[h]
Before(m, n) == m # CANCEL /\ n # CANCEL => m < n

NetRequests ==
  \A h \in Harpoons :
    /\ \A i \in DOMAIN net[h] : InWindow(h, net[h][i])
    /\ \A i, j \in DOMAIN net[h] : i < j => Before(net[h][i], net[h][j])

FrameRequests ==
  \A i \in DOMAIN Frames : Frames[i] \in Harpoons =>
    /\ i + 1 \in DOMAIN Frames
    /\ Frames[i + 1] \in Request
    /\ InWindow(Frames[i], Frames[i + 1])
    /\ \A k \in DOMAIN net[Frames[i]] : Before(Frames[i + 1], net[Frames[i]][k])
    /\ \A j \in DOMAIN Frames :
         i < j /\ Frames[j] = Frames[i] => Before(Frames[i + 1], Frames[j + 1])

Credits ==
  \A h \in Harpoons :
    /\ Answered(h) <= mOffset[h]
    /\ mCredit[h] + mOffset[h] <= QueueLength + Len(received[h])

RequestsAnsweredOnce == NetRequests /\ FrameRequests /\ Credits

\* A Harpoon gets chunks in the order they were sent and none of them twice.
InOrder ==
  \A h \in Harpoons : \A i, j \in DOMAIN SentTo(h) :
    i < j => SentTo(h)[i] < SentTo(h)[j]

\* A chunk SendRawData said CONTINUE for is in one place: with one Harpoon, or
\* lost.  Two Harpoons that pull on one Kraken never get the same chunk.
Accounted ==
  /\ \A n \in DOMAIN accepted :
       n \in lost \/ \E h \in Harpoons : n \in Range(SentTo(h))
  /\ \A h \in Harpoons : lost \cap Range(SentTo(h)) = {}
  /\ \A g, h \in Harpoons : g # h => Range(SentTo(g)) \cap Range(SentTo(h)) = {}

\* With the queue length of the code an end marker is the last thing a Harpoon
\* is ever sent, even when a cancelled stream left requests behind.
EndIsFinal ==
  QueueLength = 1 =>
    \A h \in Harpoons : \A i \in DOMAIN SentTo(h) :
      IsEnd(SentTo(h)[i]) => i = Len(SentTo(h))

\* A FinalBreach that could not send its end marker.
BreachFailed ==
  \E k \in DOMAIN calls : calls[k].op = "FinalBreach" /\ calls[k].status = "TIMEOUT"

\* The Kraken never mistakes a payload for an identity, as long as no
\* FinalBreach failed: the frames it has still to read alternate.
InSync ==
  BreachFailed \/ \A i \in DOMAIN Frames : Frames[i] \in Harpoons <=> i % 2 = 1

\* No credit is lost or made up, as long as no FinalBreach failed: a credit is in
\* hand, in a request, in a chunk on its way back, or was kept by an end marker.
CreditConserved ==
  BreachFailed \/ \A h \in Harpoons :
    mCredit[h] + Len(net[h]) + Cardinality({i \in DOMAIN Frames : Frames[i] = h})
      + Len(inbox[h]) + Cardinality({i \in DOMAIN received[h] : IsEnd(received[h][i])})
    = QueueLength

\* The bytes of a call that are among the chunks ns are exactly 0..upto-1, each once.
Covers(k, ns, upto) ==
  LET pieces == {n \in ns : accepted[n].call = k}
      bytes(n) == accepted[n].at .. (accepted[n].at + accepted[n].len - 1)
  IN /\ UNION {bytes(n) : n \in pieces} = 0..(upto - 1)
     /\ \A m, n \in pieces : m # n => bytes(m) \cap bytes(n) = {}

\* "VICTORIOUS means that the stream has completed" (README.md:131): a Harpoon
\* that got the end marker has every chunk sent so far, and with them every
\* byte of every SendTidalWave that returned CONTINUE, exactly once.
VictoryIsComplete ==
  \A h \in Harpoons :
    (received[h] # <<>> /\ IsEnd(Last(received[h]))) =>
      /\ Range(received[h]) = DOMAIN accepted
      /\ \A k \in DOMAIN calls :
           calls[k].op = "SendTidalWave" /\ calls[k].status = "CONTINUE" =>
             Covers(k, Range(received[h]), calls[k].size)
      /\ calls[accepted[Last(received[h])].call].op = "FinalBreach"

\* One Harpoon and one Kraken without faults are the stream of ChunkStream.
Client == CHOOSE h \in Harpoons : TRUE
Stream == INSTANCE ChunkStream WITH
            Window <- QueueLength,
            sent <- accepted,
            delivered <- [i \in DOMAIN received[Client] |-> accepted[received[Client][i]]]
ImplementsStream == Stream!Spec

\* Every chunk handed to the socket reaches the application, and a call on the Kraken
\* hands over no more of them than its data has pieces, or one end marker.
MaxChunks == MaxCalls * (Max(Sizes \cup {0}) \div MaxChunkSize + 1)
EveryChunkArrives ==
  \A n \in 1..MaxChunks : n \in DOMAIN accepted ~> \E h \in Harpoons : n \in Range(received[h])

\* A Kraken that waits for a request gets one without the help of a timeout, as
\* long as no end marker went out and no FinalBreach failed: no credit is stuck.
Ended == \E n \in DOMAIN accepted : IsEnd(n)
NoStall == kpc = "waiting" ~> (kpc # "waiting" \/ Ended \/ BreachFailed)

\* "Clean out any previous packets in the channel" (Kraken.cpp:168): when
\* FinalBreach is back, the next call does not start in the middle of a message.
BreachCleansChannel ==
  kpc = "idle" /\ calls # <<>> /\ Last(calls).op = "FinalBreach" /\ rx # <<>>
    => Head(rx) \in Harpoons
=============================================================================
