---------------------------- MODULE KrakenBattle ----------------------------
(***************************************************************************)
(* src/src/KrakenBattle.cpp and HarpoonBattle.cpp: the messages of several *)
(* transfers on one Kraken.  Each message is a header, uuid<TYPE>, and a   *)
(* payload; one that is longer than a chunk is split, and each piece gets  *)
(* the header again.  The client takes every piece apart on its own.       *)
(*                                                                         *)
(* The Kraken is what KrakenHarpoon says of it: a SendTidalWave of at most *)
(* one chunk either returns CONTINUE, and then the chunk was handed to the *)
(* socket, in order, or returns something else, and then nothing was       *)
(* (ShortCallsAreWholeOrNothing in KrakenHarpoonProofs).  Whether a chunk  *)
(* reaches the client is another matter, which CONTINUE does not tell: the *)
(* client may be gone, or what was read as its identity may be the rest of *)
(* a message torn by an earlier FinalBreach.  Any chunk can be lost here.  *)
(*                                                                         *)
(* A message is a sequence of symbols: a uuid is one, a type is written    *)
(* with three, "<", its name and ">", and payloads may hold "<" and ">".   *)
(***************************************************************************)
EXTENDS Integers, Sequences, SequencesExt

CONSTANTS
  Uuids,        \* ids of transfers
  emptyUUID,
  Bytes,        \* the symbols of payloads
  Payloads,     \* the payloads handed to ForwardChunksToClient
  kSplitSize,   \* kraken->MaxChunkSizeInBytes()
  MaxForwards   \* bound: calls of ForwardChunksToClient

SendType == {"Begin", "Data", "Done", "Error", "End"}
HeaderSize == 4

\* The CHECK of SendChunks: a chunk is longer than the header.
ASSUME Assumptions ==
  /\ emptyUUID \notin Uuids
  /\ {"<", ">"} \cap (Uuids \cup {emptyUUID}) = {}
  /\ Payloads \subseteq Seq(Bytes)
  /\ kSplitSize \in Nat /\ kSplitSize > HeaderSize
  /\ MaxForwards \in Nat

VARIABLES
  pc,       \* "idle", "sending" in SendChunks, "breaching" in FinalBreach
  i,        \* how much of the merged message has been sent
  calls,    \* every call [uuid, type, payload, status]
  wire,     \* what was handed to the socket: [call, chunk], an empty chunk for FinalBreach
  lost      \* the places in wire of the chunks that do not reach the client

vars == <<pc, i, calls, wire, lost>>

Battling == {"TIMEOUT", "INTERRUPT", "CONTINUE", "CANCEL"}

-----------------------------------------------------------------------------
(* The format *)

EnumToString(type) == <<"<", type, ">">>

\* payload stands for the data of Begin and Data and for the message of Error.
MergeData(uuid, type, payload) ==
  <<IF type = "End" THEN emptyUUID ELSE uuid>> \o EnumToString(type)
    \o (IF type \in {"Begin", "Data", "Error"} THEN payload ELSE <<>>)

StringToEnum(text) ==
  IF \E type \in SendType : text = EnumToString(type)
    THEN CHOOSE type \in SendType : text = EnumToString(type)
    ELSE "Error"

\* std::find from position k on; 0 if there is none.
Find(chunk, symbol, k) ==
  LET found == {n \in k..Len(chunk) : chunk[n] = symbol}
  IN IF found = {} THEN 0 ELSE CHOOSE n \in found : \A m \in found : n <= m

\* Mutant of ExtractToParts: the end of the type is looked for from the back.
ExtractToPartsLast(chunk) ==
  LET uuidEnd == Find(chunk, "<", 1)
      typeEnd == Len(chunk) + 1 - Find(Reverse(chunk), ">", 1)
  IN [uuid |-> SubSeq(chunk, 1, uuidEnd - 1),
      type |-> StringToEnum(SubSeq(chunk, uuidEnd, typeEnd)),
      data |-> SubSeq(chunk, typeEnd + 1, Len(chunk))]

ExtractToParts(chunk) ==
  LET uuidEnd == Find(chunk, "<", 1)
      typeEnd == Find(chunk, ">", uuidEnd)
      type == StringToEnum(SubSeq(chunk, uuidEnd, typeEnd))
  IN IF uuidEnd \in {0, 1}
       THEN [uuid |-> <<>>, type |-> "Error", data |-> <<>>]
     ELSE IF typeEnd = 0
       THEN [uuid |-> SubSeq(chunk, 1, uuidEnd - 1), type |-> "Error", data |-> <<>>]
     ELSE [uuid |-> SubSeq(chunk, 1, uuidEnd - 1), type |-> type,
           data |-> IF type \in {"Done", "End"}
                      THEN <<>> ELSE SubSeq(chunk, typeEnd + 1, Len(chunk))]

-----------------------------------------------------------------------------
(* Sending *)

Init == pc = "idle" /\ i = 0 /\ calls = <<>> /\ wire = <<>> /\ lost = {}

ForwardChunksToClient(uuid, type, payload) ==
  /\ pc = "idle"
  /\ Len(calls) < MaxForwards
  /\ calls' = Append(calls, [uuid |-> uuid, type |-> type, payload |-> payload,
                             status |-> "running"])
  /\ pc' = "sending"
  /\ i' = 0
  /\ UNCHANGED <<wire, lost>>

This == calls[Len(calls)]
kTotalToSend == MergeData(This.uuid, This.type, This.payload)
kTotalSize == Len(kTotalToSend)
kHeader == MergeData(This.uuid, This.type, <<>>)
kSplitSizeAdjusted == kSplitSize - Len(kHeader)

Smaller(a, b) == IF a < b THEN a ELSE b

\* How far the loop variable moves with each piece.
Step == IF i = 0 THEN kSplitSize ELSE kSplitSizeAdjusted

\* The piece at i: the first holds the header as part of the message, the others
\* get it again.
ToSend ==
  (IF i = 0 THEN <<>> ELSE kHeader)
    \o SubSeq(kTotalToSend, i + 1, Smaller(i + Step, kTotalSize))

\* Mutant of More: the rest is measured without the header it will get.
MoreUnadjusted == kTotalSize > kSplitSize /\ i + kSplitSize <= kTotalSize

\* A message that fits in one chunk is sent in one; otherwise the loop goes on up
\* to and including kTotalSize, where there may be nothing left but the header.
More == kTotalSize > kSplitSize /\ i + Step <= kTotalSize

Stop == calls' = [calls EXCEPT ![Len(calls)].status = "Stop"]
Continue == calls' = [calls EXCEPT ![Len(calls)].status = "Continue"]

\* The two sends of SendRawData, whose results it does not look at: the chunk reaches
\* the client, or it is dropped without a word.
HandOver(chunk) ==
  /\ wire' = Append(wire, [call |-> Len(calls), chunk |-> chunk])
  /\ \/ UNCHANGED lost
     \/ lost' = lost \cup {Len(wire')}

\* kraken->SendTidalWave(toSend) in SendChunks and, when it was the last one, what
\* ForwardChunksToClient does with the result: a cancelled call stops, an End goes
\* on to FinalBreach whatever the result was.
SendTidalWave(result) ==
  /\ pc = "sending"
  /\ IF result = "CONTINUE"
       THEN HandOver(ToSend)
       ELSE UNCHANGED <<wire, lost>>
  /\ i' = i + Step
  /\ IF result = "CONTINUE" /\ More THEN UNCHANGED <<pc, calls>>
     ELSE IF result # "CANCEL" /\ This.type = "End" THEN pc' = "breaching" /\ UNCHANGED calls
     ELSE pc' = "idle" /\ IF result = "CONTINUE" THEN Continue ELSE Stop

\* kraken->FinalBreach(): its result alone decides the status of an End.  What it can
\* leave in the channel when it times out is one more way to lose the chunks after it.
FinalBreach(result) ==
  /\ pc = "breaching"
  /\ IF result = "CONTINUE"
       THEN HandOver(<<>>) /\ Continue
       ELSE UNCHANGED <<wire, lost>> /\ Stop
  /\ pc' = "idle"
  /\ UNCHANGED i

Next ==
  \/ \E uuid \in Uuids, type \in SendType, payload \in Payloads :
       ForwardChunksToClient(uuid, type, payload)
  \/ \E result \in Battling : SendTidalWave(result) \/ FinalBreach(result)

Spec == Init /\ [][Next]_vars

-----------------------------------------------------------------------------
(* Properties *)

\* Every variable has its type.
TypeOK ==
  /\ pc \in {"idle", "sending", "breaching"}
  /\ i \in Nat
  /\ calls \in Seq([uuid : Uuids, type : SendType, payload : Payloads,
                    status : {"running", "Continue", "Stop"}])
  /\ wire \in Seq([call : DOMAIN calls, chunk : Seq(Uuids \cup {emptyUUID} \cup SendType
                                                    \cup Bytes \cup {"<", ">"})])
  /\ lost \subseteq DOMAIN wire
  /\ pc # "idle" => calls # <<>>

\* Each piece, whatever symbols it holds, says what transfer and what type it
\* belongs to, and the Kraken never has to split it again.
PiecesAreSelfContained ==
  \A n \in DOMAIN wire : wire[n].chunk # <<>> =>
    LET call == calls[wire[n].call]
        parts == ExtractToParts(wire[n].chunk)
    IN /\ parts.uuid = <<IF call.type = "End" THEN emptyUUID ELSE call.uuid>>
       /\ parts.type = call.type
       /\ Len(wire[n].chunk) <= kSplitSize

\* What a client reads of call k in one item of the wire, in all that was handed over,
\* and in what reaches it.
Data(k, item) ==
  IF item.call = k /\ item.chunk # <<>> THEN ExtractToParts(item.chunk).data ELSE <<>>
Sent(k) == FlattenSeq([n \in DOMAIN wire |-> Data(k, wire[n])])
Received(k) ==
  FlattenSeq([n \in DOMAIN wire |-> IF n \in lost THEN <<>> ELSE Data(k, wire[n])])

\* The payload of a call that is meant for the client.
Meant(k) == IF calls[k].type \in {"Begin", "Data", "Error"} THEN calls[k].payload ELSE <<>>

\* No chunk of call k was lost.
Unbroken(k) == \A n \in lost : wire[n].call # k

\* What was handed over of a call, taken apart and put together, is a prefix of its
\* payload, and all of it once ForwardChunksToClient said Continue; an End says so just
\* when it handed over the end marker, whatever became of the piece that announced it.
HandedOver ==
  \A k \in DOMAIN calls :
    /\ IsPrefix(Sent(k), Meant(k))
    /\ calls[k].status = "Continue" => Sent(k) = Meant(k)
    /\ calls[k].type = "End" =>
         (calls[k].status = "Continue" <=> [call |-> k, chunk |-> <<>>] \in Range(wire))

\* Splitting loses and doubles nothing: what is handed over is as HandedOver has it, and a
\* client reads a prefix of the payload, all of it after Continue, of each call of which
\* every chunk reached it, whatever became of the chunks of other calls.
Reassembled ==
  /\ HandedOver
  /\ \A k \in DOMAIN calls : Unbroken(k) =>
       /\ IsPrefix(Received(k), Meant(k))
       /\ calls[k].status = "Continue" => Received(k) = Meant(k)
=============================================================================
