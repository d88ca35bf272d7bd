------------------------- MODULE RifleVampireProofs -------------------------
(* Proofs about RifleVampire, for every value of its constants. *)
EXTENDS RifleVampire, FiniteSetTheorems, SequenceTheorems, TLAPS

-----------------------------------------------------------------------------
(* Types *)

Status == {"polling", "ready", "true", "false"}
Call == [by : Rifles, aim : Nat, bullet : Bullets, status : Status]

\* The part of TypeOK that is about the two ends, and the one about the bullets.
EndsOK ==
  /\ aimed \subseteq Rifles /\ prepared \subseteq Vampires
  /\ aims \in [Rifles -> Nat]
  /\ pipes \subseteq aimed \X Vampires

BulletsOK ==
  /\ calls \in Seq(Call)
  /\ out \in [Rifles \X Vampires -> Seq(DOMAIN calls)]
  /\ \A p \in Rifles \X Vampires : Len(out[p]) <= Hwm
  /\ body \in [Vampires -> SUBSET DOMAIN calls]
  /\ got \in [Vampires -> Seq([bullet : DOMAIN calls, how : Reads])]
  /\ lost \subseteq DOMAIN calls

FreedOK == freed \in [DOMAIN calls -> {0, 1}]

LEMMA TypeParts == TypeOK <=> EndsOK /\ BulletsOK /\ FreedOK
  BY DEF TypeOK, EndsOK, BulletsOK, FreedOK, Call, Status

\* What DropPipes and Destroy leave of the pipes.
LEMMA EndsTypes ==
  ASSUME EndsOK, [Next]_vars
  PROVE  EndsOK'
<1> USE DEF EndsOK
<1>1. CASE UNCHANGED vars
  BY <1>1 DEF vars, rifle
<1>2. ASSUME NEW r \in Rifles, Aim(r)
      PROVE  EndsOK'
  <2>1. Targets \subseteq Vampires
    BY Assumptions DEF Assumptions, Targets
  <2>2. QED
    BY <1>2, <2>1 DEF Aim
<1>3. ASSUME NEW r \in Rifles, DestroyRifle(r)
      PROVE  EndsOK'
  BY <1>3 DEF DestroyRifle, DropPipes
<1>4. ASSUME NEW r \in Rifles, NEW b \in Bullets, Fire(r, b)
      PROVE  EndsOK'
  BY <1>4 DEF Fire
<1>5. ASSUME NEW n \in DOMAIN calls,
             PollReady(n) \/ PollFails(n) \/ Send(n) \/ SendFails(n) \/ Interrupt(n)
      PROVE  EndsOK'
  BY <1>5 DEF PollReady, PollFails, Send, SendFails, Interrupt, Fails
<1>6. ASSUME NEW v \in Vampires, PrepareToBeShot(v)
      PROVE  EndsOK'
  BY <1>6 DEF PrepareToBeShot, rifle, Targets
<1>7. ASSUME NEW v \in Vampires, DestroyVampire(v)
      PROVE  EndsOK'
  BY <1>7 DEF DestroyVampire, rifle
<1>8. ASSUME NEW v \in Vampires, NEW r \in Rifles, Connect(r, v) \/ Transfer(r, v)
      PROVE  EndsOK'
  <2>1. UNCHANGED <<aimed, prepared, aims>>
    BY <1>8 DEF Connect, Transfer, rifle
  <2>2. pipes' = pipes \/ (r \in aimed /\ pipes' = pipes \cup {<<r, v>>})
    BY <1>8 DEF Connect, Transfer
  <2>3. QED
    BY <2>1, <2>2
<1>9. ASSUME NEW v \in Vampires, NEW how \in Reads, Get(v, how)
      PROVE  EndsOK'
  BY <1>9 DEF Get, rifle
<1>10. QED
  BY <1>1, <1>2, <1>3, <1>4, <1>5, <1>6, <1>7, <1>8, <1>9 DEF Next, RifleStep, VampireStep

\* When there is one more call, or one that has another status, the bullets keep their
\* types.
LEMMA CallAdded ==
  ASSUME BulletsOK, NEW call \in Call, calls' = Append(calls, call),
         UNCHANGED <<out, body, got, lost>>
  PROVE  BulletsOK' /\ DOMAIN calls' = DOMAIN calls \cup {Len(calls) + 1}
                    /\ Len(calls) + 1 \notin DOMAIN calls
<1> DEFINE D == DOMAIN calls
           E == DOMAIN calls'
           Read(S) == [bullet : S, how : Reads]
<1>1. calls' \in Seq(Call) /\ E = D \cup {Len(calls) + 1} /\ Len(calls) + 1 \notin D
  BY DEF BulletsOK
<1>2. Read(D) \subseteq Read(E)
  BY <1>1
<1> HIDE DEF D, E, Read
<1>3. Seq(D) \subseteq Seq(E) /\ Seq(Read(D)) \subseteq Seq(Read(E))
  BY <1>1, <1>2, SeqMonotonic
<1>4. /\ out \in [Rifles \X Vampires -> Seq(D)]
      /\ body \in [Vampires -> SUBSET D]
      /\ got \in [Vampires -> Seq(Read(D))]
      /\ lost \subseteq D
  BY DEF BulletsOK, D, Read
<1>5. /\ out \in [Rifles \X Vampires -> Seq(E)]
      /\ body \in [Vampires -> SUBSET E]
      /\ got \in [Vampires -> Seq(Read(E))]
      /\ lost \subseteq E
  BY <1>1, <1>3, <1>4
<1>6. QED
  BY <1>1, <1>5 DEF BulletsOK, D, E, Read

LEMMA StatusSet ==
  ASSUME BulletsOK, NEW n \in DOMAIN calls, NEW status \in Status,
         calls' = [calls EXCEPT ![n].status = status]
  PROVE  /\ calls' \in Seq(Call) /\ DOMAIN calls' = DOMAIN calls
         /\ \A m \in DOMAIN calls : calls'[m].bullet = calls[m].bullet
         /\ \A m \in DOMAIN calls \ {n} : calls'[m] = calls[m]
         /\ calls'[n].status = status
<1>1. /\ calls \in Seq(Call) /\ calls[n] \in Call
      /\ DOMAIN calls' = DOMAIN calls /\ Len(calls') = Len(calls)
  BY DEF BulletsOK
<1>2. [calls[n] EXCEPT !.status = status] \in Call
  BY <1>1 DEF Call
<1>3. calls'[n] = [calls[n] EXCEPT !.status = status]
  BY <1>1
<1>4. \A m \in DOMAIN calls \ {n} : calls'[m] = calls[m]
  BY <1>1
<1>5. calls'[n].status = status /\ calls'[n].bullet = calls[n].bullet
  BY <1>1, <1>3 DEF Call
<1>6. calls' \in Seq(Call)
  BY <1>1, <1>2, <1>3, <1>4
<1>7. QED
  BY <1>1, <1>4, <1>5, <1>6

\* A pipe that is cut is empty.
LEMMA PipesCut ==
  ASSUME BulletsOK, NEW gone,
         out' = [p \in DOMAIN out |-> IF p \in gone THEN <<>> ELSE out[p]]
  PROVE  /\ out' \in [Rifles \X Vampires -> Seq(DOMAIN calls)]
         /\ \A p \in Rifles \X Vampires : Len(out'[p]) <= Hwm
         /\ \A p \in Rifles \X Vampires : out'[p] = IF p \in gone THEN <<>> ELSE out[p]
<1>1. <<>> \in Seq(DOMAIN calls) /\ Len(<<>>) <= Hwm
  BY EmptySeq, Assumptions DEF Assumptions
<1>2. QED
  BY <1>1 DEF BulletsOK

Dropped(gone) == UNION {Range(out[p]) : p \in gone}

LEMMA DroppedType ==
  ASSUME BulletsOK, NEW gone \in SUBSET (Rifles \X Vampires)
  PROVE  Dropped(gone) \subseteq DOMAIN calls
<1>1. ASSUME NEW p \in Rifles \X Vampires
      PROVE  Range(out[p]) \subseteq DOMAIN calls
  BY <1>1, RangeOfSeq DEF BulletsOK
<1>2. QED
  BY <1>1 DEF Dropped

LEMMA BulletsTypes ==
  ASSUME EndsOK, BulletsOK, [Next]_vars
  PROVE  BulletsOK'
<1>1. CASE UNCHANGED vars
  BY <1>1 DEF BulletsOK, vars, rifle
<1>2. ASSUME NEW r \in Rifles, NEW b \in Bullets, Fire(r, b)
      PROVE  BulletsOK'
  <2>1. PICK call \in Call : calls' = Append(calls, call)
    BY <1>2 DEF Fire, EndsOK, Call, Status
  <2>2. QED
    BY <1>2, <2>1, CallAdded DEF Fire
<1>3. ASSUME NEW n \in DOMAIN calls, PollReady(n) \/ PollFails(n) \/ SendFails(n) \/ Interrupt(n)
      PROVE  BulletsOK'
  <2>1. /\ \E status \in Status : calls' = [calls EXCEPT ![n].status = status]
        /\ UNCHANGED <<out, body, got, lost>>
    BY <1>3 DEF PollReady, PollFails, SendFails, Interrupt, Fails, Status
  <2>2. QED
    BY <2>1, StatusSet DEF BulletsOK
<1>4. ASSUME NEW n \in DOMAIN calls, Send(n)
      PROVE  BulletsOK'
  <2>1. PICK p \in Writable(calls[n].by) : out' = [out EXCEPT ![p] = Append(@, n)]
    BY <1>4 DEF Send
  <2>2. p \in Rifles \X Vampires /\ Len(out[p]) < Hwm
    BY <2>1 DEF Writable, EndsOK
  <2>3. /\ "true" \in Status
        /\ calls' = [calls EXCEPT ![n].status = "true"]
        /\ UNCHANGED <<body, got, lost>>
    BY <1>4 DEF Send, Status
  <2>4. calls' \in Seq(Call) /\ DOMAIN calls' = DOMAIN calls
    BY <2>3, StatusSet
  <2>5. Append(out[p], n) \in Seq(DOMAIN calls) /\ Len(Append(out[p], n)) <= Hwm
    BY <2>2, Assumptions DEF BulletsOK, Assumptions
  <2>6. /\ out' \in [Rifles \X Vampires -> Seq(DOMAIN calls)]
        /\ \A q \in Rifles \X Vampires : Len(out'[q]) <= Hwm
    BY <2>1, <2>2, <2>5 DEF BulletsOK
  <2>7. QED
    BY <2>3, <2>4, <2>6 DEF BulletsOK
<1>5. ASSUME NEW r \in Rifles, Aim(r)
      PROVE  BulletsOK'
  BY <1>5 DEF Aim, BulletsOK
<1>6. ASSUME NEW r \in Rifles, DestroyRifle(r)
      PROVE  BulletsOK'
  <2> DEFINE gone == {p \in pipes : p[1] = r}
  <2>1. gone \in SUBSET (Rifles \X Vampires)
    BY DEF EndsOK
  <2>2. /\ out' = [p \in DOMAIN out |-> IF p \in gone THEN <<>> ELSE out[p]]
        /\ lost' = lost \cup Dropped(gone)
        /\ UNCHANGED <<calls, body, got>>
    BY <1>6 DEF DestroyRifle, DropPipes, Dropped
  <2> HIDE DEF gone
  <2>3. QED
    BY <2>1, <2>2, PipesCut, DroppedType DEF BulletsOK
<1>7. ASSUME NEW v \in Vampires, DestroyVampire(v)
      PROVE  BulletsOK'
  <2> DEFINE gone == IF owner = "Rifle" THEN {p \in pipes : p[2] = v} ELSE {}
  <2>1. gone \in SUBSET (Rifles \X Vampires)
    BY DEF EndsOK
  <2>2. /\ out' = [p \in DOMAIN out |-> IF p \in gone THEN <<>> ELSE out[p]]
        /\ lost' = lost \cup Dropped(gone) \cup body[v]
        /\ body' = [body EXCEPT ![v] = {}]
        /\ UNCHANGED <<calls, got>>
    BY <1>7 DEF DestroyVampire, Dropped, rifle
  <2> HIDE DEF gone
  <2>3. QED
    BY <2>1, <2>2, PipesCut, DroppedType DEF BulletsOK
<1>8. ASSUME NEW v \in Vampires, PrepareToBeShot(v)
      PROVE  BulletsOK'
  BY <1>8 DEF PrepareToBeShot, BulletsOK, rifle
<1>9. ASSUME NEW v \in Vampires, NEW r \in Rifles, Connect(r, v)
      PROVE  BulletsOK'
  BY <1>9 DEF Connect, BulletsOK, rifle
<1>10. ASSUME NEW v \in Vampires, NEW r \in Rifles, Transfer(r, v)
       PROVE  BulletsOK'
  <2> DEFINE p == <<r, v>>
  <2>1. p \in Rifles \X Vampires /\ out[p] \in Seq(DOMAIN calls) /\ out[p] # <<>>
    BY <1>10 DEF Transfer, BulletsOK
  <2>2. /\ body' = [body EXCEPT ![v] = @ \cup {Head(out[p])}]
        /\ out' = [out EXCEPT ![p] = Tail(@)]
        /\ UNCHANGED <<calls, got, lost>>
    BY <1>10 DEF Transfer, rifle
  <2> HIDE DEF p
  <2>3. /\ Head(out[p]) \in DOMAIN calls /\ Tail(out[p]) \in Seq(DOMAIN calls)
        /\ Len(Tail(out[p])) <= Hwm
    BY <2>1, HeadTailProperties, Assumptions DEF BulletsOK, Assumptions
  <2>4. QED
    BY <2>1, <2>2, <2>3 DEF BulletsOK
<1>11. ASSUME NEW v \in Vampires, NEW how \in Reads, Get(v, how)
       PROVE  BulletsOK'
  <2> DEFINE Got == [bullet : DOMAIN calls, how : Reads]
  <2>1. PICK n \in body[v] :
          /\ body' = [body EXCEPT ![v] = @ \ {n}]
          /\ \/ got' = [got EXCEPT ![v] = Append(@, [bullet |-> n, how |-> how])] /\ lost' = lost
             \/ lost' = lost \cup {n} /\ got' = got
    BY <1>11 DEF Get
  <2>2. n \in DOMAIN calls /\ [bullet |-> n, how |-> how] \in Got
    BY DEF BulletsOK
  <2>3. got \in [Vampires -> Seq(Got)]
    BY DEF BulletsOK
  <2> HIDE DEF Got
  <2>a. Append(got[v], [bullet |-> n, how |-> how]) \in Seq(Got)
    BY <2>2, <2>3
  <2>4. got' \in [Vampires -> Seq(Got)]
    BY <2>1, <2>3, <2>a
  <2>b. lost' \subseteq DOMAIN calls
    BY <2>1, <2>2 DEF BulletsOK
  <2>5. UNCHANGED <<calls, out>> /\ body' \in [Vampires -> SUBSET DOMAIN calls]
    BY <1>11, <2>1 DEF Get, rifle, BulletsOK
  <2>6. QED
    BY <2>4, <2>b, <2>5 DEF BulletsOK, Got
<1>12. QED
  BY <1>1, <1>2, <1>3, <1>4, <1>5, <1>6, <1>7, <1>8, <1>9, <1>10, <1>11
     DEF Next, RifleStep, VampireStep

-----------------------------------------------------------------------------
(* Strings that are not copied *)

AllPipes == Rifles \X Vampires

\* A bullet is in one pipe at most, once, and only after its call succeeded.
OnceInRifle ==
  /\ \A p \in AllPipes : \A i, j \in DOMAIN out[p] : i # j => out[p][i] # out[p][j]
  /\ \A p, q \in AllPipes : p # q => Range(out[p]) \cap Range(out[q]) = {}
  /\ \A p \in AllPipes : \A n \in Range(out[p]) : calls[n].status = "true"

FreedSeq == freed \in Seq({0, 1}) /\ Len(freed) = Len(calls)

IInv == EndsOK /\ BulletsOK /\ FreedSeq /\ OnceInRifle /\ FreedOnce

\* The string of bullet n should have been freed.
Due(n) == ZeroCopy(n) /\ Returned(n) /\ n \notin InRifle

LEMMA InRifleFacts ==
  ASSUME BulletsOK
  PROVE  /\ \A n : n \in InRifle <=> \E p \in AllPipes : n \in Range(out[p])
         /\ InRifle \subseteq DOMAIN calls
<1>1. \A n : n \in InRifle <=> \E p \in AllPipes : n \in Range(out[p])
  BY DEF InRifle, AllPipes, BulletsOK
<1>2. \A p \in AllPipes : Range(out[p]) \subseteq DOMAIN calls
  BY RangeOfSeq DEF BulletsOK, AllPipes
<1>3. QED
  BY <1>1, <1>2

\* What a call to free has to do, to keep FreedOnce.
LEMMA FreeWhatIsDue ==
  ASSUME BulletsOK, FreedSeq, FreedOnce, NEW D,
         DOMAIN calls' = DOMAIN calls, Len(calls') = Len(calls),
         freed' = Free(D),
         \A n \in DOMAIN calls : Due(n)' <=> Due(n) \/ (n \in D /\ ZeroCopy(n)),
         \A n \in D : ~Due(n)
  PROVE  FreedSeq' /\ FreedOnce'
<1>1. /\ DOMAIN freed = DOMAIN calls /\ DOMAIN freed = 1..Len(freed)
      /\ \A n \in DOMAIN calls : freed[n] = IF Due(n) THEN 1 ELSE 0
  BY DEF FreedSeq, FreedOnce, Due, BulletsOK
<1>2. freed' = [n \in 1..Len(freed) |-> IF n \in D /\ ZeroCopy(n) THEN freed[n] + 1 ELSE freed[n]]
  BY <1>1 DEF Free
<1>3. ASSUME NEW n \in DOMAIN calls
      PROVE  freed'[n] = IF Due(n)' THEN 1 ELSE 0
  BY <1>1, <1>2, <1>3
<1>4. FreedOnce'
  BY <1>3 DEF FreedOnce, Due
<1>5. \A n \in 1..Len(freed) : freed'[n] \in {0, 1}
  BY <1>1, <1>3
<1>6. freed' \in Seq({0, 1}) /\ Len(freed') = Len(freed)
  BY <1>2, <1>5 DEF FreedSeq
<1>7. QED
  BY <1>4, <1>6 DEF FreedSeq

\* When nothing is freed, nothing new may be due.
LEMMA NothingIsDue ==
  ASSUME FreedSeq, FreedOnce, UNCHANGED freed,
         DOMAIN calls' = DOMAIN calls, Len(calls') = Len(calls),
         \A n \in DOMAIN calls : Due(n)' <=> Due(n)
  PROVE  FreedSeq' /\ FreedOnce'
<1>1. \A n \in DOMAIN calls : freed[n] = IF Due(n) THEN 1 ELSE 0
  BY DEF FreedOnce, Due
<1>2. \A n \in DOMAIN calls' : freed'[n] = IF Due(n)' THEN 1 ELSE 0
  BY <1>1
<1>3. FreedOnce'
  BY <1>2 DEF FreedOnce, Due
<1>4. QED
  BY <1>3 DEF FreedSeq

\* A call begins.
LEMMA FireFrees ==
  ASSUME IInv, BulletsOK', NEW r \in Rifles, NEW b \in Bullets, Fire(r, b)
  PROVE  FreedSeq' /\ OnceInRifle' /\ FreedOnce'
<1> USE DEF IInv
<1>a. PICK new : new = Len(calls) + 1
  OBVIOUS
<1>b. PICK refused \in BOOLEAN : refused = (r \notin aimed \/ b.bytes = 0)
  OBVIOUS
<1>c. PICK owed : owed = IF refused /\ b.op = "FireZeroCopy" THEN 1 ELSE 0
  OBVIOUS
<1>1. /\ calls' = Append(calls, [by |-> r, aim |-> aims[r], bullet |-> b,
                                 status |-> IF refused THEN "false" ELSE "polling"])
      /\ freed' = Append(freed, owed)
      /\ out' = out
  BY <1>b, <1>c DEF Fire
<1>2. /\ calls \in Seq(Call) /\ Len(calls') = Len(calls) + 1
      /\ DOMAIN calls' = DOMAIN calls \cup {new} /\ new \notin DOMAIN calls
      /\ \A n \in DOMAIN calls : calls'[n] = calls[n]
      /\ calls'[new].bullet = b
      /\ calls'[new].status = IF refused THEN "false" ELSE "polling"
  BY <1>1, <1>a DEF BulletsOK
<1>3. /\ freed' \in Seq({0, 1}) /\ Len(freed') = Len(calls')
      /\ \A n \in DOMAIN calls : freed'[n] = freed[n]
      /\ freed'[new] = owed
  BY <1>1, <1>2, <1>a, <1>c DEF FreedSeq
<1>4. InRifle' = InRifle /\ InRifle \subseteq DOMAIN calls
  BY <1>1, InRifleFacts DEF InRifle
<1>5. \A p \in AllPipes : Range(out[p]) \subseteq DOMAIN calls
  BY RangeOfSeq DEF BulletsOK, AllPipes
<1>6. OnceInRifle'
  <2>1. \A p \in AllPipes : \A n \in Range(out'[p]) : calls'[n].status = "true"
    BY <1>1, <1>2, <1>5 DEF OnceInRifle
  <2>2. QED
    BY ZenonT(30), <1>1, <2>1 DEF OnceInRifle
<1>7. \A n \in DOMAIN calls : Due(n)' <=> Due(n)
  BY <1>2, <1>4 DEF Due, ZeroCopy, Returned
<1>8. owed = IF Due(new)' THEN 1 ELSE 0
  <2>1. new \notin InRifle'
    BY <1>2, <1>4
  <2>2. ZeroCopy(new)' <=> b.op = "FireZeroCopy"
    BY <1>2 DEF ZeroCopy
  <2>3. Returned(new)' <=> refused
    BY <1>2 DEF Returned
  <2>4. QED
    BY <1>c, <2>1, <2>2, <2>3 DEF Due
<1>9. FreedOnce'
  <2>1. \A n \in DOMAIN calls : freed[n] = IF Due(n) THEN 1 ELSE 0
    BY DEF FreedOnce, Due
  <2>2. \A n \in DOMAIN calls' : freed'[n] = IF Due(n)' THEN 1 ELSE 0
    BY <1>2, <1>3, <1>7, <1>8, <2>1
  <2>3. QED
    BY <2>2 DEF FreedOnce, Due
<1>10. QED
  BY <1>3, <1>6, <1>9 DEF FreedSeq

\* A call goes on or fails.
LEMMA CallFrees ==
  ASSUME IInv, NEW n \in DOMAIN calls,
         PollReady(n) \/ PollFails(n) \/ SendFails(n) \/ Interrupt(n)
  PROVE  FreedSeq' /\ OnceInRifle' /\ FreedOnce'
<1> USE DEF IInv
<1>1. PICK status \in {"ready", "false"} :
        /\ calls' = [calls EXCEPT ![n].status = status]
        /\ calls[n].status \in {"polling", "ready"}
        /\ out' = out
        /\ status = "ready" => freed' = freed
        /\ status = "false" => freed' = Free({n})
  BY DEF PollReady, PollFails, SendFails, Interrupt, Fails
<1>2. /\ DOMAIN calls' = DOMAIN calls /\ Len(calls') = Len(calls)
      /\ \A m \in DOMAIN calls : calls'[m].bullet = calls[m].bullet
      /\ \A m \in DOMAIN calls \ {n} : calls'[m] = calls[m]
      /\ calls'[n].status = status
  <2>1. status \in Status
    BY DEF Status
  <2>2. Len(calls') = Len(calls)
    BY <1>1 DEF BulletsOK
  <2>3. BulletsOK /\ calls' = [calls EXCEPT ![n].status = status]
    BY <1>1
  <2>4. QED
    BY <2>1, <2>2, <2>3, StatusSet
<1>3. InRifle' = InRifle
  BY <1>1 DEF InRifle
<1>4. n \notin InRifle
  BY <1>1, InRifleFacts DEF OnceInRifle
<1>5. OnceInRifle'
  <2>1. \A p \in AllPipes : Range(out[p]) \subseteq DOMAIN calls \ {n}
    BY <1>4, InRifleFacts
  <2>2. QED
    BY SMTT(20), <1>1, <1>2, <2>1 DEF OnceInRifle
<1>6. ~Due(n) /\ \A m \in DOMAIN calls \ {n} : Due(m)' <=> Due(m)
  BY <1>1, <1>2, <1>3 DEF Due, ZeroCopy, Returned
<1>7. CASE status = "ready"
  <2>1. ~Due(n)'
    BY <1>2, <1>7 DEF Due, Returned
  <2>2. QED
    BY <1>1, <1>2, <1>5, <1>6, <1>7, <2>1, NothingIsDue
<1>8. CASE status = "false"
  <2>1. Due(n)' <=> ZeroCopy(n)
    BY <1>2, <1>3, <1>4, <1>8 DEF Due, Returned, ZeroCopy
  <2>2. QED
    BY <1>1, <1>2, <1>5, <1>6, <1>8, <2>1, FreeWhatIsDue
<1>9. QED
  BY <1>7, <1>8

\* A bullet gets into a pipe.
LEMMA SendFrees ==
  ASSUME IInv, BulletsOK', NEW n \in DOMAIN calls, Send(n)
  PROVE  /\ FreedSeq' /\ OnceInRifle' /\ FreedOnce'
         /\ n \notin InRifle /\ InRifle' = InRifle \cup {n}
<1> USE DEF IInv
<1>1. PICK p \in Writable(calls[n].by) : out' = [out EXCEPT ![p] = Append(@, n)]
  BY DEF Send
<1>2. p \in AllPipes /\ out[p] \in Seq(DOMAIN calls) /\ DOMAIN out = AllPipes
  BY <1>1 DEF Writable, EndsOK, AllPipes, BulletsOK
<1>3. /\ calls' = [calls EXCEPT ![n].status = "true"] /\ UNCHANGED freed
      /\ calls[n].status = "ready"
  BY DEF Send
<1>4. /\ DOMAIN calls' = DOMAIN calls /\ Len(calls') = Len(calls)
      /\ \A m \in DOMAIN calls : calls'[m].bullet = calls[m].bullet
      /\ \A m \in DOMAIN calls \ {n} : calls'[m] = calls[m]
      /\ calls'[n].status = "true"
  <2>1. "true" \in Status
    BY DEF Status
  <2>2. Len(calls') = Len(calls)
    BY <1>3 DEF BulletsOK
  <2>3. QED
    BY <1>3, <2>1, <2>2, StatusSet
<1>5. n \notin InRifle
  BY <1>3, InRifleFacts DEF OnceInRifle
<1>6. /\ DOMAIN out'[p] = DOMAIN out[p] \cup {Len(out[p]) + 1}
      /\ \A i \in DOMAIN out[p] : out'[p][i] = out[p][i]
      /\ out'[p][Len(out[p]) + 1] = n
      /\ Len(out[p]) + 1 \notin DOMAIN out[p]
      /\ \A q \in AllPipes \ {p} : out'[q] = out[q]
  BY <1>1, <1>2
<1>7. Range(out'[p]) = Range(out[p]) \cup {n}
  BY <1>6 DEF Range
<1>8. \A m : m \in InRifle' <=> m \in InRifle \/ m = n
  <2>1. \A m : m \in InRifle' <=> \E q \in AllPipes : m \in Range(out'[q])
    BY <1>1, <1>2 DEF InRifle
  <2>2. QED
    BY <1>2, <1>6, <1>7, <2>1, InRifleFacts
<1>9. OnceInRifle'
  <2>1. \A i \in DOMAIN out[p] : out[p][i] \in InRifle
    BY <1>2, InRifleFacts DEF Range
  <2>2. \A i, j \in DOMAIN out'[p] : i # j => out'[p][i] # out'[p][j]
    BY <1>2, <1>5, <1>6, <2>1 DEF OnceInRifle
  <2>3. \A q \in AllPipes : n \notin Range(out[q]) /\ Range(out[q]) \subseteq DOMAIN calls
    BY <1>5, InRifleFacts
  <2>4. \A q, s \in AllPipes : q # s => Range(out'[q]) \cap Range(out'[s]) = {}
    BY <1>6, <1>7, <2>3 DEF OnceInRifle
  <2>5. \A q \in AllPipes : \A m \in Range(out'[q]) : calls'[m].status = "true"
    BY <1>4, <1>6, <1>7, <2>3 DEF OnceInRifle
  <2>6. \A q \in AllPipes \ {p} : \A i, j \in DOMAIN out'[q] : i # j => out'[q][i] # out'[q][j]
    BY <1>6 DEF OnceInRifle
  <2>7. QED
    BY <2>2, <2>4, <2>5, <2>6 DEF OnceInRifle
<1>10. \A m \in DOMAIN calls : Due(m)' <=> Due(m)
  BY <1>3, <1>4, <1>5, <1>8 DEF Due, ZeroCopy, Returned
<1>11. QED
  BY <1>3, <1>4, <1>5, <1>8, <1>9, <1>10, NothingIsDue

\* Pipes are cut, and what is in them is dropped.
LEMMA CutFrees ==
  ASSUME IInv, NEW gone \in SUBSET AllPipes, UNCHANGED calls,
         out' = [p \in DOMAIN out |-> IF p \in gone THEN <<>> ELSE out[p]],
         freed' = Free(Dropped(gone))
  PROVE  /\ FreedSeq' /\ OnceInRifle' /\ FreedOnce'
         /\ Dropped(gone) \subseteq InRifle /\ InRifle' = InRifle \ Dropped(gone)
<1> USE DEF IInv
<1>1. /\ DOMAIN out = AllPipes /\ DOMAIN out' = AllPipes
      /\ \A p \in AllPipes : out'[p] = IF p \in gone THEN <<>> ELSE out[p]
  BY DEF BulletsOK, AllPipes
<1>2. \A p \in AllPipes : Range(out'[p]) = IF p \in gone THEN {} ELSE Range(out[p])
  BY <1>1 DEF Range
<1>3. OnceInRifle'
  <2>1. \A p \in AllPipes : \A i, j \in DOMAIN out'[p] : i # j => out'[p][i] # out'[p][j]
    BY <1>1 DEF OnceInRifle
  <2>2. QED
    BY SMTT(20), <1>2, <2>1 DEF OnceInRifle
<1>4. \A n : n \in Dropped(gone) <=> \E p \in gone : n \in Range(out[p])
  BY DEF Dropped
<1>5. \A n : n \in InRifle' <=> \E p \in AllPipes : n \in Range(out'[p])
  BY <1>1 DEF InRifle
<1>6. \A n : n \in InRifle' <=> n \in InRifle \ Dropped(gone)
  <2>1. ASSUME NEW p \in AllPipes \ gone, NEW n \in Range(out[p])
        PROVE  n \notin Dropped(gone)
    BY <1>4 DEF OnceInRifle
  <2>2. QED
    BY <1>2, <1>4, <1>5, <2>1, InRifleFacts
<1>7. \A n \in Dropped(gone) : n \in InRifle /\ Returned(n)
  BY <1>4, InRifleFacts DEF OnceInRifle, Returned
<1>8. \A n \in DOMAIN calls : Due(n)' <=> Due(n) \/ (n \in Dropped(gone) /\ ZeroCopy(n))
  BY <1>6, <1>7 DEF Due, ZeroCopy, Returned
<1>9. \A n \in Dropped(gone) : ~Due(n)
  BY <1>7 DEF Due
<1>10. QED
  BY <1>3, <1>6, <1>7, <1>8, <1>9, FreeWhatIsDue

\* A bullet leaves the Rifle.
LEMMA TransferFrees ==
  ASSUME IInv, NEW r \in Rifles, NEW v \in Vampires, Transfer(r, v)
  PROVE  /\ FreedSeq' /\ OnceInRifle' /\ FreedOnce'
         /\ Head(out[r, v]) \in InRifle /\ InRifle' = InRifle \ {Head(out[r, v])}
<1> USE DEF IInv
<1>1. PICK p \in AllPipes : p = <<r, v>>
  BY DEF AllPipes
<1>2. PICK n : n = Head(out[p])
  OBVIOUS
<1>3. /\ UNCHANGED calls /\ freed' = Free({n})
      /\ out' = [out EXCEPT ![p] = Tail(@)]
      /\ out[p] # <<>>
  BY <1>1, <1>2 DEF Transfer, rifle
<1>4. out[p] \in Seq(DOMAIN calls) /\ DOMAIN out = AllPipes /\ DOMAIN out' = AllPipes
  BY <1>3 DEF BulletsOK, AllPipes
<1>5. /\ DOMAIN out'[p] = {i \in Nat : i + 1 \in DOMAIN out[p] /\ i >= 1}
      /\ \A i \in DOMAIN out'[p] : out'[p][i] = out[p][i + 1]
      /\ n = out[p][1] /\ 1 \in DOMAIN out[p]
      /\ \A q \in AllPipes \ {p} : out'[q] = out[q]
  BY <1>2, <1>3, <1>4
<1>6. \A i \in DOMAIN out[p] : i = 1 \/ (i - 1 \in DOMAIN out'[p] /\ out'[p][i - 1] = out[p][i])
  BY <1>4, <1>5
<1>7. \A i, j \in DOMAIN out[p] : i # j => out[p][i] # out[p][j]
  BY DEF OnceInRifle
<1>8. \A i \in DOMAIN out'[p] : i + 1 \in DOMAIN out[p] /\ i + 1 # 1 /\ out'[p][i] = out[p][i + 1]
  BY <1>5
<1>9. Range(out'[p]) = Range(out[p]) \ {n} /\ n \in Range(out[p])
  BY <1>5, <1>6, <1>7, <1>8 DEF Range
<1>10. \A q \in AllPipes : Range(out'[q]) = Range(out[q]) \ {n}
  <2>1. \A q \in AllPipes \ {p} : n \notin Range(out[q])
    BY <1>9 DEF OnceInRifle
  <2>2. QED
    BY <1>5, <1>9, <2>1
<1>11. OnceInRifle'
  <2>1. \A q \in AllPipes \ {p} : \A i, j \in DOMAIN out'[q] : i # j => out'[q][i] # out'[q][j]
    BY <1>5 DEF OnceInRifle
  <2>2. \A i, j \in DOMAIN out'[p] : i # j => out'[p][i] # out'[p][j]
    <3>1. SUFFICES ASSUME NEW i \in DOMAIN out'[p], NEW j \in DOMAIN out'[p], i # j
                   PROVE  out'[p][i] # out'[p][j]
      OBVIOUS
    <3>2. i \in Nat /\ j \in Nat
      BY <1>5
    <3>3. i + 1 # j + 1 /\ i + 1 \in DOMAIN out[p] /\ j + 1 \in DOMAIN out[p]
      BY <1>8, <3>1, <3>2
    <3>4. out[p][i + 1] # out[p][j + 1]
      BY <1>7, <3>3
    <3>5. QED
      BY <1>8, <3>4
  <2>3. \A q, s \in AllPipes : q # s => Range(out'[q]) \cap Range(out'[s]) = {}
    BY <1>10 DEF OnceInRifle
  <2>4. \A q \in AllPipes : \A m \in Range(out'[q]) : calls'[m].status = "true"
    BY <1>3, <1>10 DEF OnceInRifle
  <2>5. QED
    BY <2>1, <2>2, <2>3, <2>4 DEF OnceInRifle
<1>12. \A m : m \in InRifle' <=> m \in InRifle \ {n}
  <2>1. \A m : m \in InRifle' <=> \E q \in AllPipes : m \in Range(out'[q])
    BY <1>4 DEF InRifle
  <2>2. QED
    BY <1>10, <2>1, InRifleFacts
<1>13. n \in InRifle /\ Returned(n) /\ n \in DOMAIN calls
  BY <1>9, InRifleFacts DEF OnceInRifle, Returned
<1>14. \A m \in DOMAIN calls : Due(m)' <=> Due(m) \/ (m \in {n} /\ ZeroCopy(m))
  BY <1>3, <1>12, <1>13 DEF Due, ZeroCopy, Returned
<1>15. \A m \in {n} : ~Due(m)
  BY <1>13 DEF Due
<1>16. QED
  BY <1>1, <1>2, <1>3, <1>11, <1>12, <1>13, <1>14, <1>15, FreeWhatIsDue

\* The other steps touch neither calls nor pipes.
LEMMA RestFrees ==
  ASSUME IInv, UNCHANGED <<calls, out, freed>>
  PROVE  FreedSeq' /\ OnceInRifle' /\ FreedOnce'
<1>1. FreedSeq' /\ OnceInRifle'
  BY DEF IInv, FreedSeq, OnceInRifle
<1>2. InRifle' = InRifle
  BY DEF InRifle
<1>3. FreedOnce'
  BY <1>2 DEF IInv, FreedOnce, ZeroCopy, Returned
<1>4. QED
  BY <1>1, <1>3

LEMMA StepKeepsIInv ==
  ASSUME IInv, [Next]_vars
  PROVE  IInv'
<1>1. EndsOK' /\ BulletsOK'
  BY EndsTypes, BulletsTypes DEF IInv
<1>2. ASSUME UNCHANGED vars
      PROVE  FreedSeq' /\ OnceInRifle' /\ FreedOnce'
  <2>1. UNCHANGED <<calls, out, freed>>
    BY <1>2 DEF vars, rifle
  <2>2. QED
    BY <2>1, RestFrees
<1>3. ASSUME NEW r \in Rifles, NEW b \in Bullets, Fire(r, b)
      PROVE  FreedSeq' /\ OnceInRifle' /\ FreedOnce'
  BY <1>1, <1>3, FireFrees
<1>4. ASSUME NEW n \in DOMAIN calls, PollReady(n) \/ PollFails(n) \/ SendFails(n) \/ Interrupt(n)
      PROVE  FreedSeq' /\ OnceInRifle' /\ FreedOnce'
  BY <1>4, CallFrees
<1>5. ASSUME NEW n \in DOMAIN calls, Send(n)
      PROVE  FreedSeq' /\ OnceInRifle' /\ FreedOnce'
  BY <1>1, <1>5, SendFrees
<1>6. ASSUME NEW r \in Rifles, DestroyRifle(r)
      PROVE  FreedSeq' /\ OnceInRifle' /\ FreedOnce'
  <2>1. PICK gone : gone = {p \in pipes : p[1] = r}
    OBVIOUS
  <2>2. gone \in SUBSET AllPipes
    BY <2>1 DEF IInv, EndsOK, AllPipes
  <2>3. /\ out' = [p \in DOMAIN out |-> IF p \in gone THEN <<>> ELSE out[p]]
        /\ freed' = Free(Dropped(gone))
        /\ UNCHANGED calls
    BY <1>6, <2>1 DEF DestroyRifle, DropPipes, Dropped
  <2>4. QED
    BY <2>2, <2>3, CutFrees
<1>7. ASSUME NEW v \in Vampires, DestroyVampire(v)
      PROVE  FreedSeq' /\ OnceInRifle' /\ FreedOnce'
  <2>1. PICK gone : gone = IF owner = "Rifle" THEN {p \in pipes : p[2] = v} ELSE {}
    OBVIOUS
  <2>2. gone \in SUBSET AllPipes
    BY <2>1 DEF IInv, EndsOK, AllPipes
  <2>3. /\ out' = [p \in DOMAIN out |-> IF p \in gone THEN <<>> ELSE out[p]]
        /\ freed' = Free(Dropped(gone))
        /\ UNCHANGED calls
    BY <1>7, <2>1 DEF DestroyVampire, Dropped, rifle
  <2>4. QED
    BY <2>2, <2>3, CutFrees
<1>8. ASSUME NEW r \in Rifles, NEW v \in Vampires, Transfer(r, v)
      PROVE  FreedSeq' /\ OnceInRifle' /\ FreedOnce'
  BY <1>8, TransferFrees
<1>9. ASSUME NEW r, NEW v, NEW how,
             Aim(r) \/ PrepareToBeShot(v) \/ Connect(r, v) \/ Get(v, how)
      PROVE  FreedSeq' /\ OnceInRifle' /\ FreedOnce'
  <2>1. UNCHANGED <<calls, out, freed>>
    BY <1>9 DEF Aim, PrepareToBeShot, Connect, Get, rifle
  <2>2. QED
    BY <2>1, RestFrees
<1>10. FreedSeq' /\ OnceInRifle' /\ FreedOnce'
  BY <1>2, <1>3, <1>4, <1>5, <1>6, <1>7, <1>8, <1>9 DEF Next, RifleStep, VampireStep
<1>11. QED
  BY <1>1, <1>10 DEF IInv

LEMMA StartsWell == Init => IInv
<1> SUFFICES ASSUME Init PROVE IInv
  OBVIOUS
<1> USE DEF Init
<1>1. EndsOK
  BY DEF EndsOK
<1>2. BulletsOK
  <2>1. \A S : <<>> \in Seq(S)
    BY EmptySeq
  <2>2. Len(<<>>) = 0 /\ 0 <= Hwm
    BY Assumptions DEF Assumptions
  <2>3. /\ out \in [Rifles \X Vampires -> Seq(DOMAIN calls)]
        /\ \A p \in Rifles \X Vampires : Len(out[p]) <= Hwm
    BY <2>1, <2>2
  <2>4. got \in [Vampires -> Seq([bullet : DOMAIN calls, how : Reads])]
    BY <2>1
  <2>5. QED
    BY <2>1, <2>3, <2>4 DEF BulletsOK
<1>3. DOMAIN calls = {} /\ \A p \in AllPipes : out[p] = <<>> /\ Range(out[p]) = {}
  BY DEF AllPipes, Range
<1>4. FreedSeq /\ OnceInRifle /\ FreedOnce
  BY <1>3, EmptySeq DEF FreedSeq, OnceInRifle, FreedOnce
<1>5. QED
  BY <1>1, <1>2, <1>4 DEF IInv

LEMMA AlwaysIInv == Spec => []IInv
<1>1. IInv /\ [Next]_vars => IInv'
  BY StepKeepsIInv
<1>2. QED
  BY <1>1, StartsWell, PTL DEF Spec

\* Every variable keeps its type, with any number of Rifles and Vampires, whoever binds.
THEOREM TypeCorrect == Spec => []TypeOK
<1>1. IInv => TypeOK
  <2> SUFFICES ASSUME IInv PROVE FreedOK
    BY TypeParts DEF IInv
  <2>1. freed \in Seq({0, 1}) /\ DOMAIN freed = DOMAIN calls
    BY DEF IInv, FreedSeq, BulletsOK
  <2>2. QED
    BY <2>1 DEF FreedOK
<1>2. QED
  BY <1>1, AlwaysIInv, PTL

\* Whatever a call or a destructor interrupts, a string handed to FireZeroCopy is freed
\* once, at the moment nobody needs it any more.
THEOREM StringsAreFreedOnce == Spec => []FreedOnce
<1>1. IInv => FreedOnce
  BY DEF IInv
<1>2. QED
  BY <1>1, AlwaysIInv, PTL

-----------------------------------------------------------------------------
(* Pointers and pairs *)

\* What a Vampire's call returned has the size the call looks for.
EverythingFits ==
  \A v \in Vampires : \A i \in DOMAIN got[v] :
    Fits(got[v][i].how, calls[got[v][i].bullet].bullet.bytes)

\* A call keeps its bullet.
LEMMA BulletsStay ==
  ASSUME IInv, [Next]_vars
  PROVE  \A n \in DOMAIN calls : n \in DOMAIN calls' /\ calls'[n].bullet = calls[n].bullet
<1>0. calls \in Seq(Call)
  BY DEF IInv, BulletsOK
<1>1. ASSUME NEW r \in Rifles, NEW b \in Bullets, Fire(r, b)
      PROVE  \A n \in DOMAIN calls : n \in DOMAIN calls' /\ calls'[n].bullet = calls[n].bullet
  <2>1. PICK call : calls' = Append(calls, call)
    BY <1>1 DEF Fire
  <2>2. QED
    BY <1>0, <2>1, AppendProperties
<1>2. ASSUME NEW n \in DOMAIN calls,
             PollReady(n) \/ PollFails(n) \/ Send(n) \/ SendFails(n) \/ Interrupt(n)
      PROVE  \A m \in DOMAIN calls : m \in DOMAIN calls' /\ calls'[m].bullet = calls[m].bullet
  <2>1. PICK s \in Status : calls' = [calls EXCEPT ![n].status = s]
    BY <1>2 DEF PollReady, PollFails, Send, SendFails, Interrupt, Fails, Status
  <2>2. calls[n] \in Call
    BY <1>0
  <2>3. [calls[n] EXCEPT !.status = s].bullet = calls[n].bullet
    BY <2>2 DEF Call
  <2>4. QED
    BY <2>1, <2>3
<1>3. ASSUME UNCHANGED calls
      PROVE  \A n \in DOMAIN calls : n \in DOMAIN calls' /\ calls'[n].bullet = calls[n].bullet
  BY <1>3
<1>4. ASSUME NEW r \in Rifles, Aim(r) \/ DestroyRifle(r)
      PROVE  UNCHANGED calls
  BY <1>4 DEF Aim, DestroyRifle
<1>5. ASSUME NEW v \in Vampires, VampireStep(v)
      PROVE  UNCHANGED calls
  BY <1>5 DEF VampireStep, PrepareToBeShot, DestroyVampire, Connect, Transfer, Get, rifle
<1>6. QED
  BY <1>1, <1>2, <1>3, <1>4, <1>5 DEF Next, RifleStep, vars, rifle

\* What a Vampire's call returned was fired.
LEMMA GotWasFired ==
  ASSUME IInv, NEW v \in Vampires, NEW i \in DOMAIN got[v]
  PROVE  got[v][i].bullet \in DOMAIN calls
<1>1. PICK s, D : s = got[v] /\ D = DOMAIN calls /\ s \in Seq([bullet : D, how : Reads])
  BY DEF IInv, BulletsOK
<1>2. s[i] \in [bullet : D, how : Reads]
  <2>1. PICK S : S = [bullet : D, how : Reads]
    OBVIOUS
  <2>2. s \in Seq(S) /\ i \in 1..Len(s)
    BY <1>1, <2>1
  <2>3. s[i] \in S
    BY <2>2, ElementOfSeq
  <2>4. QED
    BY <2>1, <2>3
<1>3. s[i].bullet \in D
  BY <1>2
<1>4. QED
  BY <1>1, <1>3

\* Only Get returns something, and it looks at the size first.
LEMMA StepFits ==
  ASSUME IInv, EverythingFits, [Next]_vars
  PROVE  EverythingFits'
<1>a. got \in [Vampires -> Seq([bullet : DOMAIN calls, how : Reads])]
  BY DEF IInv, BulletsOK
<1>1. ASSUME UNCHANGED got
      PROVE  EverythingFits'
  <2> SUFFICES ASSUME NEW v \in Vampires, NEW i \in DOMAIN got[v]
               PROVE  Fits(got[v][i].how, calls'[got[v][i].bullet].bullet.bytes)
    BY <1>1 DEF EverythingFits
  <2>1. got[v][i].bullet \in DOMAIN calls
    BY GotWasFired
  <2>2. calls'[got[v][i].bullet].bullet = calls[got[v][i].bullet].bullet
    BY <2>1, BulletsStay
  <2>3. QED
    BY <2>2 DEF EverythingFits
<1>2. ASSUME NEW v \in Vampires, NEW how \in Reads, Get(v, how)
      PROVE  EverythingFits'
  <2>1. PICK n \in body[v] :
          \/ got' = got
          \/ /\ Fits(how, calls[n].bullet.bytes)
             /\ got' = [got EXCEPT ![v] = Append(@, [bullet |-> n, how |-> how])]
    BY <1>2 DEF Get
  <2>2. calls' = calls
    BY <1>2 DEF Get, rifle
  <2>3. CASE got' = got
    BY <1>1, <2>3
  <2>4. CASE /\ Fits(how, calls[n].bullet.bytes)
             /\ got' = [got EXCEPT ![v] = Append(@, [bullet |-> n, how |-> how])]
    <3>1. ASSUME NEW w \in Vampires, NEW i \in DOMAIN got'[w]
          PROVE  Fits(got'[w][i].how, calls[got'[w][i].bullet].bullet.bytes)
      <4>1. CASE w # v
        <5>1. got'[w] = got[w]
          BY <1>a, <2>4, <4>1
        <5>2. QED
          BY <3>1, <5>1 DEF EverythingFits
      <4>2. CASE w = v
        <5>1. PICK s, x : s = got[v] /\ x = [bullet |-> n, how |-> how]
          OBVIOUS
        <5>2. got'[w] = Append(s, x)
          BY <1>a, <2>4, <4>2, <5>1
        <5>3. PICK S : s \in Seq(S) /\ x \in S
          <6>1. n \in DOMAIN calls
            BY DEF IInv, BulletsOK
          <6>2. x \in [bullet : DOMAIN calls, how : Reads]
            BY <5>1, <6>1
          <6>3. QED
            BY <1>a, <5>1, <6>2
        <5>4. Append(s, x)[i] = x \/ (i \in DOMAIN s /\ Append(s, x)[i] = s[i])
          <6>1. i \in DOMAIN Append(s, x)
            BY <3>1, <5>2
          <6>2. QED
            BY <5>3, <6>1, AppendProperties
        <5>5. CASE got'[w][i] = x
          BY <2>4, <5>1, <5>5
        <5>6. CASE i \in DOMAIN got[v] /\ got'[w][i] = got[v][i]
          BY <5>6 DEF EverythingFits
        <5>7. QED
          BY <5>1, <5>2, <5>4, <5>5, <5>6
      <4>3. QED
        BY <4>1, <4>2
    <3>2. QED
      BY <2>2, <3>1 DEF EverythingFits
  <2>5. QED
    BY <2>1, <2>3, <2>4
<1>3. ASSUME NEW v \in Vampires,
             PrepareToBeShot(v) \/ DestroyVampire(v) \/ \E r \in Rifles : Connect(r, v) \/ Transfer(r, v)
      PROVE  UNCHANGED got
  BY <1>3 DEF PrepareToBeShot, DestroyVampire, Connect, Transfer
<1>4. RifleStep => UNCHANGED got
  BY DEF RifleStep, Aim, DestroyRifle, Fire, PollReady, PollFails, Send, SendFails, Interrupt, Fails
<1>5. QED
  BY <1>1, <1>2, <1>3, <1>4 DEF Next, VampireStep, vars

\* A pointer is never taken for a pair nor a pair for a pointer, whatever else shares
\* the sockets: the sizes tell them apart.
THEOREM PointersStayPointers == Spec => []PointersKeepTheirKind
<1>1. Init => EverythingFits
  BY DEF Init, EverythingFits
<1>2. IInv /\ EverythingFits /\ [Next]_vars => EverythingFits'
  BY StepFits
<1>3. IInv /\ EverythingFits => PointersKeepTheirKind
  <2> SUFFICES ASSUME IInv, EverythingFits, NEW v \in Vampires, NEW i \in DOMAIN got[v]
               PROVE  LET op == calls[got[v][i].bullet].bullet.op
                      IN /\ got[v][i].how = "GetStake" => op # "FireStakes"
                         /\ got[v][i].how = "GetStakes" => op # "FireStake"
    BY DEF PointersKeepTheirKind
  <2>1. PICK n \in DOMAIN calls : n = got[v][i].bullet
    BY GotWasFired
  <2>2. PICK b \in Bullets : b = calls[n].bullet
    <3>1. calls[n] \in Call
      BY DEF IInv, BulletsOK
    <3>2. QED
      BY <3>1 DEF Call
  <2>3. /\ b.bytes \in Nat
        /\ b.op = "FireStake" => b.bytes \in {0, 8}
        /\ b.op = "FireStakes" => b.bytes % 16 = 0
    BY Assumptions DEF Assumptions, Pointer, Pair
  <2>4. Fits(got[v][i].how, b.bytes)
    BY <2>1, <2>2 DEF EverythingFits
  <2>5. got[v][i].how = "GetStake" => b.bytes = 8
    BY <2>4 DEF Fits, Pointer
  <2>6. got[v][i].how = "GetStakes" => b.bytes >= 16
    BY <2>4 DEF Fits, Pair
  <2>7. 8 % 16 # 0 /\ ~(0 >= 16) /\ ~(8 >= 16)
    OBVIOUS
  <2>8. QED
    BY <2>1, <2>2, <2>3, <2>5, <2>6, <2>7
<1>4. QED
  BY <1>1, <1>2, <1>3, AlwaysIInv, PTL DEF Spec

-----------------------------------------------------------------------------
(* Where the bullets are *)

InVampire == UNION {body[v] : v \in Vampires}
Read == UNION {GotBy(v) : v \in Vampires}

\* A bullet is with a Rifle, with a Vampire, read or lost, not two of them; it is with
\* one Vampire, and one of them has read it; and it is one of them when its call has
\* succeeded.
Apart ==
  /\ InRifle \cap InVampire = {} /\ InRifle \cap Read = {} /\ InRifle \cap lost = {}
  /\ InVampire \cap Read = {} /\ InVampire \cap lost = {} /\ Read \cap lost = {}

OneVampire ==
  \A v, w \in Vampires : v # w => body[v] \cap body[w] = {} /\ GotBy(v) \cap GotBy(w) = {}

Somewhere ==
  \A n \in DOMAIN calls :
    calls[n].status = "true" <=> n \in InRifle \/ n \in InVampire \/ n \in Read \/ n \in lost

PlacesOK == Apart /\ OneVampire /\ Somewhere

\* Only bullets that were fired are anywhere.
LEMMA PlacesAreCalls ==
  ASSUME IInv
  PROVE  /\ InRifle \subseteq DOMAIN calls /\ InVampire \subseteq DOMAIN calls
         /\ Read \subseteq DOMAIN calls /\ lost \subseteq DOMAIN calls
<1>1. InRifle \subseteq DOMAIN calls
  BY InRifleFacts DEF IInv
<1>2. InVampire \subseteq DOMAIN calls /\ lost \subseteq DOMAIN calls
  BY DEF IInv, BulletsOK, InVampire
<1>3. Read \subseteq DOMAIN calls
  BY GotWasFired DEF Read, GotBy
<1>4. QED
  BY <1>1, <1>2, <1>3

\* No bullet moves and no call succeeds.
LEMMA NothingMoves ==
  ASSUME IInv, PlacesOK, UNCHANGED <<out, body, got, lost>>,
         \A n \in DOMAIN calls' :
           calls'[n].status = "true" <=> n \in DOMAIN calls /\ calls[n].status = "true"
  PROVE  PlacesOK'
<1>1. /\ InRifle' = InRifle /\ InVampire' = InVampire /\ Read' = Read /\ lost' = lost
      /\ \A v \in Vampires : GotBy(v)' = GotBy(v)
  BY DEF InRifle, InVampire, Read, GotBy
<1>2. Apart' /\ OneVampire'
  BY <1>1 DEF PlacesOK, Apart, OneVampire
<1>3. Somewhere'
  BY <1>1, PlacesAreCalls DEF PlacesOK, Somewhere
<1>4. QED
  BY <1>2, <1>3 DEF PlacesOK

\* The calls are what they were, and bullets go from one place to the next.
LEMMA BulletsMove ==
  ASSUME PlacesOK, UNCHANGED calls, OneVampire', Apart',
         InRifle' \cup InVampire' \cup Read' \cup lost' = InRifle \cup InVampire \cup Read \cup lost
  PROVE  PlacesOK'
<1>1. Somewhere'
  BY DEF PlacesOK, Somewhere
<1>2. QED
  BY <1>1 DEF PlacesOK

LEMMA FirePlaces ==
  ASSUME IInv, PlacesOK, NEW r \in Rifles, NEW b \in Bullets, Fire(r, b)
  PROVE  PlacesOK'
<1>1. PICK call : calls' = Append(calls, call) /\ call.status # "true"
  BY DEF Fire
<1>2. calls \in Seq(Call)
  BY DEF IInv, BulletsOK
<1>3. /\ DOMAIN calls' = DOMAIN calls \cup {Len(calls) + 1} /\ Len(calls) + 1 \notin DOMAIN calls
      /\ \A n \in DOMAIN calls : calls'[n] = calls[n]
      /\ calls'[Len(calls) + 1] = call
  BY <1>1, <1>2
<1>4. UNCHANGED <<out, body, got, lost>>
  BY DEF Fire
<1>5. QED
  BY <1>1, <1>3, <1>4, NothingMoves

LEMMA CallPlaces ==
  ASSUME IInv, PlacesOK, NEW n \in DOMAIN calls,
         PollReady(n) \/ PollFails(n) \/ SendFails(n) \/ Interrupt(n)
  PROVE  PlacesOK'
<1>1. PICK status \in {"ready", "false"} :
        /\ calls' = [calls EXCEPT ![n].status = status]
        /\ calls[n].status \in {"polling", "ready"}
  BY DEF PollReady, PollFails, SendFails, Interrupt, Fails
<1>2. UNCHANGED <<out, body, got, lost>>
  BY DEF PollReady, PollFails, SendFails, Interrupt, Fails
<1>3. /\ DOMAIN calls' = DOMAIN calls
      /\ \A m \in DOMAIN calls \ {n} : calls'[m] = calls[m]
      /\ calls'[n].status = status
  BY <1>1, StatusSet DEF IInv, Status
<1>4. QED
  BY <1>1, <1>2, <1>3, NothingMoves

LEMMA SendPlaces ==
  ASSUME IInv, PlacesOK, BulletsOK', NEW n \in DOMAIN calls, Send(n)
  PROVE  PlacesOK'
<1>1. InRifle' = InRifle \cup {n}
  BY SendFrees
<1>2. /\ UNCHANGED <<body, got, lost>> /\ calls[n].status = "ready"
      /\ calls' = [calls EXCEPT ![n].status = "true"]
  BY DEF Send
<1>3. /\ InVampire' = InVampire /\ Read' = Read
      /\ \A v \in Vampires : GotBy(v)' = GotBy(v)
  BY <1>2 DEF InVampire, Read, GotBy
<1>4. n \notin InVampire /\ n \notin Read /\ n \notin lost
  BY <1>2 DEF PlacesOK, Somewhere
<1>5. Apart' /\ OneVampire'
  BY <1>1, <1>2, <1>3, <1>4 DEF PlacesOK, Apart, OneVampire
<1>6. /\ DOMAIN calls' = DOMAIN calls
      /\ \A m \in DOMAIN calls \ {n} : calls'[m] = calls[m]
      /\ calls'[n].status = "true"
  BY <1>2, StatusSet DEF IInv, Status
<1>7. Somewhere'
  BY <1>1, <1>2, <1>3, <1>6 DEF PlacesOK, Somewhere
<1>8. QED
  BY <1>5, <1>7 DEF PlacesOK

\* Pipes are cut, and maybe a Vampire goes away with what it received.
LEMMA CutPlaces ==
  ASSUME IInv, PlacesOK, NEW gone \in SUBSET AllPipes, NEW V \in SUBSET Vampires,
         UNCHANGED <<calls, got>>,
         out' = [p \in DOMAIN out |-> IF p \in gone THEN <<>> ELSE out[p]],
         freed' = Free(Dropped(gone)),
         body' = [v \in Vampires |-> IF v \in V THEN {} ELSE body[v]],
         lost' = lost \cup Dropped(gone) \cup UNION {body[v] : v \in V}
  PROVE  PlacesOK'
<1>1. Dropped(gone) \subseteq InRifle /\ InRifle' = InRifle \ Dropped(gone)
  BY CutFrees
<1>2. Read' = Read /\ \A v \in Vampires : GotBy(v)' = GotBy(v)
  BY DEF Read, GotBy
<1>3. PICK taken : taken = UNION {body[v] : v \in V}
  OBVIOUS
<1>4. taken \subseteq InVampire
  BY <1>3 DEF InVampire
<1>5. InVampire' = InVampire \ taken
  <2>1. \A v \in Vampires \ V : body[v] \cap taken = {}
    BY <1>3 DEF PlacesOK, OneVampire
  <2>2. \A n : n \in InVampire' <=> \E v \in Vampires \ V : n \in body[v]
    BY DEF InVampire
  <2>3. \A n : n \in InVampire <=> n \in taken \/ \E v \in Vampires \ V : n \in body[v]
    BY <1>3 DEF InVampire
  <2>4. QED
    BY <2>1, <2>2, <2>3
<1>6. lost' = lost \cup Dropped(gone) \cup taken
  BY <1>3
<1>7. OneVampire'
  BY <1>2 DEF PlacesOK, OneVampire
<1>8. Apart'
  BY <1>1, <1>2, <1>4, <1>5, <1>6 DEF PlacesOK, Apart
<1>9. InRifle' \cup InVampire' \cup Read' \cup lost' = InRifle \cup InVampire \cup Read \cup lost
  BY <1>1, <1>2, <1>4, <1>5, <1>6
<1>10. QED
  BY <1>7, <1>8, <1>9, BulletsMove

LEMMA TransferPlaces ==
  ASSUME IInv, PlacesOK, NEW r \in Rifles, NEW v \in Vampires, Transfer(r, v)
  PROVE  PlacesOK'
<1>1. PICK n : n = Head(out[r, v])
  OBVIOUS
<1>2. n \in InRifle /\ InRifle' = InRifle \ {n}
  BY <1>1, TransferFrees
<1>3. UNCHANGED <<calls, got, lost>> /\ body' = [body EXCEPT ![v] = @ \cup {n}]
  BY <1>1 DEF Transfer, rifle
<1>4. Read' = Read /\ \A w \in Vampires : GotBy(w)' = GotBy(w)
  BY <1>3 DEF Read, GotBy
<1>5. body \in [Vampires -> SUBSET DOMAIN calls]
  BY DEF IInv, BulletsOK
<1>6. \A w \in Vampires : body'[w] = IF w = v THEN body[w] \cup {n} ELSE body[w]
  BY <1>3, <1>5
<1>7. InVampire' = InVampire \cup {n}
  BY <1>6 DEF InVampire
<1>8. n \notin InVampire
  BY <1>2 DEF PlacesOK, Apart
<1>9. OneVampire'
  <2>1. \A w \in Vampires : n \notin body[w]
    BY <1>8 DEF InVampire
  <2>2. QED
    <3> SUFFICES ASSUME NEW w \in Vampires, NEW u \in Vampires, w # u
                 PROVE  body'[w] \cap body'[u] = {} /\ GotBy(w)' \cap GotBy(u)' = {}
      BY DEF OneVampire
    <3>1. body[w] \cap body[u] = {} /\ GotBy(w) \cap GotBy(u) = {}
      BY DEF PlacesOK, OneVampire
    <3>2. body'[w] \cap body'[u] = {}
      BY <1>6, <2>1, <3>1
    <3>3. QED
      BY <1>4, <3>1, <3>2
<1>10. Apart'
  BY <1>2, <1>3, <1>4, <1>7, <1>8 DEF PlacesOK, Apart
<1>11. InRifle' \cup InVampire' \cup Read' \cup lost' = InRifle \cup InVampire \cup Read \cup lost
  BY <1>2, <1>3, <1>4, <1>7
<1>12. QED
  BY <1>3, <1>9, <1>10, <1>11, BulletsMove

\* What is added to what a Vampire's calls returned.
LEMMA GotByGrows ==
  ASSUME BulletsOK, NEW v \in Vampires, NEW n \in DOMAIN calls, NEW how \in Reads,
         got' = [got EXCEPT ![v] = Append(@, [bullet |-> n, how |-> how])]
  PROVE  \A w \in Vampires : GotBy(w)' = IF w = v THEN GotBy(w) \cup {n} ELSE GotBy(w)
<1>1. PICK s, x, S : s = got[v] /\ x = [bullet |-> n, how |-> how] /\ s \in Seq(S) /\ x \in S
  <2>1. PICK S : S = [bullet : DOMAIN calls, how : Reads]
    OBVIOUS
  <2>2. got[v] \in Seq(S)
    BY <2>1 DEF BulletsOK
  <2>3. [bullet |-> n, how |-> how] \in S
    BY <2>1
  <2>4. QED
    BY <2>2, <2>3
<1>2. got'[v] = Append(s, x) /\ \A w \in Vampires \ {v} : got'[w] = got[w]
  BY <1>1 DEF BulletsOK
<1>3. \A w \in Vampires \ {v} : GotBy(w)' = GotBy(w)
  BY <1>2 DEF GotBy
<1>4. /\ DOMAIN Append(s, x) = DOMAIN s \cup {Len(s) + 1}
      /\ \A i \in DOMAIN s : Append(s, x)[i] = s[i] /\ i # Len(s) + 1
      /\ Append(s, x)[Len(s) + 1] = x
  BY <1>1
<1>5. GotBy(v)' = GotBy(v) \cup {n}
  <2>1. PICK t : t = got'[v]
    OBVIOUS
  <2>2. /\ DOMAIN t = DOMAIN s \cup {Len(s) + 1}
        /\ \A i \in DOMAIN s : t[i] = s[i]
        /\ t[Len(s) + 1] = x
    BY <1>2, <1>4, <2>1
  <2>3. {t[i].bullet : i \in DOMAIN t} = {s[i].bullet : i \in DOMAIN s} \cup {x.bullet}
    BY <2>2
  <2>4. QED
    BY <1>1, <2>1, <2>3 DEF GotBy
<1>6. QED
  BY <1>3, <1>5

LEMMA GetPlaces ==
  ASSUME IInv, PlacesOK, NEW v \in Vampires, NEW how \in Reads, Get(v, how)
  PROVE  PlacesOK'
<1>1. PICK n \in body[v] :
        /\ body' = [body EXCEPT ![v] = @ \ {n}]
        /\ \/ /\ got' = [got EXCEPT ![v] = Append(@, [bullet |-> n, how |-> how])] /\ lost' = lost
           \/ lost' = lost \cup {n} /\ got' = got
  BY DEF Get
<1>2. UNCHANGED <<calls, out>>
  BY DEF Get, rifle
<1>3. body \in [Vampires -> SUBSET DOMAIN calls] /\ n \in DOMAIN calls /\ BulletsOK
  BY DEF IInv, BulletsOK
<1>4. \A w \in Vampires : body'[w] = IF w = v THEN body[w] \ {n} ELSE body[w]
  BY <1>1, <1>3
<1>5. n \in InVampire /\ InVampire' = InVampire \ {n} /\ InRifle' = InRifle
  <2>1. \A w \in Vampires \ {v} : n \notin body[w]
    BY DEF PlacesOK, OneVampire
  <2>2. \A m : m \in InVampire' <=> \E w \in Vampires : m \in body[w] /\ m # n
    BY <1>4, <2>1 DEF InVampire
  <2>3. \A m : m \in InVampire <=> \E w \in Vampires : m \in body[w]
    BY DEF InVampire
  <2>4. QED
    BY <1>2, <2>2, <2>3 DEF InRifle
<1>6. n \notin InRifle /\ n \notin Read /\ n \notin lost
  BY <1>5 DEF PlacesOK, Apart
<1>7. CASE lost' = lost \cup {n} /\ got' = got
  <2>1. Read' = Read /\ \A w \in Vampires : GotBy(w)' = GotBy(w)
    BY <1>7 DEF Read, GotBy
  <2>2. OneVampire'
    BY <1>4, <2>1 DEF PlacesOK, OneVampire
  <2>3. Apart'
    BY <1>5, <1>6, <1>7, <2>1 DEF PlacesOK, Apart
  <2>4. InRifle' \cup InVampire' \cup Read' \cup lost' = InRifle \cup InVampire \cup Read \cup lost
    BY <1>5, <1>7, <2>1
  <2>5. QED
    BY <1>2, <2>2, <2>3, <2>4, BulletsMove
<1>8. CASE /\ got' = [got EXCEPT ![v] = Append(@, [bullet |-> n, how |-> how])]
           /\ lost' = lost
  <2>1. \A w \in Vampires : GotBy(w)' = IF w = v THEN GotBy(w) \cup {n} ELSE GotBy(w)
    BY <1>3, <1>8, GotByGrows
  <2>2. Read' = Read \cup {n}
    BY <2>1 DEF Read
  <2>3. \A w \in Vampires : n \notin GotBy(w)
    BY <1>6 DEF Read
  <2>4. OneVampire'
    <3> SUFFICES ASSUME NEW w \in Vampires, NEW u \in Vampires, w # u
                 PROVE  body'[w] \cap body'[u] = {} /\ GotBy(w)' \cap GotBy(u)' = {}
      BY DEF OneVampire
    <3>1. body[w] \cap body[u] = {} /\ GotBy(w) \cap GotBy(u) = {}
      BY DEF PlacesOK, OneVampire
    <3>2. body'[w] \cap body'[u] = {}
      BY <1>4, <3>1
    <3>3. GotBy(w)' \cap GotBy(u)' = {}
      BY <2>1, <2>3, <3>1
    <3>4. QED
      BY <3>2, <3>3
  <2>5. Apart'
    BY <1>5, <1>6, <1>8, <2>2 DEF PlacesOK, Apart
  <2>6. InRifle' \cup InVampire' \cup Read' \cup lost' = InRifle \cup InVampire \cup Read \cup lost
    BY <1>5, <1>8, <2>2
  <2>7. QED
    BY <1>2, <2>4, <2>5, <2>6, BulletsMove
<1>9. QED
  BY <1>1, <1>7, <1>8

LEMMA StepKeepsPlaces ==
  ASSUME IInv, PlacesOK, [Next]_vars
  PROVE  PlacesOK'
<1>1. BulletsOK'
  BY BulletsTypes DEF IInv
<1>2. ASSUME UNCHANGED <<calls, out, body, got, lost>>
      PROVE  PlacesOK'
  BY <1>2, NothingMoves
<1>3. ASSUME NEW r \in Rifles, NEW b \in Bullets, Fire(r, b)
      PROVE  PlacesOK'
  BY <1>3, FirePlaces
<1>4. ASSUME NEW n \in DOMAIN calls, PollReady(n) \/ PollFails(n) \/ SendFails(n) \/ Interrupt(n)
      PROVE  PlacesOK'
  BY <1>4, CallPlaces
<1>5. ASSUME NEW n \in DOMAIN calls, Send(n)
      PROVE  PlacesOK'
  BY <1>1, <1>5, SendPlaces
<1>6. ASSUME NEW r \in Rifles, DestroyRifle(r)
      PROVE  PlacesOK'
  <2>1. PICK gone : gone = {p \in pipes : p[1] = r}
    OBVIOUS
  <2>2. gone \in SUBSET AllPipes
    BY <2>1 DEF IInv, EndsOK, AllPipes
  <2>3. /\ out' = [p \in DOMAIN out |-> IF p \in gone THEN <<>> ELSE out[p]]
        /\ freed' = Free(Dropped(gone))
        /\ lost' = lost \cup Dropped(gone)
        /\ UNCHANGED <<calls, body, got>>
    BY <1>6, <2>1 DEF DestroyRifle, DropPipes, Dropped
  <2>4. body' = [v \in Vampires |-> IF v \in {} THEN {} ELSE body[v]]
    BY <2>3 DEF IInv, BulletsOK
  <2>5. UNION {body[v] : v \in {}} = {}
    OBVIOUS
  <2>6. QED
    BY <2>2, <2>3, <2>4, <2>5, CutPlaces
<1>7. ASSUME NEW v \in Vampires, DestroyVampire(v)
      PROVE  PlacesOK'
  <2>1. PICK gone : gone = IF owner = "Rifle" THEN {p \in pipes : p[2] = v} ELSE {}
    OBVIOUS
  <2>2. gone \in SUBSET AllPipes
    BY <2>1 DEF IInv, EndsOK, AllPipes
  <2>3. /\ out' = [p \in DOMAIN out |-> IF p \in gone THEN <<>> ELSE out[p]]
        /\ freed' = Free(Dropped(gone))
        /\ lost' = lost \cup Dropped(gone) \cup body[v]
        /\ body' = [body EXCEPT ![v] = {}]
        /\ UNCHANGED <<calls, got>>
    BY <1>7, <2>1 DEF DestroyVampire, Dropped, rifle
  <2>4. body' = [w \in Vampires |-> IF w \in {v} THEN {} ELSE body[w]]
    BY <2>3 DEF IInv, BulletsOK
  <2>5. UNION {body[w] : w \in {v}} = body[v]
    OBVIOUS
  <2>6. QED
    BY <2>2, <2>3, <2>4, <2>5, CutPlaces
<1>8. ASSUME NEW r \in Rifles, NEW v \in Vampires, Transfer(r, v)
      PROVE  PlacesOK'
  BY <1>8, TransferPlaces
<1>9. ASSUME NEW v \in Vampires, NEW how \in Reads, Get(v, how)
      PROVE  PlacesOK'
  BY <1>9, GetPlaces
<1>10. ASSUME NEW r, NEW v, Aim(r) \/ PrepareToBeShot(v) \/ Connect(r, v)
       PROVE  UNCHANGED <<calls, out, body, got, lost>>
  BY <1>10 DEF Aim, PrepareToBeShot, Connect, rifle
<1>11. QED
  BY <1>2, <1>3, <1>4, <1>5, <1>6, <1>7, <1>8, <1>9, <1>10
     DEF Next, RifleStep, VampireStep, vars, rifle

LEMMA AtMostOne ==
  ASSUME NEW T, \A x, y \in T : x = y
  PROVE  Cardinality(T) = IF T = {} THEN 0 ELSE 1
<1>1. CASE T = {}
  BY <1>1, FS_EmptySet
<1>2. CASE T # {}
  <2>1. PICK x \in T : TRUE
    BY <1>2
  <2>2. T = {x}
    BY <2>1
  <2>3. QED
    BY <1>2, <2>2, FS_Singleton
<1>3. QED
  BY <1>1, <1>2

\* However Rifles and Vampires come and go: a bullet that was fired with success is in
\* one Rifle, in one Vampire, read once or lost, and one that was not is nowhere.
THEOREM BulletsAreAccounted == Spec => []Accounted
<1>1. Init => PlacesOK
  <2> SUFFICES ASSUME Init PROVE PlacesOK
    OBVIOUS
  <2>1. /\ \A v \in Vampires : body[v] = {} /\ GotBy(v) = {}
        /\ \A p \in DOMAIN out : Range(out[p]) = {}
        /\ DOMAIN calls = {} /\ lost = {}
    BY DEF Init, GotBy, Range
  <2>2. InRifle = {} /\ InVampire = {} /\ Read = {}
    BY <2>1 DEF InRifle, InVampire, Read
  <2>3. QED
    BY <2>1, <2>2 DEF PlacesOK, Apart, OneVampire, Somewhere
<1>2. IInv /\ PlacesOK /\ [Next]_vars => PlacesOK'
  BY StepKeepsPlaces
<1>3. IInv /\ PlacesOK => Accounted
  <2> SUFFICES ASSUME IInv, PlacesOK, NEW n \in DOMAIN calls
               PROVE  LET toSend == {p \in DOMAIN out : n \in Range(out[p])}
                          toRead == {v \in Vampires : n \in body[v]}
                          readBy == {v \in Vampires : n \in GotBy(v)}
                      IN Cardinality(toSend) + Cardinality(toRead) + Cardinality(readBy)
                           + Cardinality({n} \cap lost)
                           = IF calls[n].status = "true" THEN 1 ELSE 0
    BY DEF Accounted
  <2>1. PICK toSend : toSend = {p \in DOMAIN out : n \in Range(out[p])}
    OBVIOUS
  <2>2. PICK toRead : toRead = {v \in Vampires : n \in body[v]}
    OBVIOUS
  <2>3. PICK readBy : readBy = {v \in Vampires : n \in GotBy(v)}
    OBVIOUS
  <2>4. PICK dropped : dropped = {n} \cap lost
    OBVIOUS
  <2>5. Cardinality(toSend) = IF n \in InRifle THEN 1 ELSE 0
    <3>1. DOMAIN out = AllPipes
      BY DEF IInv, BulletsOK, AllPipes
    <3>2. \A p, q \in toSend : p = q
      BY <2>1, <3>1 DEF IInv, OnceInRifle
    <3>3. toSend # {} <=> n \in InRifle
      BY <2>1 DEF InRifle
    <3>4. QED
      BY <3>2, <3>3, AtMostOne
  <2>6. Cardinality(toRead) = IF n \in InVampire THEN 1 ELSE 0
    <3>1. \A v, w \in toRead : v = w
      BY <2>2 DEF PlacesOK, OneVampire
    <3>2. toRead # {} <=> n \in InVampire
      BY <2>2 DEF InVampire
    <3>3. QED
      BY <3>1, <3>2, AtMostOne
  <2>7. Cardinality(readBy) = IF n \in Read THEN 1 ELSE 0
    <3>1. \A v, w \in readBy : v = w
      BY <2>3 DEF PlacesOK, OneVampire
    <3>2. readBy # {} <=> n \in Read
      BY <2>3 DEF Read
    <3>3. QED
      BY <3>1, <3>2, AtMostOne
  <2>8. Cardinality(dropped) = IF n \in lost THEN 1 ELSE 0
    <3>1. (\A v, w \in dropped : v = w) /\ (dropped # {} <=> n \in lost)
      BY <2>4
    <3>2. QED
      BY <3>1, AtMostOne
  <2>9. /\ n \in InRifle => n \notin InVampire /\ n \notin Read /\ n \notin lost
        /\ n \in InVampire => n \notin Read /\ n \notin lost
        /\ n \in Read => n \notin lost
    BY DEF PlacesOK, Apart
  <2>10. calls[n].status = "true"
           <=> n \in InRifle \/ n \in InVampire \/ n \in Read \/ n \in lost
    BY DEF PlacesOK, Somewhere
  <2>11. Cardinality(toSend) + Cardinality(toRead) + Cardinality(readBy) + Cardinality(dropped)
           = IF calls[n].status = "true" THEN 1 ELSE 0
    BY <2>5, <2>6, <2>7, <2>8, <2>9, <2>10
  <2>12. QED
    BY <2>1, <2>2, <2>3, <2>4, <2>11
<1>4. QED
  BY <1>1, <1>2, <1>3, AlwaysIInv, PTL DEF Spec
=============================================================================
