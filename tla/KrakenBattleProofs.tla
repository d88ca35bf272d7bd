-------------------------- MODULE KrakenBattleProofs --------------------------
(* Proofs about KrakenBattle, for every value of its constants. *)
EXTENDS KrakenBattle, FiniteSetTheorems, SequenceTheorems, WellFoundedInduction, TLAPS

-----------------------------------------------------------------------------
(* Sequences of sequences *)

\* A set with 0 and with the successor of each of its numbers has all of them: else one
\* of the intervals 1..n of the numbers n that it has not would be the smallest.
LEMMA SetInduction ==
  ASSUME NEW S, 0 \in S, \A n \in Nat : n \in S => n + 1 \in S
  PROVE  Nat \subseteq S
<1> DEFINE Bad == {1..n : n \in Nat \ S}
<1>1. SUFFICES ASSUME Bad # {} PROVE FALSE
  OBVIOUS
<1>2. Bad \subseteq FiniteSubsetsOf(Nat)
  <2>1. ASSUME NEW n \in Nat
        PROVE  1..n \in FiniteSubsetsOf(Nat)
    <3>1. IsFiniteSet(1..n)
      BY FS_Interval
    <3>2. QED
      BY <3>1 DEF FiniteSubsetsOf
  <2>2. QED
    BY <2>1
<1>3. PICK x \in Bad : \A y \in Bad : <<y, x>> \notin StrictSubsetOrdering(Nat)
  <2> HIDE DEF Bad
  <2>1. QED
    BY <1>1, <1>2, FS_StrictSubsetOrderingWellFounded, WFMin
<1>4. PICK n \in Nat \ S : x = 1..n
  OBVIOUS
<1>5. n # 0 /\ n - 1 \in Nat /\ (n - 1) + 1 = n
  BY <1>4
<1>6. n - 1 \notin S
  BY <1>5
<1>7. 1..(n - 1) \in Bad
  BY <1>5, <1>6
<1>8. <<1..(n - 1), x>> \in StrictSubsetOrdering(Nat)
  <2>1. 1..(n - 1) \subseteq 1..n /\ n \in 1..n /\ n \notin 1..(n - 1) /\ 1..n \subseteq Nat
    BY <1>5
  <2>2. QED
    BY <1>4, <2>1 DEF StrictSubsetOrdering
<1>9. QED
  BY <1>3, <1>7, <1>8

\* What the local function of FlattenSeq has to satisfy at the places up to n.
Flattens(f, ss, n) ==
  \A j \in 1..n : f[j] = IF j = 1 THEN ss[j] ELSE f[j - 1] \o ss[j]

\* There is such a function.
LEMMA FlatteningExists ==
  ASSUME NEW D, NEW ss \in Seq(Seq(D))
  PROVE  \E f \in [1..Len(ss) -> Seq(D)] : Flattens(f, ss, Len(ss))
<1> DEFINE S == {n \in Nat : n <= Len(ss) => \E f \in [1..n -> Seq(D)] : Flattens(f, ss, n)}
<1>0. Len(ss) \in Nat /\ \A j \in 1..Len(ss) : ss[j] \in Seq(D)
  BY LenProperties, ElementOfSeq
<1>1. 0 \in S
  <2> DEFINE none == [j \in 1..0 |-> <<>>]
  <2>1. none \in [1..0 -> Seq(D)] /\ Flattens(none, ss, 0)
    BY DEF Flattens
  <2>2. QED
    BY <2>1
<1>2. ASSUME NEW n \in Nat, n \in S
      PROVE  n + 1 \in S
  <2>1. SUFFICES ASSUME n + 1 <= Len(ss)
                 PROVE  \E f \in [1..(n + 1) -> Seq(D)] : Flattens(f, ss, n + 1)
    OBVIOUS
  <2>2. PICK f \in [1..n -> Seq(D)] : Flattens(f, ss, n)
    BY <1>0, <1>2, <2>1
  <2> DEFINE last == IF n = 0 THEN ss[1] ELSE f[n] \o ss[n + 1]
             g == [j \in 1..(n + 1) |-> IF j = n + 1 THEN last ELSE f[j]]
  <2>3. last \in Seq(D)
    <3>1. ss[1] \in Seq(D) /\ ss[n + 1] \in Seq(D)
      BY <1>0, <2>1
    <3>2. CASE n = 0
      BY <3>1, <3>2
    <3>3. CASE n # 0
      BY <3>1, <3>3, ConcatProperties
    <3>4. QED
      BY <3>2, <3>3
  <2> HIDE DEF last
  <2>4. g \in [1..(n + 1) -> Seq(D)]
    BY <2>3
  <2>5. \A j \in 1..n : g[j] = f[j]
    OBVIOUS
  <2>6. g[n + 1] = last
    OBVIOUS
  <2>7. Flattens(g, ss, n + 1)
    <3> HIDE DEF g
    <3>1. g[n + 1] = IF n + 1 = 1 THEN ss[n + 1] ELSE g[(n + 1) - 1] \o ss[n + 1]
      <4>1. CASE n = 0
        <5>1. n + 1 = 1 /\ last = ss[1]
          BY <4>1 DEF last
        <5>2. QED
          BY <2>6, <5>1
      <4>2. CASE n # 0
        <5>1. n \in 1..n /\ (n + 1) - 1 = n /\ n + 1 # 1
          BY <4>2
        <5>2. last = f[n] \o ss[n + 1]
          BY <4>2 DEF last
        <5>3. g[(n + 1) - 1] = f[n]
          BY <2>5, <5>1
        <5>4. QED
          BY <2>6, <5>1, <5>2, <5>3
      <4>3. QED
        BY <4>1, <4>2
    <3>2. ASSUME NEW j \in 1..n
          PROVE  g[j] = IF j = 1 THEN ss[j] ELSE g[j - 1] \o ss[j]
      <4>1. j # 1 => j - 1 \in 1..n
        OBVIOUS
      <4>2. f[j] = IF j = 1 THEN ss[j] ELSE f[j - 1] \o ss[j]
        BY <2>2 DEF Flattens
      <4>3. QED
        BY <2>5, <4>1, <4>2
    <3>3. ASSUME NEW j \in 1..(n + 1)
          PROVE  g[j] = IF j = 1 THEN ss[j] ELSE g[j - 1] \o ss[j]
      <4>1. j = n + 1 \/ j \in 1..n
        OBVIOUS
      <4>2. QED
        BY <3>1, <3>2, <4>1
    <3>4. QED
      BY <3>3 DEF Flattens
  <2>8. QED
    BY <2>4, <2>7
<1>3. Nat \subseteq S
  <2> HIDE DEF S
  <2>1. QED
    BY <1>1, <1>2, SetInduction
<1>4. QED
  BY <1>0, <1>3

\* Two such functions are the same.
LEMMA FlatteningUnique ==
  ASSUME NEW f, NEW g, NEW ss, NEW n \in Nat, Flattens(f, ss, n), Flattens(g, ss, n)
  PROVE  \A j \in 1..n : f[j] = g[j]
<1> DEFINE S == {k \in Nat : k \in 1..n => f[k] = g[k]}
<1>1. 0 \in S
  OBVIOUS
<1>2. ASSUME NEW k \in Nat, k \in S
      PROVE  k + 1 \in S
  <2>1. SUFFICES ASSUME k + 1 \in 1..n PROVE f[k + 1] = g[k + 1]
    OBVIOUS
  <2>2. k + 1 # 1 => k \in 1..n /\ (k + 1) - 1 = k
    BY <2>1
  <2>3. /\ f[k + 1] = IF k + 1 = 1 THEN ss[k + 1] ELSE f[(k + 1) - 1] \o ss[k + 1]
        /\ g[k + 1] = IF k + 1 = 1 THEN ss[k + 1] ELSE g[(k + 1) - 1] \o ss[k + 1]
    BY <2>1 DEF Flattens
  <2>4. QED
    BY <1>2, <2>1, <2>2, <2>3
<1>3. Nat \subseteq S
  <2> HIDE DEF S
  <2>1. QED
    BY <1>1, <1>2, SetInduction
<1>4. QED
  BY <1>3

\* FlattenSeq is the last value of that function.
LEMMA FlattenIsLast ==
  ASSUME NEW D, NEW ss \in Seq(Seq(D)), Len(ss) > 0
  PROVE  \E f \in [1..Len(ss) -> Seq(D)] : Flattens(f, ss, Len(ss)) /\ FlattenSeq(ss) = f[Len(ss)]
<1> DEFINE F == CHOOSE f : f = [j \in 1..Len(ss) |-> IF j = 1 THEN ss[j] ELSE f[j - 1] \o ss[j]]
<1>0. Len(ss) \in Nat
  BY LenProperties
<1>1. FlattenSeq(ss) = F[Len(ss)]
  BY <1>0 DEF FlattenSeq
<1>2. PICK f \in [1..Len(ss) -> Seq(D)] : Flattens(f, ss, Len(ss))
  BY FlatteningExists
<1>3. f = [j \in 1..Len(ss) |-> IF j = 1 THEN ss[j] ELSE f[j - 1] \o ss[j]]
  BY <1>2 DEF Flattens
<1>4. F = [j \in 1..Len(ss) |-> IF j = 1 THEN ss[j] ELSE F[j - 1] \o ss[j]]
  BY <1>3
<1>5. Flattens(F, ss, Len(ss))
  <2> HIDE DEF F
  <2>1. QED
    BY <1>4 DEF Flattens
<1>6. F = f
  <2> HIDE DEF F
  <2>1. \A j \in 1..Len(ss) : F[j] = f[j]
    BY <1>0, <1>2, <1>5, FlatteningUnique
  <2>2. F = [j \in 1..Len(ss) |-> F[j]]
    BY <1>4
  <2>3. QED
    BY <1>2, <2>1, <2>2
<1>7. QED
  BY <1>1, <1>2, <1>6

\* The function for a longer sequence does for its front.
LEMMA FlattensLess ==
  ASSUME NEW f, NEW ss, NEW tt, NEW n \in Nat, Flattens(f, tt, n + 1), \A j \in 1..n : tt[j] = ss[j]
  PROVE  Flattens(f, ss, n)
<1>1. ASSUME NEW j \in 1..n
      PROVE  f[j] = IF j = 1 THEN ss[j] ELSE f[j - 1] \o ss[j]
  <2>1. j \in 1..(n + 1) /\ tt[j] = ss[j]
    OBVIOUS
  <2>2. f[j] = IF j = 1 THEN tt[j] ELSE f[j - 1] \o tt[j]
    BY <2>1 DEF Flattens
  <2>3. QED
    BY <2>1, <2>2
<1>2. QED
  BY <1>1 DEF Flattens

\* One more sequence comes behind what is there.
LEMMA FlattenAppend ==
  ASSUME NEW D, NEW ss \in Seq(Seq(D)), NEW t \in Seq(D)
  PROVE  FlattenSeq(Append(ss, t)) = FlattenSeq(ss) \o t
<1> DEFINE n == Len(ss)
           more == Append(ss, t)
<1>1. /\ n \in Nat /\ more \in Seq(Seq(D)) /\ Len(more) = n + 1
      /\ \A j \in 1..n : more[j] = ss[j]
      /\ more[n + 1] = t
  <2> DEFINE E == Seq(D)
  <2>1. ss \in Seq(E) /\ t \in E
    OBVIOUS
  <2> HIDE DEF E
  <2>2. QED
    BY <2>1, AppendProperties, LenProperties
<1>2. PICK g \in [1..(n + 1) -> Seq(D)] : Flattens(g, more, n + 1) /\ FlattenSeq(more) = g[n + 1]
  <2> HIDE DEF more
  <2>1. PICK k \in Nat : k = n + 1
    BY <1>1
  <2>2. more \in Seq(Seq(D)) /\ Len(more) = k /\ Len(more) > 0
    BY <1>1, <2>1
  <2>3. \E g \in [1..Len(more) -> Seq(D)] :
          Flattens(g, more, Len(more)) /\ FlattenSeq(more) = g[Len(more)]
    BY <2>2, FlattenIsLast
  <2>4. QED
    BY <2>1, <2>2, <2>3
<1>3. g[n + 1] = IF n + 1 = 1 THEN more[n + 1] ELSE g[(n + 1) - 1] \o more[n + 1]
  <2>1. n + 1 \in 1..(n + 1)
    BY <1>1
  <2>2. QED
    <3> HIDE DEF more
    <3>1. QED
      BY <2>1, <1>2 DEF Flattens
<1>4. CASE n = 0
  <2>1. ss = <<>>
    BY <1>4, EmptySeq
  <2>2. FlattenSeq(ss) = <<>>
    BY <2>1, <1>4 DEF FlattenSeq
  <2>3. QED
    BY <1>1, <1>2, <1>3, <1>4, <2>2, ConcatEmptySeq
<1>5. CASE n # 0
  <2>1. PICK f \in [1..n -> Seq(D)] : Flattens(f, ss, n) /\ FlattenSeq(ss) = f[n]
    BY <1>1, <1>5, FlattenIsLast
  <2>2. Flattens(g, ss, n)
    <3> HIDE DEF more, n
    <3>1. QED
      BY <1>1, <1>2, FlattensLess
  <2>3. g[n] = f[n]
    <3>1. n \in Nat /\ Flattens(f, ss, n) /\ Flattens(g, ss, n)
      BY <1>1, <2>1, <2>2
    <3> HIDE DEF n, more
    <3>2. \A j \in 1..n : f[j] = g[j]
      BY <3>1, FlatteningUnique
    <3>3. n \in 1..n
      BY <1>5, <3>1
    <3>4. QED
      BY <3>2, <3>3
  <2>4. n + 1 # 1 /\ (n + 1) - 1 = n
    BY <1>1, <1>5
  <2>5. g[n + 1] = g[n] \o t
    BY <1>1, <1>3, <2>4
  <2>6. QED
    BY <1>2, <2>1, <2>3, <2>5
<1>6. QED
  BY <1>4, <1>5

\* What is put together is of the same elements.
LEMMA FlattenTypes ==
  ASSUME NEW D, NEW ss \in Seq(Seq(D))
  PROVE  FlattenSeq(ss) \in Seq(D)
<1>0. Len(ss) \in Nat
  BY LenProperties
<1>1. CASE Len(ss) = 0
  <2>1. ss = <<>>
    BY <1>1, EmptySeq
  <2>2. FlattenSeq(ss) = <<>>
    BY <2>1, <1>1 DEF FlattenSeq
  <2>3. QED
    BY <2>2
<1>2. CASE Len(ss) > 0
  <2>1. PICK f \in [1..Len(ss) -> Seq(D)] : FlattenSeq(ss) = f[Len(ss)]
    BY <1>2, FlattenIsLast
  <2>2. Len(ss) \in 1..Len(ss)
    BY <1>0, <1>2
  <2>3. f[Len(ss)] \in Seq(D)
    BY <2>2
  <2>4. QED
    BY <2>1, <2>3
<1>3. QED
  BY <1>0, <1>1, <1>2

\* Sequences with nothing in them.
LEMMA FlattenNothing ==
  ASSUME NEW D, NEW ss \in Seq(Seq(D)), \A j \in 1..Len(ss) : ss[j] = <<>>
  PROVE  FlattenSeq(ss) = <<>>
<1>0. Len(ss) \in Nat
  BY LenProperties
<1>1. CASE Len(ss) = 0
  <2>1. ss = <<>>
    BY <1>1, EmptySeq
  <2>2. QED
    BY <2>1, <1>1 DEF FlattenSeq
<1>2. CASE Len(ss) > 0
  <2>1. PICK f \in [1..Len(ss) -> Seq(D)] : Flattens(f, ss, Len(ss)) /\ FlattenSeq(ss) = f[Len(ss)]
    BY <1>2, FlattenIsLast
  <2> DEFINE S == {n \in Nat : n \in 1..Len(ss) => f[n] = <<>>}
  <2>2. 0 \in S
    OBVIOUS
  <2>3. ASSUME NEW n \in Nat, n \in S
        PROVE  n + 1 \in S
    <3>1. SUFFICES ASSUME n + 1 \in 1..Len(ss) PROVE f[n + 1] = <<>>
      OBVIOUS
    <3>2. f[n + 1] = IF n + 1 = 1 THEN ss[n + 1] ELSE f[(n + 1) - 1] \o ss[n + 1]
      BY <2>1, <3>1 DEF Flattens
    <3>3. ss[n + 1] = <<>>
      BY <3>1
    <3>4. n + 1 # 1 => n \in 1..Len(ss) /\ (n + 1) - 1 = n
      BY <3>1
    <3>5. <<>> \o <<>> = <<>>
      OBVIOUS
    <3>6. QED
      BY <2>3, <3>2, <3>3, <3>4, <3>5
  <2>4. Nat \subseteq S
    <3> HIDE DEF S
    <3>1. QED
      BY <2>2, <2>3, SetInduction
  <2>5. Len(ss) \in S /\ Len(ss) \in 1..Len(ss)
    BY <1>0, <1>2, <2>4
  <2>6. QED
    BY <2>1, <2>5
<1>3. QED
  BY <1>0, <1>1, <1>2

-----------------------------------------------------------------------------
(* A piece, and what is read of it *)

Symbol == Uuids \cup {emptyUUID} \cup SendType \cup Bytes \cup {"<", ">"}

\* The header as the tuple of its four symbols.
HeaderOf(uuid, type) == <<IF type = "End" THEN emptyUUID ELSE uuid, "<", type, ">">>

\* What is sent of a payload.
MeantOf(type, payload) == IF type \in {"Begin", "Data", "Error"} THEN payload ELSE <<>>

\* A tuple of four symbols put in front of a sequence.
LEMMA FourInFront ==
  ASSUME NEW S, NEW a \in S, NEW b \in S, NEW c \in S, NEW d \in S, NEW s \in Seq(S)
  PROVE  LET all == <<a, b, c, d>> \o s IN
         /\ all \in Seq(S) /\ Len(all) = 4 + Len(s) /\ Len(s) \in Nat
         /\ all[1] = a /\ all[2] = b /\ all[3] = c /\ all[4] = d
         /\ \A n \in 1..Len(s) : all[4 + n] = s[n]
<1> DEFINE front == <<a, b, c, d>>
<1>1. front \in Seq(S) /\ Len(front) = 4 /\ Len(s) \in Nat
      /\ front[1] = a /\ front[2] = b /\ front[3] = c /\ front[4] = d
  BY LenProperties
<1>2. /\ front \o s \in Seq(S) /\ Len(front \o s) = 4 + Len(s)
      /\ \A n \in 1..(4 + Len(s)) : (front \o s)[n] = IF n <= 4 THEN front[n] ELSE s[n - 4]
  <2> HIDE DEF front
  <2>1. /\ front \o s \in Seq(S) /\ Len(front \o s) = Len(front) + Len(s)
        /\ \A n \in 1..(Len(front) + Len(s)) :
             (front \o s)[n] = IF n <= Len(front) THEN front[n] ELSE s[n - Len(front)]
    BY <1>1, ConcatProperties
  <2>2. QED
    BY <1>1, <2>1
<1>3. ASSUME NEW n \in 1..Len(s)
      PROVE  (front \o s)[4 + n] = s[n]
  <2>1. 4 + n \in 1..(4 + Len(s)) /\ ~(4 + n <= 4) /\ (4 + n) - 4 = n
    BY <1>1
  <2> HIDE DEF front
  <2>2. QED
    BY <1>2, <2>1
<1>4. 1 \in 1..(4 + Len(s)) /\ 2 \in 1..(4 + Len(s)) /\ 3 \in 1..(4 + Len(s)) /\ 4 \in 1..(4 + Len(s))
  BY <1>1
<1>5. QED
  BY <1>1, <1>2, <1>3, <1>4

\* The header is four symbols long, and a message is its header and what is meant.
LEMMA MergedIsHeaderAndPayload ==
  ASSUME NEW uuid, NEW type \in SendType, NEW D, NEW payload \in Seq(D)
  PROVE  /\ MergeData(uuid, type, <<>>) = HeaderOf(uuid, type)
         /\ MergeData(uuid, type, payload) = HeaderOf(uuid, type) \o MeantOf(type, payload)
<1> DEFINE u == IF type = "End" THEN emptyUUID ELSE uuid
           one == <<u>>
           three == <<"<", type, ">">>
           four == <<u, "<", type, ">">>
           S == {u, "<", type, ">"}
<1>1. one \o three = four
  <2>1. one \in Seq(S) /\ three \in Seq(S) /\ four \in Seq(S)
    OBVIOUS
  <2>2. Len(one) = 1 /\ Len(three) = 3 /\ Len(four) = 4
    OBVIOUS
  <2>3. /\ one \o three \in Seq(S) /\ Len(one \o three) = 4
        /\ \A n \in 1..4 : (one \o three)[n] = IF n <= 1 THEN one[n] ELSE three[n - 1]
    <3> HIDE DEF one, three, S
    <3>1. /\ one \o three \in Seq(S) /\ Len(one \o three) = Len(one) + Len(three)
          /\ \A n \in 1..(Len(one) + Len(three)) :
               (one \o three)[n] = IF n <= Len(one) THEN one[n] ELSE three[n - Len(one)]
      BY <2>1, ConcatProperties
    <3>2. QED
      BY <2>2, <3>1
  <2>4. \A n \in 1..4 : four[n] = IF n <= 1 THEN one[n] ELSE three[n - 1]
    <3>1. \A n \in 1..4 : n = 1 \/ n = 2 \/ n = 3 \/ n = 4
      OBVIOUS
    <3>2. QED
      BY <3>1
  <2>5. QED
    <3> HIDE DEF one, three, four, S
    <3>1. \A n \in 1..Len(one \o three) : (one \o three)[n] = four[n]
      BY <2>3, <2>4
    <3>2. QED
      BY <2>1, <2>2, <2>3, <3>1, SeqEqual
<1>2. four \o <<>> = four
  <2>1. four \in Seq(S)
    OBVIOUS
  <2> HIDE DEF four, S
  <2>2. QED
    BY <2>1, ConcatEmptySeq
<1>3. MergeData(uuid, type, <<>>) = (one \o three) \o <<>>
  BY DEF MergeData, EnumToString
<1>4. MergeData(uuid, type, payload) = (one \o three) \o MeantOf(type, payload)
  BY DEF MergeData, EnumToString, MeantOf
<1>5. HeaderOf(uuid, type) = four
  BY DEF HeaderOf
<1>6. QED
  <2> HIDE DEF one, three, four
  <2>1. QED
    BY <1>1, <1>2, <1>3, <1>4, <1>5

\* A symbol that is not in front of place n is found there.
LEMMA FoundThere ==
  ASSUME NEW S, NEW chunk \in Seq(S), NEW x, NEW k \in Nat, NEW n \in k..Len(chunk),
         chunk[n] = x, \A m \in k..(n - 1) : chunk[m] # x
  PROVE  Find(chunk, x, k) = n
<1> DEFINE found == {m \in k..Len(chunk) : chunk[m] = x}
<1>0. Len(chunk) \in Nat
  BY LenProperties
<1>1. n \in found /\ \A m \in found : n <= m
  BY <1>0
<1>2. \A m \in found : (\A l \in found : m <= l) => m = n
  BY <1>0, <1>1
<1>3. found # {}
  BY <1>1
<1>4. Find(chunk, x, k) = CHOOSE m \in found : \A l \in found : m <= l
  BY <1>3 DEF Find
<1>5. QED
  <2> HIDE DEF found
  <2>1. QED
    BY <1>1, <1>2, <1>4

\* Whatever symbols the data hold, a piece comes apart into what it was made of.
LEMMA PieceComesApart ==
  ASSUME NEW S, NEW u \in S, "<" \in S, ">" \in S, u # "<",
         NEW type \in SendType, type \in S, NEW data \in Seq(S)
  PROVE  ExtractToParts(<<u, "<", type, ">">> \o data) =
           [uuid |-> <<u>>, type |-> type,
            data |-> IF type \in {"Done", "End"} THEN <<>> ELSE data]
<1> DEFINE chunk == <<u, "<", type, ">">> \o data
<1>1. /\ chunk \in Seq(S) /\ Len(chunk) = 4 + Len(data) /\ Len(data) \in Nat
      /\ chunk[1] = u /\ chunk[2] = "<" /\ chunk[3] = type /\ chunk[4] = ">"
      /\ \A n \in 1..Len(data) : chunk[4 + n] = data[n]
  BY FourInFront
<1>2. type # "<" /\ type # ">"
  BY DEF SendType
<1> HIDE DEF chunk
<1>3. Find(chunk, "<", 1) = 2
  <2>1. 2 \in 1..Len(chunk) /\ \A m \in 1..(2 - 1) : chunk[m] # "<"
    BY <1>1
  <2>2. QED
    BY <1>1, <2>1, FoundThere
<1>4. Find(chunk, ">", 2) = 4
  <2>1. 4 \in 2..Len(chunk) /\ \A m \in 2..(4 - 1) : m = 2 \/ m = 3
    BY <1>1
  <2>2. \A m \in 2..(4 - 1) : chunk[m] # ">"
    BY <1>1, <1>2, <2>1
  <2>3. QED
    BY <1>1, <2>1, <2>2, FoundThere
<1>5. SubSeq(chunk, 1, 1) = <<u>>
  <2> DEFINE one == <<u>>
  <2>1. /\ SubSeq(chunk, 1, 1) \in Seq(S) /\ Len(SubSeq(chunk, 1, 1)) = 1
        /\ SubSeq(chunk, 1, 1)[1] = chunk[1]
    BY <1>1, SubSeqProperties
  <2>2. one \in Seq(S) /\ Len(one) = 1 /\ one[1] = u
    OBVIOUS
  <2>3. QED
    <3> HIDE DEF one
    <3>1. \A n \in 1..1 : SubSeq(chunk, 1, 1)[n] = one[n]
      BY <1>1, <2>1, <2>2
    <3>2. SubSeq(chunk, 1, 1) = one
      BY <2>1, <2>2, <3>1, SeqEqual
    <3>3. QED
      BY <3>2 DEF one
<1>6. SubSeq(chunk, 2, 4) = EnumToString(type)
  <2> DEFINE three == <<"<", type, ">">>
  <2>1. /\ SubSeq(chunk, 2, 4) \in Seq(S) /\ Len(SubSeq(chunk, 2, 4)) = 3
        /\ \A n \in 1..3 : SubSeq(chunk, 2, 4)[n] = chunk[2 + n - 1]
    <3>1. \A n \in 2..4 : chunk[n] \in S
      BY <1>1, ElementOfSeq
    <3>2. QED
      BY <3>1, SubSeqProperties
  <2>2. three \in Seq(S) /\ Len(three) = 3
    OBVIOUS
  <2>3. \A n \in 1..3 : SubSeq(chunk, 2, 4)[n] = three[n]
    <3>1. \A n \in 1..3 : n = 1 \/ n = 2 \/ n = 3
      OBVIOUS
    <3>2. QED
      BY <1>1, <2>1, <3>1
  <2>4. SubSeq(chunk, 2, 4) = three
    <3> HIDE DEF three
    <3>1. QED
      BY <2>1, <2>2, <2>3, SeqEqual
  <2>5. QED
    BY <2>4 DEF EnumToString
<1>7. StringToEnum(EnumToString(type)) = type
  <2>1. \A other \in SendType : EnumToString(type) = EnumToString(other) => other = type
    BY DEF EnumToString
  <2>2. QED
    BY <2>1 DEF StringToEnum
<1>8. SubSeq(chunk, 5, Len(chunk)) = data
  <2>1. /\ SubSeq(chunk, 5, Len(chunk)) \in Seq(S) /\ Len(SubSeq(chunk, 5, Len(chunk))) = Len(data)
        /\ \A n \in 1..Len(data) : SubSeq(chunk, 5, Len(chunk))[n] = chunk[5 + n - 1]
    <3>1. \A n \in 5..Len(chunk) : chunk[n] \in S
      BY <1>1, ElementOfSeq
    <3>2. 5 \in Int /\ Len(chunk) \in Int /\ (IF 5 <= Len(chunk) THEN Len(chunk) - 5 + 1 ELSE 0) = Len(data)
          /\ 1..(Len(chunk) - 5 + 1) = 1..Len(data)
      BY <1>1
    <3>3. QED
      BY <3>1, <3>2, SubSeqProperties
  <2>2. \A n \in 1..Len(data) : SubSeq(chunk, 5, Len(chunk))[n] = data[n]
    <3>1. \A n \in 1..Len(data) : 5 + n - 1 = 4 + n
      BY <1>1
    <3>2. QED
      BY <1>1, <2>1, <3>1
  <2>3. QED
    BY <2>1, <2>2, SeqEqual
<1>9. ExtractToParts(chunk) =
        [uuid |-> <<u>>, type |-> type, data |-> IF type \in {"Done", "End"} THEN <<>> ELSE data]
  <2>1. 2 - 1 = 1 /\ 4 + 1 = 5 /\ 2 \notin {0, 1} /\ 4 # 0
    OBVIOUS
  <2> DEFINE uuidEnd == Find(chunk, "<", 1)
             typeEnd == Find(chunk, ">", uuidEnd)
  <2>2. uuidEnd = 2 /\ typeEnd = 4
    BY <1>3, <1>4
  <2>3. SubSeq(chunk, 1, uuidEnd - 1) = <<u>>
    BY <1>5, <2>1, <2>2
  <2>4. StringToEnum(SubSeq(chunk, uuidEnd, typeEnd)) = type
    BY <1>6, <1>7, <2>2
  <2>5. SubSeq(chunk, typeEnd + 1, Len(chunk)) = data
    BY <1>8, <2>1, <2>2
  <2>6. uuidEnd \notin {0, 1} /\ typeEnd # 0
    BY <2>1, <2>2
  <2>7. ExtractToParts(chunk) =
          [uuid |-> SubSeq(chunk, 1, uuidEnd - 1),
           type |-> StringToEnum(SubSeq(chunk, uuidEnd, typeEnd)),
           data |-> IF StringToEnum(SubSeq(chunk, uuidEnd, typeEnd)) \in {"Done", "End"}
                      THEN <<>> ELSE SubSeq(chunk, typeEnd + 1, Len(chunk))]
    BY <2>6 DEF ExtractToParts
  <2>8. QED
    <3> HIDE DEF uuidEnd, typeEnd
    <3>1. QED
      BY <2>3, <2>4, <2>5, <2>7
<1>10. QED
  BY <1>9 DEF chunk

\* What the client reads of call k in a sequence of items.
SentIn(w, k) == FlattenSeq([n \in DOMAIN w |-> Data(k, w[n])])

\* One more item adds what is read of it.
LEMMA SentAppends ==
  ASSUME NEW D, NEW I, NEW w \in Seq(I), NEW item \in I, NEW k,
         \A n \in DOMAIN w : Data(k, w[n]) \in Seq(D), Data(k, item) \in Seq(D)
  PROVE  /\ SentIn(w, k) \in Seq(D)
         /\ SentIn(Append(w, item), k) = SentIn(w, k) \o Data(k, item)
<1> DEFINE parts == [n \in DOMAIN w |-> Data(k, w[n])]
           more == Append(w, item)
           moreParts == [n \in DOMAIN more |-> Data(k, more[n])]
           E == Seq(D)
<1>1. /\ Len(w) \in Nat /\ DOMAIN w = 1..Len(w)
      /\ more \in Seq(I) /\ Len(more) = Len(w) + 1 /\ DOMAIN more = 1..(Len(w) + 1)
      /\ \A n \in 1..Len(w) : more[n] = w[n]
      /\ more[Len(w) + 1] = item
  BY AppendProperties, LenProperties
<1>2. parts \in Seq(E) /\ Len(parts) = Len(w) /\ \A n \in 1..Len(w) : parts[n] = Data(k, w[n])
  <2>1. parts \in [1..Len(w) -> E]
    BY <1>1
  <2>2. parts \in Seq(E)
    <3> HIDE DEF parts, E
    <3>1. QED
      BY <1>1, <2>1, SeqDef
  <2>3. Len(parts) = Len(w)
    <3>1. DOMAIN parts = 1..Len(w) /\ DOMAIN parts = 1..Len(parts) /\ Len(parts) \in Nat
      BY <1>1, <2>2, LenProperties
    <3> HIDE DEF parts
    <3>2. QED
      BY <1>1, <3>1
  <2>4. QED
    BY <1>1, <2>2, <2>3
<1>3. moreParts \in Seq(E) /\ Len(moreParts) = Len(w) + 1
      /\ \A n \in 1..(Len(w) + 1) : moreParts[n] = Data(k, more[n])
  <2>1. moreParts \in [1..(Len(w) + 1) -> E]
    <3>1. \A n \in 1..(Len(w) + 1) : Data(k, more[n]) \in E
      <4>1. \A n \in 1..(Len(w) + 1) : n \in 1..Len(w) \/ n = Len(w) + 1
        BY <1>1
      <4> HIDE DEF more
      <4>2. QED
        BY <1>1, <4>1
    <3>2. QED
      BY <1>1, <3>1
  <2>2. moreParts \in Seq(E)
    <3> HIDE DEF moreParts, E
    <3>1. QED
      BY <1>1, <2>1, SeqDef
  <2>3. Len(moreParts) = Len(w) + 1
    <3>1. DOMAIN moreParts = 1..(Len(w) + 1) /\ DOMAIN moreParts = 1..Len(moreParts) /\ Len(moreParts) \in Nat
      BY <1>1, <2>2, LenProperties
    <3> HIDE DEF moreParts
    <3>2. QED
      BY <1>1, <3>1
  <2>4. QED
    BY <1>1, <2>2, <2>3
<1>4. moreParts = Append(parts, Data(k, item))
  <2> DEFINE longer == Append(parts, Data(k, item))
  <2>1. Data(k, item) \in E
    OBVIOUS
  <2>2. /\ longer \in Seq(E) /\ Len(longer) = Len(w) + 1
        /\ \A n \in 1..Len(w) : longer[n] = parts[n]
        /\ longer[Len(w) + 1] = Data(k, item)
    <3> HIDE DEF parts, E
    <3>1. QED
      BY <1>2, <2>1, AppendProperties
  <2>3. \A n \in 1..(Len(w) + 1) : moreParts[n] = longer[n]
    <3>1. \A n \in 1..(Len(w) + 1) : n \in 1..Len(w) \/ n = Len(w) + 1
      BY <1>1
    <3> HIDE DEF parts, more, moreParts, longer
    <3>2. QED
      BY <1>1, <1>2, <1>3, <2>2, <3>1
  <2>4. QED
    <3> HIDE DEF parts, more, moreParts, longer, E
    <3>1. moreParts = longer
      BY <1>1, <1>3, <2>2, <2>3, SeqEqual
    <3>2. QED
      BY <3>1 DEF longer
<1>5. FlattenSeq(parts) \in Seq(D) /\ FlattenSeq(moreParts) = FlattenSeq(parts) \o Data(k, item)
  <2>1. parts \in Seq(Seq(D))
    BY <1>2
  <2> HIDE DEF parts, moreParts
  <2>2. QED
    BY <1>4, <2>1, FlattenAppend, FlattenTypes
<1>6. QED
  BY <1>5 DEF SentIn

\* A piece of a message, cut out behind the header or with it, is a piece of the payload.
LEMMA CutOfMessage ==
  ASSUME NEW D, NEW h \in Seq(D), NEW p \in Seq(D), NEW x \in Nat, NEW y \in x..Len(p)
  PROVE  /\ SubSeq(h \o p, Len(h) + x + 1, Len(h) + y) = SubSeq(p, x + 1, y)
         /\ SubSeq(h \o p, 1, Len(h) + y) = h \o SubSeq(p, 1, y)
         /\ SubSeq(p, x + 1, y) \in Seq(D) /\ Len(SubSeq(p, x + 1, y)) = y - x
<1> DEFINE all == h \o p
           n == Len(h)
<1>1. /\ n \in Nat /\ Len(p) \in Nat /\ y \in Nat /\ x <= y /\ y <= Len(p)
      /\ all \in Seq(D) /\ Len(all) = n + Len(p)
      /\ \A j \in 1..(n + Len(p)) : all[j] = IF j <= n THEN h[j] ELSE p[j - n]
      /\ \A j \in 1..n : h[j] \in D
      /\ \A j \in 1..Len(p) : p[j] \in D
      /\ \A j \in 1..(n + Len(p)) : all[j] \in D
  BY LenProperties, ConcatProperties, ElementOfSeq
<1> HIDE DEF all, n
<1>2. /\ SubSeq(p, x + 1, y) \in Seq(D) /\ Len(SubSeq(p, x + 1, y)) = y - x
      /\ \A j \in 1..(y - x) : SubSeq(p, x + 1, y)[j] = p[x + j]
  <2>1. \A j \in (x + 1)..y : p[j] \in D
    BY <1>1
  <2>2. /\ x + 1 \in Int /\ y \in Int
        /\ (IF x + 1 <= y THEN y - (x + 1) + 1 ELSE 0) = y - x
        /\ y - (x + 1) + 1 = y - x
        /\ \A j \in 1..(y - x) : (x + 1) + j - 1 = x + j
    BY <1>1
  <2>3. QED
    BY <2>1, <2>2, SubSeqProperties
<1>3. /\ SubSeq(all, n + x + 1, n + y) \in Seq(D) /\ Len(SubSeq(all, n + x + 1, n + y)) = y - x
      /\ \A j \in 1..(y - x) : SubSeq(all, n + x + 1, n + y)[j] = all[n + x + j]
  <2>1. PICK from \in Int, to \in Int : from = n + x + 1 /\ to = n + y
    BY <1>1
  <2>2. \A j \in from..to : all[j] \in D
    BY <1>1, <2>1
  <2>3. /\ (IF from <= to THEN to - from + 1 ELSE 0) = y - x
        /\ to - from + 1 = y - x
        /\ \A j \in 1..(y - x) : from + j - 1 = n + x + j
    BY <1>1, <2>1
  <2>4. /\ SubSeq(all, from, to) \in Seq(D) /\ Len(SubSeq(all, from, to)) = y - x
        /\ \A j \in 1..(y - x) : SubSeq(all, from, to)[j] = all[from + j - 1]
    BY <2>2, <2>3, SubSeqProperties
  <2>5. QED
    BY <2>1, <2>3, <2>4
<1>4. SubSeq(all, n + x + 1, n + y) = SubSeq(p, x + 1, y)
  <2>1. \A j \in 1..(y - x) : all[n + x + j] = p[x + j]
    <3>1. ASSUME NEW j \in 1..(y - x)
          PROVE  all[n + x + j] = p[x + j]
      <4>1. n + x + j \in 1..(n + Len(p)) /\ ~(n + x + j <= n) /\ (n + x + j) - n = x + j
        BY <1>1
      <4>2. QED
        BY <1>1, <4>1
    <3>2. QED
      BY <3>1
  <2>2. QED
    BY <1>2, <1>3, <2>1, SeqEqual
<1>5. SubSeq(all, 1, n + y) = h \o SubSeq(p, 1, y)
  <2> DEFINE front == SubSeq(p, 1, y)
  <2>1. /\ front \in Seq(D) /\ Len(front) = y /\ \A j \in 1..y : front[j] = p[j]
    <3>1. \A j \in 1..y : p[j] \in D
      BY <1>1
    <3>2. /\ 1 \in Int /\ y \in Int /\ (IF 1 <= y THEN y - 1 + 1 ELSE 0) = y
          /\ y - 1 + 1 = y /\ \A j \in 1..y : 1 + j - 1 = j
      BY <1>1
    <3>3. QED
      BY <3>1, <3>2, SubSeqProperties
  <2> HIDE DEF front
  <2>2. /\ h \o front \in Seq(D) /\ Len(h \o front) = n + y
        /\ \A j \in 1..(n + y) : (h \o front)[j] = IF j <= n THEN h[j] ELSE front[j - n]
    <3>1. n = Len(h)
      BY DEF n
    <3>2. QED
      BY <2>1, <3>1, ConcatProperties
  <2>3. /\ SubSeq(all, 1, n + y) \in Seq(D) /\ Len(SubSeq(all, 1, n + y)) = n + y
        /\ \A j \in 1..(n + y) : SubSeq(all, 1, n + y)[j] = all[j]
    <3>1. \A j \in 1..(n + y) : all[j] \in D
      BY <1>1
    <3>2. /\ 1 \in Int /\ n + y \in Int /\ (IF 1 <= n + y THEN (n + y) - 1 + 1 ELSE 0) = n + y
          /\ (n + y) - 1 + 1 = n + y /\ \A j \in 1..(n + y) : 1 + j - 1 = j
      BY <1>1
    <3>3. QED
      BY <3>1, <3>2, SubSeqProperties
  <2>4. ASSUME NEW j \in 1..(n + y)
        PROVE  all[j] = (h \o front)[j]
    <3>1. j \in 1..(n + Len(p)) /\ (~(j <= n) => j - n \in 1..y)
      BY <1>1
    <3>2. QED
      BY <1>1, <2>1, <2>2, <3>1
  <2>5. SubSeq(all, 1, n + y) = h \o front
    BY <2>2, <2>3, <2>4, SeqEqual
  <2>6. QED
    BY <2>5 DEF front
<1>6. QED
  BY <1>2, <1>4, <1>5 DEF all, n

\* Nothing is read of a call that no item is about.
LEMMA NothingReadOf ==
  ASSUME NEW w, NEW I, w \in Seq(I), NEW k, \A n \in DOMAIN w : w[n].call # k
  PROVE  SentIn(w, k) = <<>>
<1> DEFINE parts == [n \in DOMAIN w |-> Data(k, w[n])]
           D == {0}
<1>1. Len(w) \in Nat /\ DOMAIN w = 1..Len(w)
  BY LenProperties
<1>2. \A n \in 1..Len(w) : parts[n] = <<>>
  BY <1>1 DEF Data
<1>3. parts \in [1..Len(w) -> Seq(D)]
  <2>1. <<>> \in Seq(D)
    OBVIOUS
  <2>2. parts = [n \in 1..Len(w) |-> parts[n]]
    BY <1>1
  <2> HIDE DEF parts, D
  <2>3. QED
    BY <1>2, <2>1, <2>2
<1>4. parts \in Seq(Seq(D)) /\ Len(parts) = Len(w)
  <2> DEFINE E == Seq(D)
  <2>1. parts \in [1..Len(w) -> E]
    BY <1>3
  <2>2. parts \in Seq(E)
    <3> HIDE DEF parts, E
    <3>1. QED
      BY <1>1, <2>1, SeqDef
  <2>3. DOMAIN parts = 1..Len(w) /\ DOMAIN parts = 1..Len(parts) /\ Len(parts) \in Nat
    BY <1>1, <2>2, LenProperties
  <2>4. QED
    <3> HIDE DEF parts, E
    <3>1. Len(parts) = Len(w)
      BY <1>1, <2>3
    <3>2. QED
      BY <2>2, <3>1 DEF E
<1>5. FlattenSeq(parts) = <<>>
  <2> HIDE DEF parts, D
  <2>1. QED
    BY <1>2, <1>4, FlattenNothing
<1>6. QED
  BY <1>5 DEF SentIn

-----------------------------------------------------------------------------
(* The invariant *)

Items == [call : DOMAIN calls, chunk : Seq(Symbol)]
Header(k) == HeaderOf(calls[k].uuid, calls[k].type)
Latest == Len(calls)

\* An item on the wire is the end of the stream, of an End that has said Continue, or
\* a header and some of a payload.
ItemOK(item) ==
  \/ /\ item.chunk = <<>>
     /\ calls[item.call].type = "End" /\ calls[item.call].status = "Continue"
  \/ \E data \in Seq(Bytes) :
       /\ item.chunk = Header(item.call) \o data
       /\ Len(item.chunk) <= kSplitSize
       /\ calls[item.call].type \in {"Done", "End"} => data = <<>>

WireOK == \A item \in Range(wire) : ItemOK(item)

\* Only the last call can be running.
StatusOK == \A k \in DOMAIN calls : calls[k].status = "running" <=> (pc # "idle" /\ k = Latest)

\* How much of the payload was sent in front of the loop variable.
Carried == IF i = 0 THEN 0 ELSE i - HeaderSize

\* While a message is sent, what is in front of the loop variable was handed over.
ProgressOK ==
  /\ pc = "sending" =>
       /\ i # 0 => kTotalSize > kSplitSize /\ i \in kSplitSize..kTotalSize
       /\ Sent(Latest) = SubSeq(Meant(Latest), 1, Carried)
  /\ pc = "breaching" => This.type = "End"

Inv == TypeOK /\ WireOK /\ StatusOK /\ ProgressOK /\ HandedOver

\* The types, with the alphabet named.
LEMMA TypesOfCalls ==
  ASSUME TypeOK
  PROVE  /\ wire \in Seq(Items) /\ Latest \in Nat /\ DOMAIN calls = 1..Latest
         /\ \A k \in DOMAIN calls :
              /\ calls[k] \in [uuid : Uuids, type : SendType, payload : Payloads,
                               status : {"running", "Continue", "Stop"}]
              /\ calls[k].type \in SendType /\ calls[k].uuid \in Uuids
              /\ calls[k].payload \in Seq(Bytes) /\ Meant(k) \in Seq(Bytes)
              /\ Meant(k) = MeantOf(calls[k].type, calls[k].payload)
         /\ pc # "idle" => Latest \in DOMAIN calls /\ This = calls[Latest]
<1> DEFINE Call == [uuid : Uuids, type : SendType, payload : Payloads,
                    status : {"running", "Continue", "Stop"}]
<1>1. calls \in Seq(Call)
  BY DEF TypeOK
<1>2. Latest \in Nat /\ DOMAIN calls = 1..Latest /\ \A k \in DOMAIN calls : calls[k] \in Call
  <2> HIDE DEF Call
  <2>1. QED
    BY <1>1, LenProperties, ElementOfSeq DEF Latest
<1>3. wire \in Seq(Items)
  BY DEF TypeOK, Items, Symbol
<1>4. \A k \in DOMAIN calls : calls[k].payload \in Seq(Bytes)
  BY <1>2, Assumptions DEF Assumptions
<1>5. \A k \in DOMAIN calls : Meant(k) \in Seq(Bytes) /\ Meant(k) = MeantOf(calls[k].type, calls[k].payload)
  <2>1. <<>> \in Seq(Bytes)
    OBVIOUS
  <2>2. QED
    BY <1>4, <2>1 DEF Meant, MeantOf
<1>6. pc # "idle" => Latest \in DOMAIN calls /\ This = calls[Latest]
  <2>1. SUFFICES ASSUME pc # "idle" PROVE Latest # 0 /\ This = calls[Latest]
    BY <1>2
  <2>2. calls # <<>>
    BY <2>1 DEF TypeOK
  <2>3. QED
    <3> HIDE DEF Call
    <3>1. QED
      BY <1>1, <2>2, EmptySeq DEF This, Latest
<1>7. QED
  BY <1>2, <1>3, <1>4, <1>5, <1>6

\* A piece of call k comes apart into what ForwardChunksToClient was given.
LEMMA PieceOfCall ==
  ASSUME TypeOK, NEW k \in DOMAIN calls, NEW data \in Seq(Bytes),
         calls[k].type \in {"Done", "End"} => data = <<>>
  PROVE  LET chunk == Header(k) \o data IN
         /\ chunk \in Seq(Symbol) /\ chunk # <<>> /\ Len(chunk) = HeaderSize + Len(data)
         /\ ExtractToParts(chunk) =
              [uuid |-> <<IF calls[k].type = "End" THEN emptyUUID ELSE calls[k].uuid>>,
               type |-> calls[k].type, data |-> data]
<1> DEFINE u == IF calls[k].type = "End" THEN emptyUUID ELSE calls[k].uuid
           type == calls[k].type
           chunk == Header(k) \o data
<1>1. /\ u \in Symbol /\ type \in SendType /\ type \in Symbol
      /\ "<" \in Symbol /\ ">" \in Symbol
  BY TypesOfCalls DEF Symbol
<1>2. u # "<"
  BY TypesOfCalls, Assumptions DEF Assumptions
<1>3. data \in Seq(Symbol)
  <2>1. Bytes \subseteq Symbol
    BY DEF Symbol
  <2>2. QED
    BY <2>1, SeqMonotonic
<1>4. chunk = <<u, "<", type, ">">> \o data
  BY DEF Header, HeaderOf
<1> HIDE DEF u, type
<1>5. /\ <<u, "<", type, ">">> \o data \in Seq(Symbol)
      /\ Len(<<u, "<", type, ">">> \o data) = 4 + Len(data) /\ Len(data) \in Nat
  BY <1>1, <1>3, FourInFront
<1>6. ExtractToParts(<<u, "<", type, ">">> \o data) =
        [uuid |-> <<u>>, type |-> type, data |-> IF type \in {"Done", "End"} THEN <<>> ELSE data]
  BY <1>1, <1>2, <1>3, PieceComesApart
<1>7. type \in {"Done", "End"} => data = <<>>
  BY DEF type
<1>8. chunk # <<>>
  <2>1. Len(chunk) # 0
    BY <1>4, <1>5
  <2> HIDE DEF chunk
  <2>2. QED
    BY <2>1
<1>9. ExtractToParts(chunk) = [uuid |-> <<u>>, type |-> type, data |-> data]
  BY <1>4, <1>6, <1>7
<1>10. QED
  BY <1>4, <1>5, <1>8, <1>9 DEF u, type, HeaderSize

\* What is read of an item, of its own call and of the others.
LEMMA DataOfItem ==
  ASSUME TypeOK, NEW item \in Items, ItemOK(item), NEW k
  PROVE  /\ Data(k, item) \in Seq(Bytes)
         /\ item.chunk = <<>> \/ item.call # k => Data(k, item) = <<>>
<1>1. <<>> \in Seq(Bytes)
  OBVIOUS
<1>2. CASE item.chunk = <<>> \/ item.call # k
  BY <1>1, <1>2 DEF Data
<1>3. CASE item.chunk # <<>> /\ item.call = k
  <2>1. PICK data \in Seq(Bytes) : /\ item.chunk = Header(item.call) \o data
                                   /\ calls[item.call].type \in {"Done", "End"} => data = <<>>
    BY <1>3 DEF ItemOK
  <2>2. item.call \in DOMAIN calls
    BY DEF Items
  <2>3. ExtractToParts(item.chunk).data = data
    BY <2>1, <2>2, PieceOfCall
  <2>4. QED
    BY <1>3, <2>3 DEF Data
<1>4. QED
  BY <1>2, <1>3

\* What is read of the wire, when one more item comes.
LEMMA SentGrows ==
  ASSUME TypeOK, WireOK, NEW item \in Items, NEW k \in DOMAIN calls, Data(k, item) \in Seq(Bytes)
  PROVE  /\ Sent(k) \in Seq(Bytes) /\ Sent(k) = SentIn(wire, k)
         /\ SentIn(Append(wire, item), k) = Sent(k) \o Data(k, item)
<1>1. wire \in Seq(Items)
  BY TypesOfCalls
<1>2. \A n \in DOMAIN wire : wire[n] \in Items
  BY <1>1, LenProperties, ElementOfSeq
<1>3. \A n \in DOMAIN wire : Data(k, wire[n]) \in Seq(Bytes)
  BY <1>2, DataOfItem DEF WireOK, Range
<1>4. Sent(k) = SentIn(wire, k)
  BY DEF Sent, SentIn
<1>5. /\ SentIn(wire, k) \in Seq(Bytes)
      /\ SentIn(Append(wire, item), k) = SentIn(wire, k) \o Data(k, item)
  BY <1>1, <1>3, SentAppends
<1>6. QED
  BY <1>4, <1>5

-----------------------------------------------------------------------------
(* One step *)

\* How much of the payload was handed over with the piece that is sent next.
Reach == Smaller(i + Step, kTotalSize) - HeaderSize

\* The piece at the loop variable is the header and the payload from what was carried
\* to what is reached; the loop goes on from there, or that is all of it.
LEMMA NextPiece ==
  ASSUME TypeOK, ProgressOK, pc = "sending"
  PROVE  LET data == SubSeq(Meant(Latest), Carried + 1, Reach) IN
         /\ data \in Seq(Bytes) /\ Carried \in Nat /\ Reach \in Carried..Len(Meant(Latest))
         /\ ToSend = Header(Latest) \o data
         /\ Len(ToSend) <= kSplitSize
         /\ More => /\ Reach = (i + Step) - HeaderSize /\ kTotalSize > kSplitSize
                    /\ i + Step \in kSplitSize..kTotalSize
         /\ ~More => Reach = Len(Meant(Latest))
         /\ i + Step \in Nat /\ kTotalSize \in Nat
<1> DEFINE h == Header(Latest)
           p == Meant(Latest)
           data == SubSeq(p, Carried + 1, Reach)
<1>1. /\ Latest \in DOMAIN calls /\ This = calls[Latest] /\ calls[Latest].type \in SendType
      /\ p \in Seq(Bytes) /\ calls[Latest].payload \in Seq(Bytes)
      /\ p = MeantOf(calls[Latest].type, calls[Latest].payload) /\ calls[Latest].uuid \in Uuids
  BY TypesOfCalls
<1>2. kHeader = h /\ kTotalToSend = h \o p
  <2>1. /\ MergeData(calls[Latest].uuid, calls[Latest].type, <<>>) = HeaderOf(calls[Latest].uuid, calls[Latest].type)
        /\ MergeData(calls[Latest].uuid, calls[Latest].type, calls[Latest].payload) =
             HeaderOf(calls[Latest].uuid, calls[Latest].type) \o MeantOf(calls[Latest].type, calls[Latest].payload)
    BY <1>1, MergedIsHeaderAndPayload
  <2>2. QED
    BY <1>1, <2>1 DEF kHeader, kTotalToSend, Header
<1>3. h \in Seq(Symbol) /\ Len(h) = 4 /\ p \in Seq(Symbol) /\ Len(p) \in Nat /\ Len(h \o p) = 4 + Len(p)
  <2>1. h \in Seq(Symbol) /\ Len(h) = 4
    BY <1>1 DEF Header, HeaderOf, Symbol
  <2>2. p \in Seq(Symbol)
    <3>1. Bytes \subseteq Symbol
      BY DEF Symbol
    <3> HIDE DEF p
    <3>2. QED
      BY <1>1, <3>1, SeqMonotonic
  <2>3. QED
    <3> HIDE DEF h, p
    <3>1. Len(h \o p) = Len(h) + Len(p) /\ Len(p) \in Nat
      BY <2>1, <2>2, ConcatProperties, LenProperties
    <3>2. QED
      BY <2>1, <2>2, <3>1
<1> HIDE DEF h, p
<1>4. /\ kTotalSize = 4 + Len(p) /\ kSplitSizeAdjusted = kSplitSize - 4
      /\ kSplitSize \in Nat /\ kSplitSize > 4 /\ i \in Nat
      /\ i # 0 => kTotalSize > kSplitSize /\ i >= kSplitSize /\ i <= kTotalSize
  BY <1>2, <1>3, Assumptions DEF kTotalSize, kSplitSizeAdjusted, Assumptions, HeaderSize, ProgressOK, TypeOK
<1>5. Step \in Nat /\ (i = 0 => Step = kSplitSize) /\ (i # 0 => Step = kSplitSize - 4)
  BY <1>4 DEF Step
<1>6. Smaller(i + Step, kTotalSize) = 4 + Reach /\ Carried \in Nat /\ Reach \in Carried..Len(p)
      /\ (i # 0 => i = 4 + Carried) /\ (i = 0 => Carried = 0)
      /\ 4 + Reach <= i + Step
  BY <1>4, <1>5 DEF Smaller, Reach, Carried, HeaderSize
<1>7. data \in Seq(Bytes) /\ Len(data) = Reach - Carried
  <2>1. p \in Seq(Bytes) /\ Carried \in Nat /\ Reach \in Carried..Len(p)
    BY <1>1, <1>6 DEF p
  <2>2. QED
    BY <2>1, CutOfMessage
<1>8. ToSend = h \o data
  <2>1. /\ SubSeq(h \o p, Len(h) + Carried + 1, Len(h) + Reach) = SubSeq(p, Carried + 1, Reach)
        /\ SubSeq(h \o p, 1, Len(h) + Reach) = h \o SubSeq(p, 1, Reach)
    <3>1. ASSUME NEW x \in Nat, NEW y \in x..Len(p)
          PROVE  /\ SubSeq(h \o p, Len(h) + x + 1, Len(h) + y) = SubSeq(p, x + 1, y)
                 /\ SubSeq(h \o p, 1, Len(h) + y) = h \o SubSeq(p, 1, y)
      <4>1. h \in Seq(Symbol) /\ p \in Seq(Symbol)
        BY <1>3
      <4>2. QED
        BY <4>1, CutOfMessage
    <3>2. QED
      BY <1>6, <3>1
  <2>2. CASE i = 0
    <3>1. ToSend = <<>> \o SubSeq(h \o p, 0 + 1, 4 + Reach)
      BY <1>2, <1>6, <2>2 DEF ToSend
    <3>2. ToSend = <<>> \o (h \o SubSeq(p, 1, Reach))
      <4>1. 0 + 1 = 1 /\ 4 + Reach = Len(h) + Reach
        BY <1>3
      <4>2. SubSeq(h \o p, 0 + 1, 4 + Reach) = SubSeq(h \o p, 1, Len(h) + Reach)
        BY <4>1
      <4>3. QED
        BY <2>1, <3>1, <4>2
    <3>3. data = SubSeq(p, 1, Reach)
      BY <1>6, <2>2
    <3>4. h \o data \in Seq(Symbol)
      <4>1. data \in Seq(Symbol)
        <5>1. Bytes \subseteq Symbol
          BY DEF Symbol
        <5> HIDE DEF data
        <5>2. QED
          BY <1>7, <5>1, SeqMonotonic
      <4> HIDE DEF data
      <4>2. QED
        BY <1>3, <4>1, ConcatProperties
    <3>5. <<>> \o (h \o data) = h \o data
      <4> HIDE DEF data
      <4>1. QED
        BY <3>4, ConcatEmptySeq
    <3>6. QED
      BY <3>2, <3>3, <3>5
  <2>3. CASE i # 0
    <3>1. ToSend = h \o SubSeq(h \o p, i + 1, 4 + Reach)
      BY <1>2, <1>6, <2>3 DEF ToSend
    <3>2. i + 1 = Len(h) + Carried + 1 /\ 4 + Reach = Len(h) + Reach
      BY <1>3, <1>6, <2>3
    <3>3. QED
      BY <2>1, <3>1, <3>2
  <2>4. QED
    BY <2>2, <2>3
<1>9. Len(ToSend) <= kSplitSize
  <2>1. Len(h \o data) = 4 + Len(data)
    <3>1. data \in Seq(Symbol)
      <4>1. Bytes \subseteq Symbol
        BY DEF Symbol
      <4> HIDE DEF data
      <4>2. QED
        BY <1>7, <4>1, SeqMonotonic
    <3> HIDE DEF data
    <3>2. QED
      BY <1>3, <3>1, ConcatProperties
  <2>2. 4 + (Reach - Carried) <= kSplitSize
    BY <1>4, <1>5, <1>6
  <2>3. QED
    <3> HIDE DEF data
    <3>1. QED
      BY <1>7, <1>8, <2>1, <2>2
<1>10. More => /\ Reach = (i + Step) - HeaderSize /\ kTotalSize > kSplitSize
               /\ i + Step \in kSplitSize..kTotalSize
  BY <1>3, <1>4, <1>5, <1>6 DEF More, Smaller, HeaderSize, Reach
<1>11. ~More => Reach = Len(p)
  BY <1>3, <1>4, <1>5, <1>6 DEF More, Smaller, HeaderSize, Reach
<1>12. i + Step \in Nat /\ kTotalSize \in Nat
  BY <1>3, <1>4, <1>5
<1>13. QED
  BY <1>6, <1>7, <1>8, <1>9, <1>10, <1>11, <1>12 DEF h, p

\* A call already made stays as it is, but that the last one ends.
CallsKept ==
  /\ DOMAIN calls \subseteq DOMAIN calls'
  /\ \A k \in DOMAIN calls :
       /\ calls'[k].uuid = calls[k].uuid /\ calls'[k].type = calls[k].type
       /\ calls'[k].payload = calls[k].payload
       /\ calls[k].status = "Continue" => calls'[k].status = "Continue"

\* Items on the wire stay what they are.
LEMMA ItemStays ==
  ASSUME CallsKept, NEW item \in Items, ItemOK(item)
  PROVE  item \in Items' /\ ItemOK(item)'
<1>1. item.call \in DOMAIN calls /\ item \in [call : DOMAIN calls', chunk : Seq(Symbol)]
  BY DEF Items, CallsKept
<1>2. Header(item.call)' = Header(item.call)
  BY <1>1 DEF CallsKept, Header
<1>3. calls'[item.call].type = calls[item.call].type
      /\ (calls[item.call].status = "Continue" => calls'[item.call].status = "Continue")
  BY <1>1 DEF CallsKept
<1>4. CASE item.chunk = <<>> /\ calls[item.call].type = "End" /\ calls[item.call].status = "Continue"
  BY <1>1, <1>3, <1>4 DEF ItemOK, Items
<1>5. ASSUME NEW data \in Seq(Bytes), item.chunk = Header(item.call) \o data, Len(item.chunk) <= kSplitSize,
             calls[item.call].type \in {"Done", "End"} => data = <<>>
      PROVE  ItemOK(item)'
  BY <1>2, <1>3, <1>5 DEF ItemOK
<1>6. QED
  BY <1>1, <1>4, <1>5 DEF ItemOK, Items

\* So the wire stays what it is.
LEMMA WireStays ==
  ASSUME TypeOK, WireOK, CallsKept
  PROVE  /\ \A item \in Range(wire) : item \in Items' /\ ItemOK(item)'
         /\ wire \in Seq(Items')
<1>1. wire \in Seq(Items) /\ \A item \in Range(wire) : item \in Items
  BY TypesOfCalls, LenProperties, ElementOfSeq DEF Range
<1>2. \A item \in Range(wire) : item \in Items' /\ ItemOK(item)'
  BY <1>1, ItemStays DEF WireOK
<1>3. Items \subseteq Items'
  BY DEF Items, CallsKept
<1>4. QED
  BY <1>1, <1>2, <1>3, SeqMonotonic

\* The wire with one more item.
LEMMA WireGrows ==
  ASSUME TypeOK, WireOK, CallsKept, NEW item \in Items', ItemOK(item)', wire' = Append(wire, item)
  PROVE  /\ WireOK' /\ wire' \in Seq(Items')
         /\ Range(wire') = Range(wire) \cup {item}
<1>1. wire \in Seq(Items') /\ \A other \in Range(wire) : ItemOK(other)'
  BY WireStays
<1>2. /\ Len(wire) \in Nat /\ DOMAIN wire = 1..Len(wire)
      /\ Append(wire, item) \in Seq(Items') /\ DOMAIN Append(wire, item) = 1..(Len(wire) + 1)
      /\ \A n \in 1..Len(wire) : Append(wire, item)[n] = wire[n]
      /\ Append(wire, item)[Len(wire) + 1] = item
  <2> DEFINE I == Items'
  <2>1. wire \in Seq(I) /\ item \in I
    BY <1>1
  <2> HIDE DEF I
  <2>2. /\ Len(wire) \in Nat /\ DOMAIN wire = 1..Len(wire)
        /\ Append(wire, item) \in Seq(I) /\ Len(Append(wire, item)) = Len(wire) + 1
        /\ \A n \in 1..Len(wire) : Append(wire, item)[n] = wire[n]
        /\ Append(wire, item)[Len(wire) + 1] = item
    BY <2>1, AppendProperties, LenProperties
  <2>3. DOMAIN Append(wire, item) = 1..(Len(wire) + 1)
    BY <2>2, LenProperties
  <2>4. QED
    BY <2>2, <2>3 DEF I
<1>3. 1..(Len(wire) + 1) = 1..Len(wire) \cup {Len(wire) + 1}
  BY <1>2
<1>4. Range(Append(wire, item)) = Range(wire) \cup {item}
  <2>1. ASSUME NEW other \in Range(Append(wire, item))
        PROVE  other \in Range(wire) \cup {item}
    BY <1>2, <1>3, <2>1 DEF Range
  <2>2. ASSUME NEW other \in Range(wire)
        PROVE  other \in Range(Append(wire, item))
    BY <1>2, <1>3, <2>2 DEF Range
  <2>3. item \in Range(Append(wire, item))
    BY <1>2, <1>3 DEF Range
  <2>4. QED
    BY <2>1, <2>2, <2>3
<1>5. Range(wire') = Range(wire) \cup {item}
  BY <1>4
<1>6. WireOK'
  <2>1. \A other \in Range(wire') : ItemOK(other)'
    BY <1>1, <1>5
  <2>2. QED
    BY <2>1 DEF WireOK
<1>7. QED
  BY <1>2, <1>5, <1>6

-----------------------------------------------------------------------------
(* What the actions do to the calls and to what was handed over *)

Call == [uuid : Uuids, type : SendType, payload : Payloads,
         status : {"running", "Continue", "Stop"}]
Marker(k) == [call |-> k, chunk |-> <<>>]

\* The front of a payload is a prefix of it.
LEMMA FrontIsPrefix ==
  ASSUME NEW D, NEW p \in Seq(D), NEW r \in 0..Len(p)
  PROVE  IsPrefix(SubSeq(p, 1, r), p) /\ SubSeq(p, 1, Len(p)) = p /\ SubSeq(p, 1, 0) = <<>>
<1> DEFINE front == SubSeq(p, 1, r)
<1>1. Len(p) \in Nat /\ \A n \in 1..Len(p) : p[n] \in D
  BY LenProperties, ElementOfSeq
<1>2. front \in Seq(D) /\ Len(front) = r
  <2>1. \A n \in 1..r : p[n] \in D
    BY <1>1
  <2>2. 1 \in Int /\ r \in Int /\ (IF 1 <= r THEN r - 1 + 1 ELSE 0) = r
    BY <1>1
  <2>3. QED
    BY <2>1, <2>2, SubSeqProperties
<1>3. SubSeq(p, 1, Len(p)) = p
  BY SubSeqFull
<1>4. SubSeq(p, 1, 0) = <<>>
  BY SubSeqEmpty
<1>5. SubSeq(front, 1, Len(front)) = front
  <2> HIDE DEF front
  <2>1. QED
    BY <1>2, SubSeqFull
<1>6. IsPrefix(front, p)
  <2>1. Len(front) <= Len(p) /\ SubSeq(p, 1, Len(front)) = front
    BY <1>1, <1>2
  <2>2. QED
    BY <1>5, <2>1 DEF IsPrefix
<1>7. QED
  BY <1>3, <1>4, <1>6

\* A new call comes behind the others.
LEMMA CallBegins ==
  ASSUME TypeOK, NEW uuid \in Uuids, NEW type \in SendType, NEW payload \in Payloads,
         calls' = Append(calls, [uuid |-> uuid, type |-> type, payload |-> payload,
                                 status |-> "running"])
  PROVE  /\ CallsKept /\ calls' \in Seq(Call) /\ Len(calls') = Latest + 1 /\ Latest \in Nat
         /\ DOMAIN calls = 1..Latest /\ DOMAIN calls' = 1..(Latest + 1)
         /\ \A k \in 1..Latest : calls'[k] = calls[k]
         /\ calls'[Latest + 1] = [uuid |-> uuid, type |-> type, payload |-> payload,
                                status |-> "running"]
<1> DEFINE new == [uuid |-> uuid, type |-> type, payload |-> payload, status |-> "running"]
<1>1. calls \in Seq(Call) /\ new \in Call
  BY DEF TypeOK, Call
<1> HIDE DEF new
<1>2. /\ Latest \in Nat /\ DOMAIN calls = 1..Latest
      /\ Append(calls, new) \in Seq(Call) /\ Len(Append(calls, new)) = Latest + 1
      /\ \A k \in 1..Latest : Append(calls, new)[k] = calls[k]
      /\ Append(calls, new)[Latest + 1] = new
  BY <1>1, AppendProperties, LenProperties DEF Latest
<1>3. calls' = Append(calls, new)
  BY DEF new
<1>4. DOMAIN calls' = 1..(Latest + 1)
  BY <1>2, <1>3, LenProperties
<1>5. CallsKept
  BY <1>2, <1>3, <1>4 DEF CallsKept
<1>6. QED
  BY <1>2, <1>3, <1>4, <1>5 DEF new

\* The end of the running call changes its status and nothing else.
LEMMA CallEnds ==
  ASSUME TypeOK, StatusOK, pc # "idle", NEW s \in {"Continue", "Stop"},
         calls' = [calls EXCEPT ![Len(calls)].status = s]
  PROVE  /\ CallsKept /\ calls' \in Seq(Call) /\ Len(calls') = Latest /\ Latest \in DOMAIN calls
         /\ DOMAIN calls' = DOMAIN calls
         /\ \A k \in DOMAIN calls : calls'[k].status = IF k = Latest THEN s ELSE calls[k].status
<1>1. calls \in Seq(Call)
  BY DEF TypeOK, Call
<1>2. /\ Latest \in DOMAIN calls /\ DOMAIN calls = 1..Latest /\ Latest \in Nat
      /\ \A k \in DOMAIN calls : calls[k] \in Call
  BY <1>1, TypesOfCalls, ElementOfSeq DEF Call
<1>3. [calls[Latest] EXCEPT !.status = s] \in Call
  <2>1. calls[Latest] \in Call
    BY <1>2
  <2>2. QED
    BY <2>1 DEF Call
<1>4. calls' = [calls EXCEPT ![Latest] = [calls[Latest] EXCEPT !.status = s]]
  BY DEF Latest
<1>5. /\ calls' \in Seq(Call) /\ Len(calls') = Latest
      /\ \A k \in 1..Latest :
           calls'[k] = IF k = Latest THEN [calls[Latest] EXCEPT !.status = s] ELSE calls[k]
  BY <1>1, <1>2, <1>3, <1>4, ExceptSeq DEF Latest
<1>6. DOMAIN calls' = DOMAIN calls
  BY <1>2, <1>5, LenProperties
<1>7. \A k \in DOMAIN calls :
        /\ calls'[k].status = IF k = Latest THEN s ELSE calls[k].status
        /\ calls'[k].uuid = calls[k].uuid /\ calls'[k].type = calls[k].type
        /\ calls'[k].payload = calls[k].payload
  BY <1>2, <1>5 DEF Call
<1>8. calls[Latest].status = "running"
  BY <1>2 DEF StatusOK
<1>9. CallsKept
  BY <1>6, <1>7, <1>8 DEF CallsKept
<1>10. QED
  BY <1>2, <1>5, <1>6, <1>7, <1>9

\* What a call means stays.
LEMMA MeantStays ==
  ASSUME CallsKept, NEW k \in DOMAIN calls
  PROVE  Meant(k)' = Meant(k)
BY DEF CallsKept, Meant

\* A piece brings what was handed over up to where it ends, in its own call.
LEMMA PieceSent ==
  ASSUME TypeOK, WireOK, ProgressOK, pc = "sending", CallsKept,
         wire' = Append(wire, [call |-> Len(calls), chunk |-> ToSend])
  PROVE  /\ WireOK' /\ wire' \in Seq(Items')
         /\ \A k \in DOMAIN calls :
              /\ Sent(k)' = IF k = Latest THEN SubSeq(Meant(k), 1, Reach) ELSE Sent(k)
              /\ Marker(k) \in Range(wire') <=> Marker(k) \in Range(wire)
<1> DEFINE data == SubSeq(Meant(Latest), Carried + 1, Reach)
<1>0. PICK item : item = [call |-> Len(calls), chunk |-> ToSend]
  OBVIOUS
<1>1. /\ data \in Seq(Bytes) /\ Carried \in Nat /\ Reach \in Carried..Len(Meant(Latest))
      /\ ToSend = Header(Latest) \o data /\ Len(ToSend) <= kSplitSize
  BY NextPiece
<1>2. /\ Latest \in DOMAIN calls /\ wire \in Seq(Items) /\ Meant(Latest) \in Seq(Bytes)
      /\ Meant(Latest) = MeantOf(calls[Latest].type, calls[Latest].payload)
      /\ Len(Meant(Latest)) \in Nat
  BY TypesOfCalls, LenProperties
<1>3. calls[Latest].type \in {"Done", "End"} => data = <<>>
  <2>1. SUFFICES ASSUME calls[Latest].type \in {"Done", "End"} PROVE Reach < Carried + 1
    BY <1>1, SubSeqEmpty
  <2>2. Meant(Latest) = <<>>
    BY <1>2, <2>1 DEF MeantOf
  <2>3. Len(Meant(Latest)) = 0
    BY <2>2
  <2>4. QED
    BY <1>1, <2>3
<1> HIDE DEF data
<1>4. /\ ToSend \in Seq(Symbol) /\ ToSend # <<>> /\ ExtractToParts(ToSend).data = data
  BY <1>1, <1>2, <1>3, PieceOfCall
<1>5. item \in Items /\ ItemOK(item)
  <2>1. item \in Items /\ item.call = Latest /\ item.chunk = ToSend
    BY <1>0, <1>2, <1>4 DEF Items, Latest
  <2>2. QED
    BY <1>1, <1>3, <2>1 DEF ItemOK
<1>6. item.call = Latest /\ item.chunk = ToSend /\ wire' = Append(wire, item)
  BY <1>0 DEF Latest
<1>7. item \in Items' /\ ItemOK(item)'
  BY <1>5, ItemStays
<1>8. WireOK' /\ wire' \in Seq(Items') /\ Range(wire') = Range(wire) \cup {item}
  BY <1>6, <1>7, WireGrows
<1>9. ASSUME NEW k \in DOMAIN calls
      PROVE  /\ Sent(k)' = IF k = Latest THEN SubSeq(Meant(k), 1, Reach) ELSE Sent(k)
             /\ Marker(k) \in Range(wire') <=> Marker(k) \in Range(wire)
  <2>1. /\ Data(k, item) \in Seq(Bytes)
        /\ Data(k, item) = IF k = Latest THEN data ELSE <<>>
    <3>1. <<>> \in Seq(Bytes)
      OBVIOUS
    <3>2. QED
      BY <1>1, <1>4, <1>6, <3>1 DEF Data, data
  <2>2. /\ Sent(k) \in Seq(Bytes)
        /\ SentIn(Append(wire, item), k) = Sent(k) \o Data(k, item)
    BY <1>5, <2>1, SentGrows
  <2>3. Sent(k)' = Sent(k) \o Data(k, item)
    BY <1>6, <2>2 DEF Sent, SentIn
  <2>4. CASE k # Latest
    <3>1. Sent(k) \o <<>> = Sent(k)
      BY <2>2, ConcatEmptySeq
    <3>2. QED
      BY <1>4, <1>6, <1>8, <2>1, <2>3, <2>4, <3>1 DEF Marker
  <2>5. CASE k = Latest
    <3>1. Sent(Latest) = SubSeq(Meant(Latest), 1, Carried)
      BY DEF ProgressOK
    <3>2. SubSeq(Meant(Latest), 1, Carried) \o SubSeq(Meant(Latest), Carried + 1, Reach)
            = SubSeq(Meant(Latest), 1, Reach)
      <4>1. /\ 1 \in 1..(Len(Meant(Latest)) + 1) /\ Carried \in (1 - 1)..Len(Meant(Latest))
        BY <1>1, <1>2
      <4>2. QED
        BY <1>1, <1>2, <4>1, ConcatAdjacentSubSeq
    <3>3. Sent(k)' = SubSeq(Meant(k), 1, Reach)
      BY <2>1, <2>3, <2>5, <3>1, <3>2 DEF data
    <3>4. item # Marker(k)
      BY <1>4, <1>6 DEF Marker
    <3>5. QED
      BY <1>8, <2>5, <3>3, <3>4
  <2>6. QED
    BY <2>4, <2>5
<1>10. QED
  BY <1>8, <1>9

\* The end of the stream adds nothing to what is read.
LEMMA MarkerSent ==
  ASSUME TypeOK, WireOK, CallsKept, Latest \in DOMAIN calls,
         calls'[Latest].type = "End", calls'[Latest].status = "Continue",
         wire' = Append(wire, [call |-> Len(calls), chunk |-> <<>>])
  PROVE  /\ WireOK' /\ wire' \in Seq(Items')
         /\ \A k \in DOMAIN calls :
              /\ Sent(k)' = Sent(k)
              /\ Marker(k) \in Range(wire') <=> (k = Latest \/ Marker(k) \in Range(wire))
<1>0. PICK item : item = Marker(Latest)
  OBVIOUS
<1>1. item \in Items /\ item.call = Latest /\ item.chunk = <<>>
  <2>1. <<>> \in Seq(Symbol)
    OBVIOUS
  <2>2. QED
    BY <1>0, <2>1 DEF Items, Marker
<1>2. wire' = Append(wire, item) /\ wire \in Seq(Items)
  BY <1>0, TypesOfCalls DEF Latest, Marker
<1>3. \A k \in DOMAIN calls : item = Marker(k) <=> k = Latest
  BY <1>0 DEF Marker
<1>4. item \in Items' /\ ItemOK(item)'
  BY <1>1 DEF Items, CallsKept, ItemOK
<1>5. WireOK' /\ wire' \in Seq(Items') /\ Range(wire') = Range(wire) \cup {item}
  BY <1>2, <1>4, WireGrows
<1>6. ASSUME NEW k \in DOMAIN calls
      PROVE  Sent(k)' = Sent(k)
  <2>1. Data(k, item) \in Seq(Bytes) /\ Data(k, item) = <<>>
    <3>1. <<>> \in Seq(Bytes)
      OBVIOUS
    <3>2. QED
      BY <1>1, <3>1 DEF Data
  <2>2. /\ Sent(k) \in Seq(Bytes)
        /\ SentIn(Append(wire, item), k) = Sent(k) \o Data(k, item)
    BY <1>1, <2>1, SentGrows
  <2>3. Sent(k) \o <<>> = Sent(k)
    BY <2>2, ConcatEmptySeq
  <2>4. QED
    BY <1>2, <2>1, <2>2, <2>3 DEF Sent, SentIn
<1>7. QED
  BY <1>3, <1>5, <1>6

\* Without a piece it is what it was.
LEMMA NothingSent ==
  ASSUME TypeOK, WireOK, CallsKept, UNCHANGED wire
  PROVE  /\ WireOK' /\ wire' \in Seq(Items')
         /\ \A k \in DOMAIN calls :
              /\ Sent(k)' = Sent(k)
              /\ Marker(k) \in Range(wire') <=> Marker(k) \in Range(wire)
<1>1. wire \in Seq(Items') /\ \A item \in Range(wire) : ItemOK(item)'
  BY WireStays
<1>2. WireOK'
  <2>1. \A item \in Range(wire') : ItemOK(item)'
    BY <1>1
  <2>2. QED
    BY <2>1 DEF WireOK
<1>3. QED
  BY <1>1, <1>2 DEF Sent

\* Only what was handed over is lost.
LEMMA LossesAreSent ==
  ASSUME TypeOK, NEW chunk, UNCHANGED <<wire, lost>> \/ HandOver(chunk)
  PROVE  lost' \subseteq DOMAIN wire'
<1>1. CASE UNCHANGED <<wire, lost>>
  BY <1>1 DEF TypeOK
<1>2. CASE HandOver(chunk)
  <2> DEFINE item == [call |-> Len(calls), chunk |-> chunk]
             I == Items \cup {item}
  <2>1. wire \in Seq(I) /\ item \in I
    <3>1. wire \in Seq(Items) /\ Items \subseteq I
      BY TypesOfCalls
    <3> HIDE DEF I
    <3>2. wire \in Seq(I)
      BY <3>1, SeqMonotonic
    <3>3. QED
      BY <3>2 DEF I
  <2>2. wire' = Append(wire, item)
    BY <1>2 DEF HandOver
  <2> HIDE DEF item, I
  <2>3. /\ Len(wire) \in Nat /\ DOMAIN wire = 1..Len(wire)
        /\ wire' \in Seq(I) /\ Len(wire') = Len(wire) + 1
    BY <2>1, <2>2, AppendProperties, LenProperties
  <2>4. DOMAIN wire' = 1..(Len(wire) + 1)
    BY <2>3, LenProperties
  <2>5. lost \subseteq 1..Len(wire) /\ lost' \subseteq lost \cup {Len(wire')}
    BY <1>2, <2>3 DEF TypeOK, HandOver
  <2>6. QED
    BY <2>3, <2>4, <2>5
<1>3. QED
  BY <1>1, <1>2

-----------------------------------------------------------------------------
(* The invariant is inductive *)

\* A step of the running call leaves the invariant alone, if it does so for that call.
LEMMA OthersKeep ==
  ASSUME Inv, pc # "idle", CallsKept, calls' \in Seq(Call), DOMAIN calls' = DOMAIN calls,
         Len(calls') = Latest, pc' \in {"idle", "sending", "breaching"}, i' \in Nat,
         \A k \in DOMAIN calls :
           IF k = Latest
             THEN /\ calls'[k].status = "running" <=> pc' # "idle"
                  /\ IsPrefix(Sent(k)', Meant(k))
                  /\ calls'[k].status = "Continue" => Sent(k)' = Meant(k)
                  /\ calls[k].type = "End" =>
                       (calls'[k].status = "Continue" <=> Marker(k) \in Range(wire'))
             ELSE /\ calls'[k].status = calls[k].status
                  /\ Sent(k)' = Sent(k)
                  /\ Marker(k) \in Range(wire') <=> Marker(k) \in Range(wire),
         WireOK', wire' \in Seq(Items'), ProgressOK', lost' \subseteq DOMAIN wire'
  PROVE  Inv'
<1>1. Latest \in DOMAIN calls /\ calls # <<>> /\ DOMAIN calls = 1..Latest /\ Latest \in Nat
  BY TypesOfCalls DEF Inv, TypeOK
<1>2. TypeOK'
  <2>1. calls' # <<>>
    <3>1. Len(calls') # 0
      BY <1>1
    <3>2. QED
      BY <3>1
  <2>2. QED
    BY <2>1 DEF TypeOK, Call, Items, Symbol
<1>3. StatusOK'
  <2>1. \A k \in DOMAIN calls : calls'[k].status = "running" <=> (pc' # "idle" /\ k = Latest)
    BY DEF Inv, StatusOK
  <2>2. QED
    BY <2>1 DEF StatusOK, Latest
<1>4. HandedOver'
  <2>1. ASSUME NEW k \in DOMAIN calls
        PROVE  /\ IsPrefix(Sent(k)', Meant(k)')
               /\ calls'[k].status = "Continue" => Sent(k)' = Meant(k)'
               /\ calls'[k].type = "End" =>
                    (calls'[k].status = "Continue" <=> [call |-> k, chunk |-> <<>>] \in Range(wire'))
    <3>1. Meant(k)' = Meant(k) /\ calls'[k].type = calls[k].type
      BY MeantStays DEF CallsKept
    <3>2. CASE k = Latest
      BY <3>1, <3>2 DEF Marker
    <3>3. CASE k # Latest
      <4>1. /\ IsPrefix(Sent(k), Meant(k))
            /\ calls[k].status = "Continue" => Sent(k) = Meant(k)
            /\ calls[k].type = "End" =>
                 (calls[k].status = "Continue" <=> Marker(k) \in Range(wire))
        BY DEF Inv, HandedOver, Marker
      <4>2. QED
        BY <3>1, <3>3, <4>1 DEF Marker
    <3>4. QED
      BY <3>2, <3>3
  <2>2. QED
    BY <2>1 DEF HandedOver
<1>5. QED
  BY <1>2, <1>3, <1>4 DEF Inv

\* What the invariant says of the running call.
LEMMA RunningCall ==
  ASSUME Inv, pc # "idle"
  PROVE  /\ TypeOK /\ WireOK /\ StatusOK /\ ProgressOK
         /\ Latest \in DOMAIN calls /\ This = calls[Latest] /\ calls \in Seq(Call)
         /\ calls[Latest].status = "running" /\ Meant(Latest) \in Seq(Bytes)
         /\ calls[Latest].type \in {"Done", "End"} => Meant(Latest) = <<>>
         /\ IsPrefix(Sent(Latest), Meant(Latest))
         /\ calls[Latest].type = "End" => Marker(Latest) \notin Range(wire)
<1>1. /\ Latest \in DOMAIN calls /\ This = calls[Latest] /\ Meant(Latest) \in Seq(Bytes)
      /\ Meant(Latest) = MeantOf(calls[Latest].type, calls[Latest].payload)
  BY TypesOfCalls DEF Inv
<1>2. calls[Latest].status = "running"
  BY <1>1 DEF Inv, StatusOK
<1>3. QED
  BY <1>1, <1>2 DEF Inv, TypeOK, Call, HandedOver, Marker, MeantOf

\* The calls stay.
LEMMA CallsStay ==
  ASSUME TypeOK, UNCHANGED calls
  PROVE  /\ CallsKept /\ calls' \in Seq(Call) /\ Len(calls') = Latest /\ DOMAIN calls' = DOMAIN calls
         /\ \A k \in DOMAIN calls : calls'[k] = calls[k]
BY DEF TypeOK, Call, CallsKept, Latest

\* A piece with more behind it.
LEMMA MoreToSend ==
  ASSUME Inv, pc = "sending", More, UNCHANGED <<pc, calls>>, i' = i + Step,
         HandOver(ToSend)
  PROVE  Inv'
<1>0. wire' = Append(wire, [call |-> Len(calls), chunk |-> ToSend]) /\ lost' \subseteq DOMAIN wire'
  BY LossesAreSent DEF HandOver, Inv
<1>1. /\ TypeOK /\ WireOK /\ StatusOK /\ ProgressOK /\ Latest \in DOMAIN calls
      /\ calls[Latest].status = "running" /\ Meant(Latest) \in Seq(Bytes)
      /\ calls[Latest].type = "End" => Marker(Latest) \notin Range(wire)
  BY RunningCall
<1>2. /\ CallsKept /\ calls' \in Seq(Call) /\ Len(calls') = Latest /\ DOMAIN calls' = DOMAIN calls
      /\ \A k \in DOMAIN calls : calls'[k] = calls[k]
  BY <1>1, CallsStay
<1>3. /\ WireOK' /\ wire' \in Seq(Items')
      /\ \A k \in DOMAIN calls :
           /\ Sent(k)' = IF k = Latest THEN SubSeq(Meant(k), 1, Reach) ELSE Sent(k)
           /\ Marker(k) \in Range(wire') <=> Marker(k) \in Range(wire)
  BY <1>0, <1>1, <1>2, PieceSent
<1>4. /\ Carried \in Nat /\ Reach \in Carried..Len(Meant(Latest))
      /\ Reach = (i + Step) - HeaderSize /\ kTotalSize > kSplitSize
      /\ i + Step \in kSplitSize..kTotalSize
  BY <1>1, NextPiece
<1>5. kSplitSize \in Nat /\ kSplitSize > HeaderSize /\ HeaderSize = 4
  BY Assumptions DEF Assumptions, HeaderSize
<1>6. Len(Meant(Latest)) \in Nat
  BY <1>1, LenProperties
<1>7. i' \in Nat /\ i' # 0 /\ Carried' = Reach /\ Reach \in 0..Len(Meant(Latest))
  BY <1>4, <1>5, <1>6 DEF Carried, HeaderSize
<1>8. Latest' = Latest
  BY <1>2 DEF Latest
<1>9. ProgressOK'
  <2>1. kTotalSize' = kTotalSize
    BY DEF kTotalSize, kTotalToSend, This
  <2>2. i' \in kSplitSize..kTotalSize'
    BY <1>4, <2>1
  <2>3. ASSUME NEW k, k = Latest
        PROVE  Sent(k)' = SubSeq(Meant(k)', 1, Carried')
    <3>1. Meant(k)' = Meant(k)
      BY <1>1, <1>2, <2>3, MeantStays
    <3>2. QED
      BY <1>1, <1>3, <1>7, <2>3, <3>1
  <2>4. Sent(Latest)' = SubSeq(Meant(Latest)', 1, Carried')
    BY <1>8, <2>3
  <2>5. QED
    BY <1>4, <2>1, <2>2, <2>4 DEF ProgressOK
<1>10. ASSUME NEW k \in DOMAIN calls, k = Latest
       PROVE  IsPrefix(Sent(k)', Meant(k))
  <2>1. Sent(k)' = SubSeq(Meant(k), 1, Reach) /\ Meant(k) \in Seq(Bytes) /\ Reach \in 0..Len(Meant(k))
    BY <1>1, <1>3, <1>7, <1>10
  <2> HIDE DEF Reach
  <2>2. IsPrefix(SubSeq(Meant(k), 1, Reach), Meant(k))
    BY <2>1, FrontIsPrefix
  <2>3. QED
    BY <2>1, <2>2
<1>11. QED
  BY <1>0, <1>1, <1>2, <1>3, <1>7, <1>9, <1>10, OthersKeep

\* The last piece, and with it all of the payload.
LEMMA LastSent ==
  ASSUME Inv, pc = "sending", ~More, i' = i + Step,
         HandOver(ToSend),
         \/ calls[Latest].type = "End" /\ pc' = "breaching" /\ UNCHANGED calls
         \/ calls[Latest].type # "End" /\ pc' = "idle" /\ Continue
  PROVE  Inv'
<1>0. wire' = Append(wire, [call |-> Len(calls), chunk |-> ToSend]) /\ lost' \subseteq DOMAIN wire'
  BY LossesAreSent DEF HandOver, Inv
<1>1. /\ TypeOK /\ WireOK /\ StatusOK /\ ProgressOK /\ Latest \in DOMAIN calls
      /\ calls[Latest].status = "running" /\ Meant(Latest) \in Seq(Bytes)
      /\ calls[Latest].type = "End" => Marker(Latest) \notin Range(wire)
  BY RunningCall
<1>2. /\ CallsKept /\ calls' \in Seq(Call) /\ Len(calls') = Latest /\ DOMAIN calls' = DOMAIN calls
      /\ \A k \in DOMAIN calls : k # Latest => calls'[k].status = calls[k].status
      /\ calls'[Latest].status = IF calls[Latest].type = "End" THEN "running" ELSE "Continue"
      /\ calls'[Latest].type = calls[Latest].type
  <2>1. CASE calls[Latest].type = "End" /\ pc' = "breaching" /\ UNCHANGED calls
    BY <1>1, <2>1, CallsStay
  <2>2. CASE calls[Latest].type # "End" /\ pc' = "idle" /\ Continue
    <3>1. calls' = [calls EXCEPT ![Len(calls)].status = "Continue"]
      BY <2>2 DEF Continue
    <3>2. /\ CallsKept /\ calls' \in Seq(Call) /\ Len(calls') = Latest /\ DOMAIN calls' = DOMAIN calls
          /\ \A k \in DOMAIN calls :
               calls'[k].status = IF k = Latest THEN "Continue" ELSE calls[k].status
      BY <1>1, <3>1, CallEnds
    <3>3. QED
      BY <1>1, <2>2, <3>2 DEF CallsKept
  <2>3. QED
    BY <2>1, <2>2
<1>3. /\ WireOK' /\ wire' \in Seq(Items')
      /\ \A k \in DOMAIN calls :
           /\ Sent(k)' = IF k = Latest THEN SubSeq(Meant(k), 1, Reach) ELSE Sent(k)
           /\ Marker(k) \in Range(wire') <=> Marker(k) \in Range(wire)
  BY <1>0, <1>1, <1>2, PieceSent
<1>4. Reach = Len(Meant(Latest)) /\ i' \in Nat
  BY <1>1, NextPiece
<1>5. \A k \in DOMAIN calls : k = Latest => Sent(k)' = Meant(k) /\ IsPrefix(Sent(k)', Meant(k))
  <2>1. Len(Meant(Latest)) \in 0..Len(Meant(Latest))
    BY <1>1, LenProperties
  <2>2. SubSeq(Meant(Latest), 1, Reach) = Meant(Latest) /\ IsPrefix(Meant(Latest), Meant(Latest))
    BY <1>1, <1>4, <2>1, FrontIsPrefix
  <2>3. QED
    BY <1>3, <2>2
<1>6. ProgressOK'
  <2>1. pc' = "breaching" => calls'[Len(calls')].type = "End"
    BY <1>2
  <2>2. QED
    BY <2>1 DEF ProgressOK, This
<1>7. QED
  BY <1>0, <1>1, <1>2, <1>3, <1>4, <1>5, <1>6, OthersKeep

\* The Kraken did not take the piece.
LEMMA NotSent ==
  ASSUME Inv, pc = "sending", i' = i + Step, UNCHANGED <<wire, lost>>,
         \/ calls[Latest].type = "End" /\ pc' = "breaching" /\ UNCHANGED calls
         \/ pc' = "idle" /\ Stop
  PROVE  Inv'
<1>0. wire' = wire /\ lost' \subseteq DOMAIN wire'
  BY LossesAreSent DEF Inv
<1>1. /\ TypeOK /\ WireOK /\ StatusOK /\ ProgressOK /\ Latest \in DOMAIN calls
      /\ calls[Latest].status = "running" /\ IsPrefix(Sent(Latest), Meant(Latest))
      /\ calls[Latest].type = "End" => Marker(Latest) \notin Range(wire)
  BY RunningCall
<1>2. /\ CallsKept /\ calls' \in Seq(Call) /\ Len(calls') = Latest /\ DOMAIN calls' = DOMAIN calls
      /\ \A k \in DOMAIN calls : k # Latest => calls'[k].status = calls[k].status
      /\ calls'[Latest].status = IF pc' = "idle" THEN "Stop" ELSE "running"
      /\ calls'[Latest].type = calls[Latest].type
  <2>1. CASE calls[Latest].type = "End" /\ pc' = "breaching" /\ UNCHANGED calls
    BY <1>1, <2>1, CallsStay
  <2>2. CASE pc' = "idle" /\ Stop
    <3>1. calls' = [calls EXCEPT ![Len(calls)].status = "Stop"]
      BY <2>2 DEF Stop
    <3>2. /\ CallsKept /\ calls' \in Seq(Call) /\ Len(calls') = Latest /\ DOMAIN calls' = DOMAIN calls
          /\ \A k \in DOMAIN calls :
               calls'[k].status = IF k = Latest THEN "Stop" ELSE calls[k].status
      BY <1>1, <3>1, CallEnds
    <3>3. QED
      BY <1>1, <2>2, <3>2 DEF CallsKept
  <2>3. QED
    BY <2>1, <2>2
<1>3. /\ WireOK' /\ wire' \in Seq(Items')
      /\ \A k \in DOMAIN calls :
           /\ Sent(k)' = Sent(k)
           /\ Marker(k) \in Range(wire') <=> Marker(k) \in Range(wire)
  BY <1>0, <1>1, <1>2, NothingSent
<1>4. i' \in Nat
  BY <1>1, NextPiece
<1>5. ProgressOK'
  <2>1. pc' = "breaching" => calls'[Len(calls')].type = "End"
    BY <1>2
  <2>2. QED
    BY <2>1 DEF ProgressOK, This
<1>6. QED
  BY <1>0, <1>1, <1>2, <1>3, <1>4, <1>5, OthersKeep

\* FinalBreach decides the status of an End.
LEMMA BreachKeeps ==
  ASSUME Inv, NEW result \in Battling, FinalBreach(result)
  PROVE  Inv'
<1>0. pc = "breaching" /\ pc' = "idle" /\ UNCHANGED i
  BY DEF FinalBreach
<1>1. /\ TypeOK /\ WireOK /\ StatusOK /\ ProgressOK /\ Latest \in DOMAIN calls /\ This = calls[Latest]
      /\ calls[Latest].status = "running" /\ IsPrefix(Sent(Latest), Meant(Latest))
      /\ calls[Latest].type = "End" => Marker(Latest) \notin Range(wire)
      /\ calls[Latest].type \in {"Done", "End"} => Meant(Latest) = <<>>
  BY <1>0, RunningCall
<1>2. calls[Latest].type = "End" /\ i' \in Nat
  BY <1>0, <1>1 DEF ProgressOK, TypeOK
<1>3. Sent(Latest) = Meant(Latest)
  <2>1. wire \in Seq(Items) /\ Sent(Latest) \in Seq(Bytes)
    <3>1. PICK item : item = Marker(Latest)
      OBVIOUS
    <3>2. item \in Items /\ Data(Latest, item) \in Seq(Bytes)
      <4>1. <<>> \in Seq(Symbol) /\ <<>> \in Seq(Bytes)
        OBVIOUS
      <4>2. QED
        BY <1>1, <3>1, <4>1 DEF Items, Marker, Data
    <3>3. QED
      BY <1>1, <3>2, TypesOfCalls, SentGrows
  <2>2. Len(Sent(Latest)) <= Len(<<>>) /\ Len(Sent(Latest)) \in Nat
    BY <1>1, <1>2, <2>1, LenProperties DEF IsPrefix
  <2>3. Len(Sent(Latest)) = 0
    BY <2>2, EmptySeq
  <2>4. QED
    BY <1>1, <1>2, <2>1, <2>3, EmptySeq
<1>4. PICK s \in {"Continue", "Stop"} :
        /\ calls' = [calls EXCEPT ![Len(calls)].status = s]
        /\ IF s = "Continue" THEN wire' = Append(wire, [call |-> Len(calls), chunk |-> <<>>])
                             ELSE UNCHANGED wire
        /\ lost' \subseteq DOMAIN wire'
  <2>1. UNCHANGED <<wire, lost>> \/ HandOver(<<>>)
    BY DEF FinalBreach
  <2>2. lost' \subseteq DOMAIN wire'
    BY <1>1, <2>1, LossesAreSent
  <2>3. QED
    BY <2>2 DEF FinalBreach, Continue, Stop, HandOver
<1>5. /\ CallsKept /\ calls' \in Seq(Call) /\ Len(calls') = Latest /\ DOMAIN calls' = DOMAIN calls
      /\ \A k \in DOMAIN calls :
           calls'[k].status = IF k = Latest THEN s ELSE calls[k].status
  BY <1>0, <1>1, <1>4, CallEnds
<1>6. /\ WireOK' /\ wire' \in Seq(Items')
      /\ \A k \in DOMAIN calls :
           /\ Sent(k)' = Sent(k)
           /\ Marker(k) \in Range(wire') <=> (s = "Continue" /\ k = Latest) \/ Marker(k) \in Range(wire)
  <2>1. CASE s = "Continue"
    <3>1. calls'[Latest].type = "End" /\ calls'[Latest].status = "Continue"
      BY <1>1, <1>2, <1>5, <2>1 DEF CallsKept
    <3>2. QED
      BY <1>1, <1>4, <1>5, <2>1, <3>1, MarkerSent
  <2>2. CASE s # "Continue"
    BY <1>1, <1>4, <1>5, <2>2, NothingSent
  <2>3. QED
    BY <2>1, <2>2
<1>7. ProgressOK'
  BY <1>0 DEF ProgressOK
<1>8. QED
  BY <1>0, <1>1, <1>2, <1>3, <1>4, <1>5, <1>6, <1>7, OthersKeep

\* Nothing was sent of a call that only begins.
LEMMA ForwardKeeps ==
  ASSUME Inv, NEW uuid \in Uuids, NEW type \in SendType, NEW payload \in Payloads,
         ForwardChunksToClient(uuid, type, payload)
  PROVE  Inv'
<1> DEFINE new == Latest + 1
<1>0. /\ TypeOK /\ WireOK /\ StatusOK /\ HandedOver /\ pc = "idle" /\ pc' = "sending" /\ i' = 0
      /\ UNCHANGED wire /\ UNCHANGED lost
  BY DEF Inv, ForwardChunksToClient
<1>1. /\ CallsKept /\ calls' \in Seq(Call) /\ Len(calls') = new /\ Latest \in Nat
      /\ DOMAIN calls = 1..Latest /\ DOMAIN calls' = 1..new
      /\ \A k \in 1..Latest : calls'[k] = calls[k]
      /\ calls'[new] = [uuid |-> uuid, type |-> type, payload |-> payload, status |-> "running"]
  BY <1>0, CallBegins DEF ForwardChunksToClient
<1>2. /\ WireOK' /\ wire' \in Seq(Items')
      /\ \A k \in DOMAIN calls :
           /\ Sent(k)' = Sent(k)
           /\ Marker(k) \in Range(wire') <=> Marker(k) \in Range(wire)
  BY <1>0, <1>1, NothingSent
<1>3. \A k \in 1..new : k \in 1..Latest \/ k = new
  BY <1>1
<1>4. TypeOK'
  <2>1. calls' # <<>>
    <3>1. Len(calls') # 0
      BY <1>1
    <3>2. QED
      BY <3>1
  <2>2. QED
    BY <1>0, <1>1, <1>2, <2>1 DEF TypeOK, Call, Items, Symbol
<1>5. StatusOK'
  <2>1. \A k \in 1..Latest : calls'[k].status # "running" /\ k # new
    BY <1>0, <1>1 DEF StatusOK
  <2>2. \A k \in 1..new : calls'[k].status = "running" <=> (pc' # "idle" /\ k = new)
    BY <1>0, <1>1, <1>3, <2>1
  <2>3. QED
    BY <1>1, <2>2 DEF StatusOK, Latest
<1>6. wire \in Seq(Items) /\ \A item \in Range(wire) : item.call # new
  <2>1. wire \in Seq(Items)
    BY <1>0, TypesOfCalls
  <2>2. \A item \in Range(wire) : item \in Items
    BY <2>1, LenProperties, ElementOfSeq DEF Range
  <2>3. new \notin DOMAIN calls
    BY <1>1
  <2>4. QED
    BY <2>1, <2>2, <2>3 DEF Items
<1>7. \A k : k = new => Sent(k)' = <<>> /\ Marker(k) \notin Range(wire')
  <2>1. \A n \in DOMAIN wire : wire[n].call # new
    BY <1>6 DEF Range
  <2>2. \A k : k = new => SentIn(wire, k) = <<>>
    BY <1>6, <2>1, NothingReadOf
  <2>3. QED
    BY <1>0, <1>6, <2>2 DEF Sent, SentIn, Marker
<1>8. ASSUME NEW k, k = new
      PROVE  /\ Meant(k)' \in Seq(Bytes) /\ SubSeq(Meant(k)', 1, 0) = <<>>
             /\ IsPrefix(<<>>, Meant(k)')
  <2>1. Meant(k)' \in Seq(Bytes)
    <3>1. payload \in Seq(Bytes) /\ <<>> \in Seq(Bytes)
      BY Assumptions DEF Assumptions
    <3>2. QED
      BY <1>1, <1>8, <3>1 DEF Meant
  <2>2. PICK p : p = Meant(k)'
    OBVIOUS
  <2>3. 0 \in 0..Len(p) /\ p \in Seq(Bytes)
    BY <2>1, <2>2, LenProperties
  <2>4. IsPrefix(SubSeq(p, 1, 0), p) /\ SubSeq(p, 1, 0) = <<>>
    BY <2>3, FrontIsPrefix
  <2>5. QED
    BY <2>1, <2>2, <2>4
<1>9. ProgressOK'
  <2>1. Latest' = new
    BY <1>1 DEF Latest
  <2>2. Sent(Latest)' = SubSeq(Meant(Latest)', 1, 0)
    BY <1>7, <1>8, <2>1
  <2>3. Carried' = 0
    BY <1>0 DEF Carried
  <2>4. QED
    BY <1>0, <2>2, <2>3 DEF ProgressOK
<1>10. HandedOver'
  <2>1. ASSUME NEW k \in 1..new
        PROVE  /\ IsPrefix(Sent(k)', Meant(k)')
               /\ calls'[k].status = "Continue" => Sent(k)' = Meant(k)'
               /\ calls'[k].type = "End" =>
                    (calls'[k].status = "Continue" <=> [call |-> k, chunk |-> <<>>] \in Range(wire'))
    <3>1. CASE k = new
      BY <1>1, <1>7, <1>8, <3>1 DEF Marker
    <3>2. CASE k \in 1..Latest
      <4>1. Meant(k)' = Meant(k) /\ calls'[k] = calls[k] /\ Sent(k)' = Sent(k)
        BY <1>1, <1>2, <3>2, MeantStays
      <4>2. /\ IsPrefix(Sent(k), Meant(k))
            /\ calls[k].status = "Continue" => Sent(k) = Meant(k)
            /\ calls[k].type = "End" =>
                 (calls[k].status = "Continue" <=> Marker(k) \in Range(wire))
        BY <1>0, <1>1, <3>2 DEF HandedOver, Marker
      <4>3. QED
        BY <1>1, <1>2, <3>2, <4>1, <4>2 DEF Marker
    <3>3. QED
      BY <1>3, <3>1, <3>2
  <2>2. QED
    BY <1>1, <2>1 DEF HandedOver
<1>11. QED
  BY <1>2, <1>4, <1>5, <1>9, <1>10 DEF Inv

\* Every branch of SendTidalWave is one of these.
LEMMA WaveKeeps ==
  ASSUME Inv, NEW result \in Battling, SendTidalWave(result)
  PROVE  Inv'
<1>0. pc = "sending" /\ i' = i + Step
  BY DEF SendTidalWave
<1>1. This = calls[Latest]
  BY <1>0, RunningCall
<1>2. CASE result = "CONTINUE" /\ More
  BY <1>0, <1>2, MoreToSend DEF SendTidalWave
<1>3. CASE result = "CONTINUE" /\ ~More
  <2>1. /\ HandOver(ToSend)
        /\ \/ calls[Latest].type = "End" /\ pc' = "breaching" /\ UNCHANGED calls
           \/ calls[Latest].type # "End" /\ pc' = "idle" /\ Continue
    BY <1>1, <1>3 DEF SendTidalWave
  <2>2. QED
    BY <1>0, <1>3, <2>1, LastSent
<1>4. CASE result # "CONTINUE"
  <2>1. /\ UNCHANGED <<wire, lost>>
        /\ \/ calls[Latest].type = "End" /\ pc' = "breaching" /\ UNCHANGED calls
           \/ pc' = "idle" /\ Stop
    BY <1>1, <1>4 DEF SendTidalWave
  <2>2. QED
    BY <1>0, <2>1, NotSent
<1>5. QED
  BY <1>2, <1>3, <1>4

\* Before anything is sent.
LEMMA InitHolds == Init => Inv
<1>1. SUFFICES ASSUME Init PROVE Inv
  OBVIOUS
<1>2. pc = "idle" /\ i = 0 /\ calls = <<>> /\ wire = <<>> /\ lost = {} /\ DOMAIN calls = {}
  BY <1>1 DEF Init
<1>3. TypeOK
  <2>1. \A S : <<>> \in Seq(S)
    OBVIOUS
  <2>2. QED
    BY <1>2, <2>1 DEF TypeOK
<1>4. WireOK /\ StatusOK /\ ProgressOK /\ HandedOver
  BY <1>2 DEF WireOK, StatusOK, ProgressOK, HandedOver, Range
<1>5. QED
  BY <1>3, <1>4 DEF Inv

\* The invariant is inductive.
LEMMA StepKeeps == Inv /\ [Next]_vars => Inv'
<1>1. SUFFICES ASSUME Inv, [Next]_vars PROVE Inv'
  OBVIOUS
<1>2. CASE \E uuid \in Uuids, type \in SendType, payload \in Payloads :
             ForwardChunksToClient(uuid, type, payload)
  BY <1>1, <1>2, ForwardKeeps
<1>3. CASE \E result \in Battling : SendTidalWave(result)
  BY <1>1, <1>3, WaveKeeps
<1>4. CASE \E result \in Battling : FinalBreach(result)
  BY <1>1, <1>4, BreachKeeps
<1>5. CASE UNCHANGED vars
  BY <1>1, <1>5 DEF Inv, TypeOK, WireOK, ItemOK, Header, StatusOK, Latest, ProgressOK, Carried,
     kTotalSize, kTotalToSend, This, Sent, Meant, HandedOver, vars
<1>6. QED
  BY <1>1, <1>2, <1>3, <1>4, <1>5 DEF Next

\* The invariant of SendChunks and ForwardChunksToClient.
LEMMA AlwaysInv == Spec => []Inv
BY InitHolds, StepKeeps, PTL DEF Spec

-----------------------------------------------------------------------------
(* Theorems *)

\* Every variable has its type.
THEOREM TypeCorrect == Spec => []TypeOK
<1>1. Inv => TypeOK
  BY DEF Inv
<1>2. QED
  BY <1>1, AlwaysInv, PTL

\* Whatever symbols the payloads hold, every piece says what it is part of and fits in
\* one chunk.
THEOREM AlwaysSelfContained == Spec => []PiecesAreSelfContained
<1>1. Inv => PiecesAreSelfContained
  <2>1. SUFFICES ASSUME Inv, NEW n \in DOMAIN wire, wire[n].chunk # <<>>
                 PROVE  LET call == calls[wire[n].call]
                            parts == ExtractToParts(wire[n].chunk)
                        IN /\ parts.uuid = <<IF call.type = "End" THEN emptyUUID ELSE call.uuid>>
                           /\ parts.type = call.type
                           /\ Len(wire[n].chunk) <= kSplitSize
    BY DEF PiecesAreSelfContained
  <2>2. PICK item : item = wire[n]
    OBVIOUS
  <2>3. item \in Items /\ ItemOK(item) /\ TypeOK
    BY <2>1, <2>2, TypesOfCalls, LenProperties, ElementOfSeq DEF Inv, WireOK, Range
  <2>4. PICK data \in Seq(Bytes) :
          /\ item.chunk = Header(item.call) \o data
          /\ Len(item.chunk) <= kSplitSize
          /\ calls[item.call].type \in {"Done", "End"} => data = <<>>
    BY <2>1, <2>2, <2>3 DEF ItemOK
  <2>5. item.call \in DOMAIN calls
    BY <2>3 DEF Items
  <2>6. ExtractToParts(item.chunk) =
          [uuid |-> <<IF calls[item.call].type = "End" THEN emptyUUID ELSE calls[item.call].uuid>>,
           type |-> calls[item.call].type, data |-> data]
    BY <2>3, <2>4, <2>5, PieceOfCall
  <2>7. QED
    BY <2>2, <2>4, <2>6
<1>2. QED
  BY <1>1, AlwaysInv, PTL

\* What is handed over of a message is a prefix of it, and all of it once
\* ForwardChunksToClient said Continue; and so is what a client reads, of each call of
\* which it gets every chunk.
THEOREM AlwaysReassembled == Spec => []Reassembled
<1>1. ASSUME NEW k, Unbroken(k)
      PROVE  Received(k) = Sent(k)
  <2>1. \A n \in DOMAIN wire :
          (IF n \in lost THEN <<>> ELSE Data(k, wire[n])) = Data(k, wire[n])
    BY <1>1 DEF Unbroken, Data
  <2>2. [n \in DOMAIN wire |-> IF n \in lost THEN <<>> ELSE Data(k, wire[n])]
          = [n \in DOMAIN wire |-> Data(k, wire[n])]
    BY <2>1
  <2>3. QED
    BY <2>2 DEF Received, Sent
<1>2. Inv => Reassembled
  BY <1>1 DEF Inv, HandedOver, Reassembled
<1>3. QED
  BY <1>2, AlwaysInv, PTL
=============================================================================
