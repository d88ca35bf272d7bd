-------------------------- MODULE ShotgunAlienProofs --------------------------
(***************************************************************************)
(* What ShotgunAlien keeps for any number of Aliens, any shots and any     *)
(* high water mark: the types, and that every Alien's shots are in order.  *)
(*                                                                         *)
(* Of one Alien, all that was given, can be given and is in the network is *)
(* one increasing sequence, and what is missing from it has been missed.   *)
(* Firing adds to its end or to what is missed; everything else takes a    *)
(* piece out of it, somewhere, and moves that to what is missed.           *)
(***************************************************************************)
EXTENDS ShotgunAlien, SequenceTheorems, TLAPS

-----------------------------------------------------------------------------
(* Sequences *)

Incr(s) == \A i, j \in DOMAIN s : i < j => s[i] < s[j]

\* Of n shots, those in s can still be given, in order, and those in m are missed.
Kept(s, m, n) ==
  /\ Incr(s)
  /\ m \cap Range(s) = {}
  /\ m \cup Range(s) = 1..n

LEMMA SeqFacts ==
  ASSUME NEW S, NEW s \in Seq(S)
  PROVE  Len(s) \in Nat /\ DOMAIN s = 1..Len(s) /\ \A i \in DOMAIN s : s[i] \in S
  BY LenProperties, ElementOfSeq

\* Where the elements of a concatenation are.
LEMMA ConcatFacts ==
  ASSUME NEW S, NEW s \in Seq(S), NEW t \in Seq(S), NEW a, NEW b, a = Len(s), b = Len(t)
  PROVE  /\ a \in Nat /\ b \in Nat
         /\ s \o t \in Seq(S) /\ Len(s \o t) = a + b /\ DOMAIN (s \o t) = 1..(a + b)
         /\ \A i \in 1..a : (s \o t)[i] = s[i]
         /\ \A i \in 1..b : (s \o t)[a + i] = t[i]
<1>1. a \in Nat /\ b \in Nat
  BY SeqFacts
<1>2. PICK st : st = s \o t
  OBVIOUS
<1>3. /\ st \in Seq(S) /\ Len(st) = Len(s) + Len(t)
      /\ \A i \in 1..Len(s) + Len(t) : st[i] = IF i <= Len(s) THEN s[i] ELSE t[i - Len(s)]
  BY <1>2, ConcatProperties
<1>4. DOMAIN st = 1..(a + b)
  BY <1>3, SeqFacts
<1>5. \A i \in 1..a : i \in 1..Len(s) + Len(t) /\ i <= Len(s)
  BY <1>1
<1>6. \A i \in 1..b : a + i \in 1..Len(s) + Len(t) /\ ~(a + i <= Len(s)) /\ a + i - Len(s) = i
  BY <1>1
<1>7. \A i \in 1..a : st[i] = s[i]
  BY <1>3, <1>5
<1>8. \A i \in 1..b : st[a + i] = t[i]
  <2> SUFFICES ASSUME NEW i \in 1..b PROVE st[a + i] = t[i]
    OBVIOUS
  <2>1. st[a + i] = t[a + i - Len(s)]
    BY <1>3, <1>6
  <2>2. QED
    BY <1>6, <2>1
<1>9. QED
  BY <1>1, <1>2, <1>3, <1>4, <1>7, <1>8

LEMMA HeadAndTail ==
  ASSUME NEW S, NEW s \in Seq(S), s # <<>>
  PROVE  /\ Head(s) \in S /\ Tail(s) \in Seq(S) /\ s = <<Head(s)>> \o Tail(s)
         /\ Len(Tail(s)) = Len(s) - 1 /\ <<Head(s)>> \in Seq(S)
<1>1. /\ Head(s) \in S /\ Tail(s) \in Seq(S) /\ Len(Tail(s)) = Len(s) - 1
      /\ \A i \in 1..Len(Tail(s)) : Tail(s)[i] = s[i + 1]
      /\ Len(s) \in Nat \ {0} /\ Head(s) = s[1]
  BY HeadTailProperties, EmptySeq
<1>2. PICK h : h = <<Head(s)>>
  OBVIOUS
<1>3. h \in Seq(S) /\ Len(h) = 1 /\ h[1] = s[1]
  BY <1>1, <1>2
<1>4. PICK t : t = Tail(s)
  OBVIOUS
<1>5. PICK n : n = Len(s) - 1 /\ n \in Nat /\ n = Len(t)
  BY <1>1, <1>4
<1>6. /\ h \o t \in Seq(S) /\ Len(h \o t) = 1 + n
      /\ (h \o t)[1] = h[1]
      /\ \A i \in 1..n : (h \o t)[1 + i] = t[i]
  <2>1. h \in Seq(S) /\ t \in Seq(S)
    BY <1>1, <1>3, <1>4
  <2>2. ASSUME NEW e, e = Len(h), NEW k, k = Len(t)
        PROVE  /\ h \o t \in Seq(S) /\ Len(h \o t) = e + k
               /\ \A i \in 1..e : (h \o t)[i] = h[i]
               /\ \A i \in 1..k : (h \o t)[e + i] = t[i]
    BY <2>1, <2>2, ConcatFacts
  <2>3. PICK e : e = 1 /\ e = Len(h) /\ 1 \in 1..e
    BY <1>3
  <2>4. /\ h \o t \in Seq(S) /\ Len(h \o t) = e + n
        /\ \A i \in 1..e : (h \o t)[i] = h[i]
        /\ \A i \in 1..n : (h \o t)[e + i] = t[i]
    BY <1>5, <2>2, <2>3
  <2>5. QED
    BY <2>3, <2>4
<1>a. \A i \in 1..Len(s) : (h \o t)[i] = s[i]
  <2> SUFFICES ASSUME NEW i \in 1..Len(s) PROVE (h \o t)[i] = s[i]
    OBVIOUS
  <2>1. CASE i = 1
    BY <1>3, <1>6, <2>1
  <2>2. CASE i # 1
    <3>1. PICK k \in 1..n : i = 1 + k /\ k + 1 = i
      <4>1. i - 1 \in 1..n
        BY <1>1, <1>5, <2>2
      <4>2. QED
        BY <4>1
    <3>2. QED
      BY <1>1, <1>4, <1>5, <1>6, <3>1
  <2>3. QED
    BY <2>1, <2>2
<1>7. h \o t = s
  <2>1. Len(h \o t) = Len(s)
    BY <1>5, <1>6
  <2>2. QED
    BY <1>6, <1>a, <2>1, SeqEqual
<1>8. QED
  BY <1>1, <1>2, <1>3, <1>4, <1>7

\* The shots of what was given.
Gifts(D, B) == [shot : D, bullets : B]

LEMMA ShotsOfFacts ==
  ASSUME NEW D, NEW B, NEW s \in Seq(Gifts(D, B))
  PROVE  /\ ShotsOf(s) \in Seq(D) /\ Len(ShotsOf(s)) = Len(s)
         /\ \A i \in 1..Len(s) : ShotsOf(s)[i] = s[i].shot
<1>1. DOMAIN s = 1..Len(s) /\ Len(s) \in Nat
  BY LenProperties
<1>2. \A i \in 1..Len(s) : s[i] \in Gifts(D, B)
  BY ElementOfSeq
<1>3. \A i \in 1..Len(s) : s[i].shot \in D
  BY <1>2 DEF Gifts
<1>4. ShotsOf(s) = [i \in 1..Len(s) |-> s[i].shot]
  BY <1>1 DEF ShotsOf
<1>5. QED
  BY <1>1, <1>3, <1>4

LEMMA ShotsOfConcat ==
  ASSUME NEW D, NEW B, NEW s \in Seq(Gifts(D, B)), NEW t \in Seq(Gifts(D, B))
  PROVE  ShotsOf(s \o t) = ShotsOf(s) \o ShotsOf(t)
<1>1. PICK a, b, st, p, q, u : /\ a = Len(s) /\ b = Len(t) /\ st = s \o t
                               /\ p = ShotsOf(s) /\ q = ShotsOf(t) /\ u = ShotsOf(st)
  OBVIOUS
<1>2. /\ a \in Nat /\ b \in Nat /\ st \in Seq(Gifts(D, B)) /\ Len(st) = a + b
      /\ \A i \in 1..a : st[i] = s[i]
      /\ \A i \in 1..b : st[a + i] = t[i]
  BY <1>1, ConcatFacts
<1>3. p \in Seq(D) /\ a = Len(p) /\ \A i \in 1..a : p[i] = s[i].shot
  <2>1. /\ ShotsOf(s) \in Seq(D) /\ Len(ShotsOf(s)) = Len(s)
        /\ \A i \in 1..Len(s) : ShotsOf(s)[i] = s[i].shot
    BY ShotsOfFacts
  <2>2. QED
    BY <1>1, <2>1
<1>4. q \in Seq(D) /\ b = Len(q) /\ \A i \in 1..b : q[i] = t[i].shot
  <2>1. /\ ShotsOf(t) \in Seq(D) /\ Len(ShotsOf(t)) = Len(t)
        /\ \A i \in 1..Len(t) : ShotsOf(t)[i] = t[i].shot
    BY ShotsOfFacts
  <2>2. QED
    BY <1>1, <2>1
<1>5. u \in Seq(D) /\ Len(u) = a + b /\ \A i \in 1..(a + b) : u[i] = st[i].shot
  <2>1. /\ ShotsOf(st) \in Seq(D) /\ Len(ShotsOf(st)) = Len(st)
        /\ \A i \in 1..Len(st) : ShotsOf(st)[i] = st[i].shot
    BY <1>2, ShotsOfFacts
  <2>2. QED
    BY <1>1, <1>2, <2>1
<1>6. /\ p \o q \in Seq(D) /\ Len(p \o q) = a + b
      /\ \A i \in 1..a : (p \o q)[i] = p[i]
      /\ \A i \in 1..b : (p \o q)[a + i] = q[i]
  BY <1>3, <1>4, ConcatFacts
<1>7. \A i \in 1..(a + b) : u[i] = (p \o q)[i]
  <2> SUFFICES ASSUME NEW i \in 1..(a + b) PROVE u[i] = (p \o q)[i]
    OBVIOUS
  <2>1. CASE i \in 1..a
    <3>1. u[i] = s[i].shot
      BY <1>2, <1>5, <2>1
    <3>2. QED
      BY <1>3, <1>6, <2>1, <3>1
  <2>2. CASE i \notin 1..a
    <3>1. PICK k \in 1..b : i = a + k
      <4>1. i - a \in 1..b /\ i = a + (i - a)
        BY <1>2, <2>2
      <4>2. QED
        BY <4>1
    <3>2. u[i] = t[k].shot
      BY <1>2, <1>5, <3>1
    <3>3. QED
      BY <1>4, <1>6, <3>1, <3>2
  <2>3. QED
    BY <2>1, <2>2
<1>8. u = p \o q
  <2>1. Len(u) = Len(p \o q) /\ \A i \in 1..Len(u) : u[i] = (p \o q)[i]
    BY <1>5, <1>6, <1>7
  <2>2. QED
    BY <1>5, <1>6, <2>1, SeqEqual
<1>9. QED
  BY <1>1, <1>8

\* One more shot, for an Alien that is hit and for one that is not.
LEMMA KeptFired ==
  ASSUME NEW n \in Nat, NEW s \in Seq(1..n), NEW m, Kept(s, m, n)
  PROVE  Kept(Append(s, n + 1), m, n + 1) /\ Kept(s, m \cup {n + 1}, n + 1)
<1>0. Len(s) \in Nat /\ DOMAIN s = 1..Len(s) /\ \A i \in DOMAIN s : s[i] \in 1..n
  BY SeqFacts
<1>1. /\ DOMAIN Append(s, n + 1) = 1..(Len(s) + 1)
      /\ \A i \in 1..Len(s) : Append(s, n + 1)[i] = s[i]
      /\ Append(s, n + 1)[Len(s) + 1] = n + 1
  <2>1. s \in Seq(Nat)
    BY SeqMonotonic
  <2>2. /\ Append(s, n + 1) \in Seq(Nat) /\ Len(Append(s, n + 1)) = Len(s) + 1
        /\ \A i \in 1..Len(s) : Append(s, n + 1)[i] = s[i]
        /\ Append(s, n + 1)[Len(s) + 1] = n + 1
    BY <2>1, AppendProperties
  <2>3. QED
    BY <2>2, SeqFacts
<1>2. PICK t : t = Append(s, n + 1)
  OBVIOUS
<1>3. Incr(t)
  BY <1>0, <1>1, <1>2 DEF Kept, Incr
<1>4. Range(t) = Range(s) \cup {n + 1}
  <2>1. \A i \in DOMAIN t : i \in DOMAIN s \/ i = Len(s) + 1
    BY <1>0, <1>1, <1>2
  <2>2. \A i \in DOMAIN s : i \in DOMAIN t
    BY <1>0, <1>1, <1>2
  <2>3. Len(s) + 1 \in DOMAIN t
    BY <1>0, <1>1, <1>2
  <2>4. QED
    BY <1>0, <1>1, <1>2, <2>1, <2>2, <2>3 DEF Range
<1>5. Range(s) \subseteq 1..n /\ m \subseteq 1..n /\ n + 1 \notin 1..n /\ 1..(n + 1) = 1..n \cup {n + 1}
  BY DEF Kept
<1>6. QED
  BY <1>2, <1>3, <1>4, <1>5 DEF Kept

\* A piece is lost.
LEMMA KeptLost ==
  ASSUME NEW n \in Nat, NEW s \in Seq(1..n), NEW t \in Seq(1..n), NEW u \in Seq(1..n), NEW m,
         Kept(s \o t \o u, m, n)
  PROVE  Kept(s \o u, m \cup Range(t), n)
<1>1. PICK a, b, c : a = Len(s) /\ b = Len(t) /\ c = Len(u) /\ a \in Nat /\ b \in Nat /\ c \in Nat
  BY SeqFacts
<1>2. PICK st, w, v : st = s \o t /\ w = st \o u /\ v = s \o u
  OBVIOUS
<1>3. /\ st \in Seq(1..n) /\ a + b = Len(st)
      /\ \A i \in 1..a : st[i] = s[i]
      /\ \A i \in 1..b : st[a + i] = t[i]
  BY <1>1, <1>2, ConcatFacts
<1>5. /\ w \in Seq(1..n) /\ DOMAIN w = 1..(a + b + c)
      /\ \A i \in 1..(a + b) : w[i] = st[i]
      /\ \A i \in 1..c : w[a + b + i] = u[i]
  BY <1>1, <1>2, <1>3, ConcatFacts
<1>7. /\ v \in Seq(1..n) /\ DOMAIN v = 1..(a + c)
      /\ \A i \in 1..a : v[i] = s[i]
      /\ \A i \in 1..c : v[a + i] = u[i]
  BY <1>1, <1>2, ConcatFacts
<1>8. \A i \in DOMAIN w : w[i] \in 1..n
  BY <1>5, SeqFacts
<1>9. /\ \A i \in 1..a : i \in DOMAIN w /\ w[i] = s[i]
      /\ \A i \in 1..b : a + i \in DOMAIN w /\ w[a + i] = t[i]
      /\ \A i \in 1..c : a + b + i \in DOMAIN w /\ w[a + b + i] = u[i]
  <2>1. /\ \A i \in 1..a : i \in 1..(a + b) /\ i \in 1..(a + b + c)
        /\ \A i \in 1..b : a + i \in 1..(a + b) /\ a + i \in 1..(a + b + c)
        /\ \A i \in 1..c : a + b + i \in 1..(a + b + c)
    BY <1>1
  <2>2. QED
    BY <1>3, <1>5, <2>1
<1>10. Incr(w) /\ m \cap Range(w) = {} /\ m \cup Range(w) = 1..n
  BY <1>2 DEF Kept
\* Where an element of v is in w.
<1>11. PICK f : f = [i \in DOMAIN v |-> IF i <= a THEN i ELSE i + b]
  OBVIOUS
<1>12. \A i \in DOMAIN v : /\ f[i] \in DOMAIN w /\ v[i] = w[f[i]]
                           /\ f[i] \in 1..a \/ f[i] > a + b
  <2> SUFFICES ASSUME NEW i \in DOMAIN v
               PROVE  /\ f[i] \in DOMAIN w /\ v[i] = w[f[i]]
                      /\ f[i] \in 1..a \/ f[i] > a + b
    OBVIOUS
  <2>1. CASE i <= a
    <3>1. i \in 1..a /\ f[i] = i /\ v[i] = s[i]
      BY <1>1, <1>7, <1>11, <2>1
    <3>2. QED
      BY <1>9, <3>1
  <2>2. CASE ~(i <= a)
    <3>a. PICK k \in 1..c : i = a + k
      <4>1. i - a \in 1..c /\ i = a + (i - a)
        BY <1>1, <1>7, <2>2
      <4>2. QED
        BY <4>1
    <3>1. f[i] = a + b + k /\ v[i] = u[k]
      <4>1. f[i] = i + b
        BY <1>11, <2>2
      <4>2. QED
        BY <1>1, <1>7, <3>a, <4>1
    <3>2. f[i] > a + b
      BY <1>1, <3>1
    <3>3. QED
      BY <1>9, <3>1, <3>2
  <2>3. QED
    BY <2>1, <2>2
<1>13. \A i, j \in DOMAIN v : i < j => f[i] < f[j]
  BY SMTT(20), <1>1, <1>7, <1>11
<1>14. Incr(v)
  <2> SUFFICES ASSUME NEW i \in DOMAIN v, NEW j \in DOMAIN v, i < j PROVE v[i] < v[j]
    BY DEF Incr
  <2>1. f[i] < f[j] /\ f[i] \in DOMAIN w /\ f[j] \in DOMAIN w
    BY <1>12, <1>13
  <2>2. w[f[i]] < w[f[j]]
    BY <1>10, <2>1 DEF Incr
  <2>3. QED
    BY <1>12, <2>2
<1>15. DOMAIN t = 1..b
  BY <1>1, SeqFacts
<1>16. \A i, j \in DOMAIN w : w[i] = w[j] => i = j
  <2> SUFFICES ASSUME NEW i \in DOMAIN w, NEW j \in DOMAIN w, w[i] = w[j], i # j PROVE FALSE
    OBVIOUS
  <2>1. i < j \/ j < i
    BY <1>1, <1>5
  <2>2. w[i] < w[j] \/ w[j] < w[i]
    BY <1>10, <2>1 DEF Incr
  <2>3. QED
    BY <1>8, <2>2
<1>17. Range(t) \cap Range(v) = {}
  <2> SUFFICES ASSUME NEW i \in DOMAIN v, NEW j \in DOMAIN t, v[i] = t[j] PROVE FALSE
    BY DEF Range
  <2>1. f[i] \in DOMAIN w /\ a + j \in DOMAIN w /\ w[f[i]] = w[a + j]
    BY <1>9, <1>12, <1>15
  <2>2. f[i] = a + j
    BY <1>16, <2>1
  <2>3. QED
    BY <1>1, <1>12, <1>15, <2>2
<1>18. Range(t) \cup Range(v) = Range(w)
  <2>1. Range(st) = Range(s) \cup Range(t)
    BY <1>2, RangeConcatenation
  <2>2. Range(w) = Range(st) \cup Range(u)
    BY ZenonT(30), <1>2, <1>3, RangeConcatenation
  <2>3. Range(v) = Range(s) \cup Range(u)
    BY <1>2, RangeConcatenation
  <2>4. QED
    BY <2>1, <2>2, <2>3
<1>19. QED
  BY <1>2, <1>10, <1>14, <1>17, <1>18 DEF Kept

-----------------------------------------------------------------------------
(* Types *)

PlacesOK ==
  /\ aimed \in BOOLEAN
  /\ prepared \subseteq Aliens /\ connected \subseteq prepared
  /\ call \in [Aliens -> {"idle", "timed", "blocking", "checking"}]
  /\ interrupted \subseteq Aliens /\ asked \subseteq Aliens

FiredOK == fired \in Seq(Shots)

PipesOK ==
  /\ out \in [Aliens -> Seq(DOMAIN fired)] /\ body \in [Aliens -> Seq(DOMAIN fired)]
  /\ \A a \in Aliens : Len(out[a]) <= Hwm /\ Len(body[a]) <= Hwm
  /\ missed \in [Aliens -> SUBSET DOMAIN fired]

GivenOK ==
  /\ bullets \in [Aliens -> Seq(Given)] /\ got \in [Aliens -> Seq(Given)]
  /\ \A a \in Aliens : call[a] # "checking" => bullets[a] = <<>>

LEMMA TypeParts == TypeOK <=> PlacesOK /\ FiredOK /\ PipesOK /\ GivenOK
  BY DEF TypeOK, PlacesOK, FiredOK, PipesOK, GivenOK

LEMMA PlacesTypes ==
  ASSUME PlacesOK, [Next]_vars
  PROVE  PlacesOK'
<1> USE DEF PlacesOK
<1>1. CASE Aim \/ DestroyShotgun \/ (\E shot \in Shots : Fire(shot)) \/ UNCHANGED vars
  BY <1>1 DEF Aim, DestroyShotgun, Fire, vars, calling
<1>2. ASSUME NEW a \in Aliens, NEW gave, PollEnds(a, gave)
      PROVE  /\ call' \in [Aliens -> {"idle", "timed", "blocking", "checking"}]
             /\ UNCHANGED <<aimed, prepared, connected, asked>>
  BY <1>2 DEF PollEnds
<1>3. ASSUME NEW a \in Aliens, Receive(a) \/ TimeOut(a) \/ Signal(a)
      PROVE  PlacesOK'
  <2>1. (\E gave : PollEnds(a, gave)) \/ UNCHANGED <<aimed, prepared, connected, call, asked>>
    BY <1>3 DEF Receive, TimeOut, Signal
  <2>2. interrupted' \subseteq Aliens
    BY <1>3 DEF Receive, TimeOut, Signal
  <2>3. QED
    BY <1>2, <2>1, <2>2
<1>4. ASSUME NEW a \in Aliens, PrepareToBeShot(a) \/ Connect(a) \/ Transfer(a) \/ DestroyAlien(a)
                               \/ GetShotTimed(a) \/ GetShot(a) \/ Interrupt(a)
                               \/ InterruptionPoint(a) \/ Checked(a)
      PROVE  PlacesOK'
  BY <1>4 DEF PrepareToBeShot, Connect, Transfer, DestroyAlien, GetShotTimed, GetShot, Interrupt,
     InterruptionPoint, Checked, calling
<1>5. QED
  BY <1>1, <1>3, <1>4 DEF Next, AlienStep

\* Every shot that was fired keeps its number and its bullets.
LEMMA FiredTypes ==
  ASSUME FiredOK, [Next]_vars
  PROVE  /\ FiredOK' /\ DOMAIN fired \subseteq DOMAIN fired'
         /\ \A n \in DOMAIN fired : fired'[n] = fired[n]
<1>1. ASSUME NEW shot \in Shots, Fire(shot)
      PROVE  /\ FiredOK' /\ DOMAIN fired \subseteq DOMAIN fired'
             /\ \A n \in DOMAIN fired : fired'[n] = fired[n]
  <2>1. /\ fired' \in Seq(Shots) /\ Len(fired') = Len(fired) + 1
        /\ \A n \in 1..Len(fired) : fired'[n] = fired[n]
    BY <1>1, AppendProperties DEF Fire, FiredOK
  <2>2. DOMAIN fired = 1..Len(fired) /\ DOMAIN fired' = 1..(Len(fired) + 1) /\ Len(fired) \in Nat
    BY <2>1, SeqFacts DEF FiredOK
  <2>3. QED
    BY <2>1, <2>2 DEF FiredOK
<1>2. (\A shot \in Shots : ~Fire(shot)) => fired' = fired
  BY DEF Next, AlienStep, Aim, DestroyShotgun, vars, PrepareToBeShot, Connect, Transfer,
     DestroyAlien, GetShotTimed, GetShot, Interrupt, InterruptionPoint, Checked, Receive, TimeOut,
     Signal, PollEnds
<1>3. QED
  BY <1>1, <1>2 DEF FiredOK

\* What a shot that is read out of a pipe gives.
LEMMA FramesFacts ==
  ASSUME FiredOK, NEW n \in DOMAIN fired
  PROVE  /\ fired[n] \in Shots
         /\ Tail(Frames(n)) = fired[n]
         /\ Len(Frames(n)) >= 2 <=> fired[n] # <<>>
<1>1. fired[n] \in Shots /\ fired[n] \in Seq(STRING)
  BY SeqFacts, Assumptions DEF FiredOK, Assumptions
<1>2. PICK s, h : s = fired[n] /\ h = <<"key">>
  OBVIOUS
<1>3. PICK S : s \in Seq(S) /\ h \in Seq(S) /\ Len(h) = 1
  <2>1. PICK S : S = STRING \cup {"key"}
    OBVIOUS
  <2>2. h \in Seq(S) /\ Len(h) = 1
    BY <1>2, <2>1
  <2>3. s \in Seq(S)
    BY <1>1, <1>2, <2>1, SeqMonotonic
  <2>4. QED
    BY <2>2, <2>3
<1>4. PICK e, k : e = Len(h) /\ e = 1 /\ k = Len(s) /\ k \in Nat
  BY <1>3, SeqFacts
<1>5. PICK hs : hs = h \o s
  OBVIOUS
<1>6. /\ hs \in Seq(S) /\ Len(hs) = e + k
      /\ \A i \in 1..k : hs[e + i] = s[i]
  <2>1. ASSUME NEW a, a = Len(h), NEW b, b = Len(s)
        PROVE  /\ h \o s \in Seq(S) /\ Len(h \o s) = a + b
               /\ \A i \in 1..b : (h \o s)[a + i] = s[i]
    <3>1. h \in Seq(S) /\ s \in Seq(S)
      BY <1>3
    <3>2. QED
      BY <2>1, <3>1, ConcatFacts
  <2>2. QED
    BY <1>4, <1>5, <2>1
<1>7. Tail(hs) = s
  <2>1. hs # <<>> /\ Len(hs) = k + 1
    BY <1>4, <1>6, EmptySeq
  <2>2. /\ Tail(hs) \in Seq(S) /\ Len(Tail(hs)) = k
        /\ \A i \in 1..Len(Tail(hs)) : Tail(hs)[i] = hs[i + 1]
    <3>1. /\ Tail(hs) \in Seq(S) /\ Len(Tail(hs)) = Len(hs) - 1
          /\ \A i \in 1..Len(Tail(hs)) : Tail(hs)[i] = hs[i + 1]
      BY <1>6, <2>1, HeadTailProperties
    <3>2. QED
      BY <1>4, <2>1, <3>1
  <2>3. \A i \in 1..k : hs[i + 1] = s[i]
    BY <1>4, <1>6
  <2>4. \A i \in 1..k : Tail(hs)[i] = s[i]
    BY <2>2, <2>3
  <2>5. QED
    BY <1>3, <1>4, <2>2, <2>4, SeqEqual
<1>8. Len(hs) >= 2 <=> s # <<>>
  <2>1. s = <<>> <=> k = 0
    BY <1>3, <1>4, EmptySeq
  <2>2. QED
    BY <1>4, <1>6, <2>1
<1>9. Frames(n) = hs
  BY <1>2, <1>5 DEF Frames
<1>10. QED
  BY <1>1, <1>2, <1>7, <1>8, <1>9

LEMMA QueuesGrow ==
  ASSUME NEW D, NEW E, D \subseteq E, NEW f \in [Aliens -> Seq(D)]
  PROVE  f \in [Aliens -> Seq(E)]
<1>1. \A a \in Aliens : f[a] \in Seq(E)
  BY SeqMonotonic
<1>2. QED
  BY <1>1

LEMMA PipesTypes ==
  ASSUME PlacesOK, FiredOK, PipesOK, GivenOK, [Next]_vars
  PROVE  PipesOK'
<1>a. PICK D, E : D = DOMAIN fired /\ E = DOMAIN fired' /\ D \subseteq E
  BY FiredTypes
<1>b. /\ out \in [Aliens -> Seq(E)] /\ body \in [Aliens -> Seq(E)]
      /\ \A a \in Aliens : out[a] \in Seq(D) /\ body[a] \in Seq(D) /\ Range(out[a]) \subseteq D
                           /\ Range(body[a]) \subseteq D
      /\ \A a \in Aliens : Len(out[a]) <= Hwm /\ Len(body[a]) <= Hwm
      /\ \A a \in Aliens : Len(out[a]) \in Nat /\ Len(body[a]) \in Nat
      /\ missed \in [Aliens -> SUBSET D] /\ missed \in [Aliens -> SUBSET E]
  <2>1. out \in [Aliens -> Seq(D)] /\ body \in [Aliens -> Seq(D)] /\ missed \in [Aliens -> SUBSET D]
    BY <1>a DEF PipesOK
  <2>2. out \in [Aliens -> Seq(E)] /\ body \in [Aliens -> Seq(E)]
    BY <1>a, <2>1, QueuesGrow
  <2>3. \A a \in Aliens : Range(out[a]) \subseteq D /\ Range(body[a]) \subseteq D
    BY <2>1, RangeOfSeq
  <2>4. \A a \in Aliens : Len(out[a]) \in Nat /\ Len(body[a]) \in Nat
    BY <2>1, SeqFacts
  <2>5. QED
    BY <1>a, <2>1, <2>2, <2>3, <2>4 DEF PipesOK
<1>c. Hwm \in Nat \ {0} /\ \A S : <<>> \in Seq(S) /\ Len(<<>>) = 0
  BY Assumptions, EmptySeq DEF Assumptions
<1> SUFFICES /\ out' \in [Aliens -> Seq(E)] /\ body' \in [Aliens -> Seq(E)]
             /\ \A a \in Aliens : Len(out'[a]) <= Hwm /\ Len(body'[a]) <= Hwm
             /\ missed' \in [Aliens -> SUBSET E]
  BY <1>a DEF PipesOK
<1>1. ASSUME NEW shot \in Shots, Fire(shot)
      PROVE  PipesOK'
  <2>1. PICK n : n = Len(fired') /\ n \in E
    BY <1>1, <1>a, AppendProperties, SeqFacts DEF Fire, FiredOK
  <2>2. \A a \in Aliens : Append(out[a], n) \in Seq(E) /\ Len(Append(out[a], n)) = Len(out[a]) + 1
    BY <1>b, <2>1, AppendProperties
  <2>3. \A a \in Aliens : Hit(a) => Len(out[a]) + 1 <= Hwm
    BY <1>b, <1>c DEF Hit
  <2>4. /\ out' = [a \in Aliens |-> IF Hit(a) THEN Append(out[a], n) ELSE out[a]]
        /\ missed' = [a \in Aliens |-> IF Hit(a) THEN missed[a] ELSE missed[a] \cup {n}]
        /\ body' = body
    BY <1>1, <2>1 DEF Fire
  <2>5. out' \in [Aliens -> Seq(E)] /\ missed' \in [Aliens -> SUBSET E]
    BY <1>b, <2>1, <2>2, <2>4
  <2>6. \A a \in Aliens : Len(out'[a]) <= Hwm
    BY <1>b, <2>2, <2>3, <2>4
  <2>7. QED
    BY <1>a, <1>b, <2>4, <2>5, <2>6 DEF PipesOK
<1>2. ASSUME DestroyShotgun
      PROVE  PipesOK'
  BY <1>2, <1>a, <1>b, <1>c DEF DestroyShotgun, PipesOK
<1>3. ASSUME NEW a \in Aliens, Transfer(a)
      PROVE  PipesOK'
  <2>1. /\ Head(out[a]) \in D /\ Tail(out[a]) \in Seq(D) /\ Len(Tail(out[a])) = Len(out[a]) - 1
    BY <1>3, <1>b, HeadAndTail DEF Transfer
  <2>2. Tail(out[a]) \in Seq(E) /\ Head(out[a]) \in E
    BY <1>a, <2>1, SeqMonotonic
  <2>3. /\ Append(body[a], Head(out[a])) \in Seq(E)
        /\ Len(Append(body[a], Head(out[a]))) = Len(body[a]) + 1
    BY <1>b, <2>2, AppendProperties
  <2>4. Len(body[a]) + 1 <= Hwm /\ Len(out[a]) - 1 <= Hwm
    BY <1>3, <1>b, <1>c DEF Transfer
  <2>5. /\ body' = [body EXCEPT ![a] = Append(body[a], Head(out[a]))]
        /\ out' = [out EXCEPT ![a] = Tail(out[a])] /\ missed' = missed
    BY <1>3 DEF Transfer
  <2>6. QED
    BY <1>a, <1>b, <2>1, <2>2, <2>3, <2>4, <2>5 DEF PipesOK
<1>4. ASSUME NEW a \in Aliens, Receive(a)
      PROVE  PipesOK'
  <2>1. /\ Head(body[a]) \in D /\ Tail(body[a]) \in Seq(D) /\ Len(Tail(body[a])) = Len(body[a]) - 1
    BY <1>4, <1>b, HeadAndTail DEF Receive
  <2>2. Tail(body[a]) \in Seq(E)
    BY <1>a, <2>1, SeqMonotonic
  <2>3. /\ body' = [body EXCEPT ![a] = Tail(body[a])] /\ out' = out
        /\ missed' = missed \/ missed' = [missed EXCEPT ![a] = @ \cup {Head(body[a])}]
    BY <1>4 DEF Receive, PollEnds
  <2>4. Len(body[a]) - 1 <= Hwm
    BY <1>b, <1>c
  <2>5. missed' \in [Aliens -> SUBSET E]
    <3>1. missed[a] \in SUBSET E /\ Head(body[a]) \in E
      BY <1>a, <1>b, <2>1
    <3>2. missed[a] \cup {Head(body[a])} \in SUBSET E
      BY <3>1
    <3>3. QED
      BY <1>b, <2>3, <3>2
  <2>6. QED
    BY <1>a, <1>b, <2>1, <2>2, <2>3, <2>4, <2>5 DEF PipesOK
<1>5. ASSUME NEW a \in Aliens, InterruptionPoint(a)
      PROVE  PipesOK'
  <2>1. \A i \in DOMAIN bullets[a] : bullets[a][i].shot \in D
    <3>1. \A i \in DOMAIN bullets[a] : bullets[a][i] \in Given
      BY SeqFacts DEF GivenOK
    <3>2. QED
      BY <1>a, <3>1 DEF Given
  <2>2. missed' \in [Aliens -> SUBSET E]
    BY <1>5, <1>a, <1>b, <2>1 DEF InterruptionPoint
  <2>3. QED
    BY <1>5, <1>a, <1>b, <2>2 DEF InterruptionPoint, PipesOK
<1>6. ASSUME NEW a \in Aliens, DestroyAlien(a)
      PROVE  PipesOK'
  BY <1>6, <1>a, <1>b, <1>c DEF DestroyAlien, PipesOK
<1>7. ASSUME UNCHANGED <<out, body, missed>>
      PROVE  PipesOK'
  BY <1>7, <1>a, <1>b DEF PipesOK
<1>8. ASSUME NEW a \in Aliens, PrepareToBeShot(a) \/ Connect(a) \/ GetShotTimed(a) \/ GetShot(a)
                               \/ TimeOut(a) \/ Signal(a) \/ Interrupt(a) \/ Checked(a)
      PROVE  UNCHANGED <<out, body, missed>>
  BY <1>8 DEF PrepareToBeShot, Connect, GetShotTimed, GetShot, TimeOut, Signal, Interrupt, Checked,
     PollEnds
<1>9. Aim \/ UNCHANGED vars => UNCHANGED <<out, body, missed>>
  BY DEF Aim, vars
<1>10. PipesOK'
  BY <1>1, <1>2, <1>3, <1>4, <1>5, <1>6, <1>7, <1>8, <1>9 DEF Next, AlienStep
<1>11. QED
  BY <1>10, <1>a DEF PipesOK

-----------------------------------------------------------------------------
(* What is given is a whole shot, with bullets. *)

Whole == {g \in Given : g.bullets = fired[g.shot] /\ g.bullets # <<>>}

WholeOK ==
  /\ bullets \in [Aliens -> Seq(Whole)] /\ got \in [Aliens -> Seq(Whole)]
  /\ \A a \in Aliens : call[a] # "checking" => bullets[a] = <<>>

LEMMA WholeIsGiven ==
  ASSUME WholeOK
  PROVE  GivenOK
<1>1. Whole \subseteq Given
  BY DEF Whole
<1>2. PICK W, G : W = Whole /\ G = Given /\ W \subseteq G
  BY <1>1
<1>3. bullets \in [Aliens -> Seq(G)] /\ got \in [Aliens -> Seq(G)]
  BY <1>2, QueuesGrow DEF WholeOK
<1>4. QED
  BY <1>2, <1>3 DEF WholeOK, GivenOK

LEMMA WholeTypes ==
  ASSUME PlacesOK, FiredOK, PipesOK, WholeOK, [Next]_vars
  PROVE  WholeOK'
<1>a. PICK W, V : W = Whole /\ V = Whole' /\ W \subseteq V
  <2>1. Whole \subseteq Whole'
    BY FiredTypes DEF Whole, Given
  <2>2. QED
    BY <2>1
<1>b. /\ bullets \in [Aliens -> Seq(V)] /\ got \in [Aliens -> Seq(V)]
      /\ \A a \in Aliens : call[a] # "checking" => bullets[a] = <<>>
      /\ call \in [Aliens -> {"idle", "timed", "blocking", "checking"}]
      /\ <<>> \in Seq(V)
  BY <1>a, QueuesGrow, EmptySeq DEF WholeOK, PlacesOK
<1>c. \A a \in Aliens : got[a] \o bullets[a] \in Seq(V)
  BY <1>b, ConcatProperties
<1> SUFFICES /\ bullets' \in [Aliens -> Seq(V)] /\ got' \in [Aliens -> Seq(V)]
             /\ \A a \in Aliens : call'[a] # "checking" => bullets'[a] = <<>>
  BY <1>a DEF WholeOK
<1>1. ASSUME NEW a \in Aliens, NEW gave \in Seq(V), PollEnds(a, gave)
      PROVE  WholeOK'
  <2>1. got[a] \o gave \in Seq(V)
    BY <1>b, ConcatProperties
  <2>2. CASE call[a] = "timed"
    <3>1. call' = [call EXCEPT ![a] = "idle"] /\ got' = [got EXCEPT ![a] = got[a] \o gave]
          /\ bullets' = bullets
      BY <1>1, <2>2 DEF PollEnds
    <3>2. QED
      BY <1>a, <1>b, <2>1, <2>2, <3>1 DEF WholeOK
  <2>3. CASE call[a] # "timed"
    <3>1. call' = [call EXCEPT ![a] = "checking"] /\ bullets' = [bullets EXCEPT ![a] = gave]
          /\ got' = got
      BY <1>1, <2>3 DEF PollEnds
    <3>2. QED
      BY <1>a, <1>b, <3>1 DEF WholeOK
  <2>4. QED
    BY <2>2, <2>3
<1>2. ASSUME UNCHANGED <<call, bullets, got>>
      PROVE  WholeOK'
  BY <1>2, <1>a, <1>b DEF WholeOK
<1>3. ASSUME NEW a \in Aliens, Receive(a)
      PROVE  WholeOK'
  <2>1. PICK n \in DOMAIN fired : n = Head(body[a])
    BY <1>3, HeadAndTail DEF Receive, PipesOK
  <2>2. fired[n] \in Shots /\ Tail(Frames(n)) = fired[n] /\ (Len(Frames(n)) >= 2 <=> fired[n] # <<>>)
    BY FramesFacts
  <2>3. CASE fired[n] # <<>>
    <3>1. PICK g : g = [shot |-> n, bullets |-> Tail(Frames(n))]
      OBVIOUS
    <3>2. g \in Whole
      BY <2>2, <2>3, <3>1 DEF Whole, Given
    <3>3. <<g>> \in Seq(V)
      BY <1>a, <3>2
    <3>4. PollEnds(a, <<g>>)
      BY <1>3, <2>1, <2>2, <2>3, <3>1 DEF Receive
    <3>5. QED
      BY <1>1, <3>3, <3>4
  <2>4. CASE fired[n] = <<>>
    <3>1. PollEnds(a, <<>>)
      BY <1>3, <2>1, <2>2, <2>4 DEF Receive
    <3>2. QED
      BY <1>1, <1>b, <3>1
  <2>5. QED
    BY <2>3, <2>4
<1>4. ASSUME NEW a \in Aliens, TimeOut(a) \/ Signal(a)
      PROVE  WholeOK'
  <2>1. PollEnds(a, <<>>) \/ UNCHANGED <<call, bullets, got>>
    BY <1>4 DEF TimeOut, Signal
  <2>2. QED
    BY <1>1, <1>2, <1>b, <2>1
<1>5. ASSUME NEW a \in Aliens, InterruptionPoint(a)
      PROVE  WholeOK'
  BY <1>5, <1>a, <1>b DEF InterruptionPoint, WholeOK
<1>6. ASSUME NEW a \in Aliens, Checked(a)
      PROVE  WholeOK'
  <2>1. PICK s : s = got[a] \o bullets[a] /\ s \in Seq(V)
    BY <1>c
  <2>2. got' = [got EXCEPT ![a] = s] /\ bullets' = [bullets EXCEPT ![a] = <<>>]
        /\ \A b \in Aliens : b # a => call'[b] = call[b]
    BY <1>6, <1>b, <2>1 DEF Checked
  <2>3. QED
    BY <1>a, <1>b, <2>1, <2>2 DEF WholeOK
<1>7. ASSUME NEW a \in Aliens, GetShotTimed(a) \/ GetShot(a)
      PROVE  WholeOK'
  BY <1>7, <1>a, <1>b DEF GetShotTimed, GetShot, WholeOK
<1>8. ASSUME NEW a \in Aliens, PrepareToBeShot(a) \/ Connect(a) \/ Transfer(a) \/ DestroyAlien(a)
                               \/ Interrupt(a)
      PROVE  UNCHANGED <<call, bullets, got>>
  BY <1>8 DEF PrepareToBeShot, Connect, Transfer, DestroyAlien, Interrupt, calling
<1>9. Aim \/ DestroyShotgun \/ (\E shot \in Shots : Fire(shot)) \/ UNCHANGED vars
        => UNCHANGED <<call, bullets, got>>
  BY DEF Aim, DestroyShotgun, Fire, vars, calling
<1>10. WholeOK'
  BY <1>2, <1>3, <1>4, <1>5, <1>6, <1>7, <1>8, <1>9 DEF Next, AlienStep
<1>11. QED
  BY <1>10, <1>a DEF WholeOK

TypesOK == PlacesOK /\ FiredOK /\ PipesOK /\ WholeOK

LEMMA StepKeepsTypes ==
  ASSUME TypesOK, [Next]_vars
  PROVE  TypesOK'
  BY PlacesTypes, FiredTypes, PipesTypes, WholeTypes, WholeIsGiven DEF TypesOK

-----------------------------------------------------------------------------
(* The shots of each Alien are in order. *)

OrderAt(a) == Kept(Stream(a), missed[a], Len(fired))

OrderOK == \A a \in Aliens : OrderAt(a)

\* The four places of the shots of one Alien.
LEMMA StreamFacts ==
  ASSUME TypesOK, NEW a \in Aliens
  PROVE  /\ Len(fired) \in Nat /\ DOMAIN fired = 1..Len(fired)
         /\ ShotsOf(got[a]) \in Seq(1..Len(fired)) /\ ShotsOf(bullets[a]) \in Seq(1..Len(fired))
         /\ body[a] \in Seq(1..Len(fired)) /\ out[a] \in Seq(1..Len(fired))
         /\ got[a] \in Seq(Gifts(1..Len(fired), Shots))
         /\ bullets[a] \in Seq(Gifts(1..Len(fired), Shots))
<1>1. Len(fired) \in Nat /\ DOMAIN fired = 1..Len(fired)
  BY SeqFacts DEF TypesOK, FiredOK
<1>2. PICK D : D = 1..Len(fired) /\ D = DOMAIN fired
  BY <1>1
<1>3. body[a] \in Seq(D) /\ out[a] \in Seq(D)
  BY <1>2 DEF TypesOK, PipesOK
<1>4. Given = Gifts(D, Shots)
  BY <1>2 DEF Given, Gifts
<1>5. got[a] \in Seq(Gifts(D, Shots)) /\ bullets[a] \in Seq(Gifts(D, Shots))
  <2>1. GivenOK
    BY WholeIsGiven DEF TypesOK
  <2>2. QED
    BY <1>4, <2>1 DEF GivenOK
<1>6. ShotsOf(got[a]) \in Seq(D) /\ ShotsOf(bullets[a]) \in Seq(D)
  BY <1>5, ShotsOfFacts
<1>7. QED
  BY <1>1, <1>2, <1>3, <1>5, <1>6

\* Concatenation, for the provers no more than an operator that is associative and has a
\* unit.
Cat(s, t) == s \o t

LEMMA CatFacts ==
  ASSUME NEW S, NEW s \in Seq(S), NEW t \in Seq(S)
  PROVE  Cat(s, t) \in Seq(S) /\ Cat(s, <<>>) = s /\ Cat(<<>>, s) = s
  BY ConcatProperties, ConcatEmptySeq DEF Cat

LEMMA CatAssociative ==
  ASSUME NEW S, NEW s \in Seq(S), NEW t \in Seq(S), NEW u \in Seq(S)
  PROVE  Cat(Cat(s, t), u) = Cat(s, Cat(t, u))
  BY ConcatAssociative DEF Cat

LEMMA CatHead ==
  ASSUME NEW S, NEW s \in Seq(S), s # <<>>
  PROVE  /\ Head(s) \in S /\ <<Head(s)>> \in Seq(S) /\ Tail(s) \in Seq(S)
         /\ s = Cat(<<Head(s)>>, Tail(s))
  BY HeadAndTail DEF Cat

LEMMA CatAppend ==
  ASSUME NEW S, NEW s \in Seq(S), NEW x \in S
  PROVE  Append(s, x) = Cat(s, <<x>>) /\ <<x>> \in Seq(S)
<1>1. Append(s, x) = s \o <<x>>
  BY AppendIsConcat
<1>2. <<x>> \in Seq(S)
  OBVIOUS
<1>3. QED
  BY <1>1, <1>2 DEF Cat

LEMMA CatLost ==
  ASSUME NEW n \in Nat, NEW s \in Seq(1..n), NEW t \in Seq(1..n), NEW u \in Seq(1..n), NEW m,
         Kept(Cat(s, Cat(t, u)), m, n)
  PROVE  Kept(Cat(s, u), m \cup Range(t), n)
<1>1. Kept(Cat(Cat(s, t), u), m, n)
  BY CatAssociative
<1>2. QED
  BY <1>1, KeptLost DEF Cat

\* A sequence in four parts.
Four(p, q, r, s) == Cat(p, Cat(q, Cat(r, s)))

LEMMA StreamIsFour ==
  ASSUME TypesOK, NEW a \in Aliens
  PROVE  Stream(a) = Four(ShotsOf(got[a]), ShotsOf(bullets[a]), body[a], out[a])
<1>1. PICK S, p, q, r, s : /\ p \in Seq(S) /\ q \in Seq(S) /\ r \in Seq(S) /\ s \in Seq(S)
                           /\ p = ShotsOf(got[a]) /\ q = ShotsOf(bullets[a])
                           /\ r = body[a] /\ s = out[a]
  BY StreamFacts
<1>2. Stream(a) = Cat(Cat(Cat(p, q), r), s)
  BY <1>1 DEF Stream, Cat
<1>3. Cat(p, q) \in Seq(S) /\ Cat(r, s) \in Seq(S)
  BY <1>1, CatFacts
<1>4. Cat(Cat(Cat(p, q), r), s) = Cat(Cat(p, q), Cat(r, s))
  BY <1>1, <1>3, CatAssociative
<1>5. Cat(Cat(p, q), Cat(r, s)) = Cat(p, Cat(q, Cat(r, s)))
  BY <1>1, <1>3, CatAssociative
<1>6. QED
  BY <1>1, <1>2, <1>4, <1>5 DEF Four

LEMMA FourFacts ==
  ASSUME NEW S, NEW p \in Seq(S), NEW q \in Seq(S), NEW r \in Seq(S), NEW s \in Seq(S)
  PROVE  Cat(r, s) \in Seq(S) /\ Cat(q, Cat(r, s)) \in Seq(S) /\ Four(p, q, r, s) \in Seq(S)
<1>1. Cat(r, s) \in Seq(S)
  BY CatFacts
<1>2. Cat(q, Cat(r, s)) \in Seq(S)
  BY <1>1, CatFacts
<1>3. Cat(p, Cat(q, Cat(r, s))) \in Seq(S)
  BY <1>2, CatFacts
<1>4. QED
  BY <1>1, <1>2, <1>3 DEF Four

\* What steps do to the four parts without a change of the whole: the call ends and the caller
\* has its shots, a shot is transferred, a shot is read.
LEMMA FourGets ==
  ASSUME NEW S, NEW p \in Seq(S), NEW q \in Seq(S), NEW r \in Seq(S), NEW s \in Seq(S)
  PROVE  Four(Cat(p, q), <<>>, r, s) = Four(p, q, r, s)
<1>0. Cat(r, s) \in Seq(S)
  BY CatFacts
<1>1. Cat(<<>>, Cat(r, s)) = Cat(r, s)
  BY <1>0, CatFacts
<1>2. Cat(Cat(p, q), Cat(r, s)) = Cat(p, Cat(q, Cat(r, s)))
  BY <1>0, CatAssociative
<1>3. QED
  BY <1>1, <1>2 DEF Four

LEMMA FourTransfers ==
  ASSUME NEW S, NEW p \in Seq(S), NEW q \in Seq(S), NEW r \in Seq(S), NEW s \in Seq(S), s # <<>>
  PROVE  Four(p, q, Append(r, Head(s)), Tail(s)) = Four(p, q, r, s)
<1>1. PICK h, t : /\ h = <<Head(s)>> /\ t = Tail(s)
                  /\ h \in Seq(S) /\ t \in Seq(S) /\ s = Cat(h, t) /\ Head(s) \in S
  BY CatHead
<1>2. Append(r, Head(s)) = Cat(r, h)
  BY <1>1, CatAppend
<1>3. Cat(Cat(r, h), t) = Cat(r, s)
  <2>1. h \in Seq(S) /\ t \in Seq(S)
    BY <1>1
  <2>2. Cat(Cat(r, h), t) = Cat(r, Cat(h, t))
    BY <2>1, CatAssociative
  <2>3. QED
    BY <1>1, <2>2
<1>4. QED
  BY <1>1, <1>2, <1>3 DEF Four

LEMMA FourReads ==
  ASSUME NEW S, NEW p \in Seq(S), NEW r \in Seq(S), NEW s \in Seq(S), r # <<>>
  PROVE  Four(p, <<Head(r)>>, Tail(r), s) = Four(p, <<>>, r, s)
<1>1. PICK h, t : /\ h = <<Head(r)>> /\ t = Tail(r)
                  /\ h \in Seq(S) /\ t \in Seq(S) /\ r = Cat(h, t)
  BY CatHead
<1>2. Cat(h, Cat(t, s)) = Cat(r, s)
  <2>1. h \in Seq(S) /\ t \in Seq(S)
    BY <1>1
  <2>2. Cat(Cat(h, t), s) = Cat(h, Cat(t, s))
    BY <2>1, CatAssociative
  <2>3. QED
    BY <1>1, <2>2
<1>3. Cat(<<>>, Cat(r, s)) = Cat(r, s)
  <2>1. Cat(r, s) \in Seq(S)
    BY CatFacts
  <2>2. QED
    BY <2>1, CatFacts
<1>4. QED
  BY <1>1, <1>2, <1>3 DEF Four

\* A shot that is fired comes last.
LEMMA FourFires ==
  ASSUME NEW S, NEW p \in Seq(S), NEW q \in Seq(S), NEW r \in Seq(S), NEW s \in Seq(S), NEW h \in Seq(S)
  PROVE  Four(p, q, r, Cat(s, h)) = Cat(Four(p, q, r, s), h)
<1>0. Cat(r, s) \in Seq(S) /\ Cat(q, Cat(r, s)) \in Seq(S) /\ Four(p, q, r, s) \in Seq(S)
  BY FourFacts
<1>1. Cat(r, Cat(s, h)) = Cat(Cat(r, s), h)
  BY CatAssociative
<1>2. Cat(q, Cat(Cat(r, s), h)) = Cat(Cat(q, Cat(r, s)), h)
  BY <1>0, CatAssociative
<1>3. Cat(p, Cat(Cat(q, Cat(r, s)), h)) = Cat(Cat(p, Cat(q, Cat(r, s))), h)
  BY <1>0, CatAssociative
<1>4. QED
  BY <1>1, <1>2, <1>3 DEF Four

\* What steps take out of them.
LEMMA FourLosses ==
  ASSUME NEW n \in Nat, NEW p \in Seq(1..n), NEW q \in Seq(1..n), NEW r \in Seq(1..n),
         NEW s \in Seq(1..n), NEW m, Kept(Four(p, q, r, s), m, n)
  PROVE  /\ Kept(Four(p, q, r, <<>>), m \cup Range(s), n)
         /\ Kept(Four(p, q, <<>>, <<>>), m \cup Range(s) \cup Range(r), n)
         /\ Kept(Four(p, <<>>, r, s), m \cup Range(q), n)
         /\ r # <<>> => Kept(Four(p, q, Tail(r), s), m \cup {Head(r)}, n)
<1>a. PICK e : e = <<>> /\ e \in Seq(1..n)
  BY EmptySeq
<1>b. PICK pq, pqr, rs : /\ pq = Cat(p, q) /\ pqr = Cat(pq, r) /\ rs = Cat(r, s)
                         /\ pq \in Seq(1..n) /\ pqr \in Seq(1..n) /\ rs \in Seq(1..n)
  <2>1. Cat(p, q) \in Seq(1..n) /\ Cat(r, s) \in Seq(1..n)
    BY CatFacts
  <2>2. Cat(Cat(p, q), r) \in Seq(1..n)
    BY <2>1, CatFacts
  <2>3. QED
    BY <2>1, <2>2
\* The parts in another grouping.
<1>c. ASSUME NEW t \in Seq(1..n), NEW u \in Seq(1..n)
      PROVE  Four(p, q, t, u) = Cat(pq, Cat(t, u))
  <2>1. Cat(t, u) \in Seq(1..n)
    BY CatFacts
  <2>2. Cat(Cat(p, q), Cat(t, u)) = Cat(p, Cat(q, Cat(t, u)))
    BY <2>1, CatAssociative
  <2>3. QED
    BY <1>b, <2>2 DEF Four
<1>1. Kept(Four(p, q, r, e), m \cup Range(s), n)
  <2>1. Four(p, q, r, s) = Cat(pqr, Cat(s, e))
    <3>1. Cat(s, e) = s
      BY <1>a, CatFacts
    <3>2. Cat(pqr, s) = Cat(pq, rs)
      BY <1>b, CatAssociative
    <3>3. QED
      BY <1>b, <1>c, <3>1, <3>2
  <2>2. Kept(Cat(pqr, e), m \cup Range(s), n)
    BY <1>a, <1>b, <2>1, CatLost
  <2>3. Cat(pqr, e) = Four(p, q, r, e)
    <3>1. Cat(pqr, e) = Cat(pq, Cat(r, e))
      <4>1. e \in Seq(1..n) /\ pq \in Seq(1..n)
        BY <1>a, <1>b
      <4>2. Cat(Cat(pq, r), e) = Cat(pq, Cat(r, e))
        BY <4>1, CatAssociative
      <4>3. QED
        BY <1>b, <4>2
    <3>2. QED
      BY <1>a, <1>c, <3>1
  <2>4. QED
    BY <2>2, <2>3
<1>2. Kept(Four(p, q, e, e), m \cup Range(s) \cup Range(r), n)
  <2>1. PICK l : l = m \cup Range(s)
    OBVIOUS
  <2>2. Kept(Cat(pq, Cat(r, e)), l, n)
    BY <1>1, <1>a, <1>c, <2>1
  <2>3. Kept(Cat(pq, e), l \cup Range(r), n)
    BY <1>a, <1>b, <2>2, CatLost
  <2>4. Cat(e, e) = e
    BY <1>a, CatFacts
  <2>5. QED
    BY ZenonT(30), <1>a, <1>c, <2>1, <2>3, <2>4
<1>3. Kept(Four(p, e, r, s), m \cup Range(q), n)
  <2>1. Kept(Cat(p, Cat(q, rs)), m, n)
    BY <1>b DEF Four
  <2>2. Kept(Cat(p, rs), m \cup Range(q), n)
    BY <1>b, <2>1, CatLost
  <2>3. Cat(e, rs) = rs
    BY <1>a, <1>b, CatFacts
  <2>4. QED
    BY <1>b, <2>2, <2>3 DEF Four
<1>4. ASSUME r # <<>>
      PROVE  Kept(Four(p, q, Tail(r), s), m \cup {Head(r)}, n)
  <2>1. PICK h, t : /\ h = <<Head(r)>> /\ t = Tail(r)
                    /\ h \in Seq(1..n) /\ t \in Seq(1..n) /\ r = Cat(h, t)
    BY <1>4, CatHead
  <2>2. PICK ts : ts = Cat(t, s) /\ ts \in Seq(1..n)
    BY <2>1, CatFacts
  <2>3. Cat(r, s) = Cat(h, ts)
    <3>1. h \in Seq(1..n) /\ t \in Seq(1..n)
      BY <2>1
    <3>2. Cat(Cat(h, t), s) = Cat(h, Cat(t, s))
      BY <3>1, CatAssociative
    <3>3. QED
      BY <2>1, <2>2, <3>2
  <2>4. Kept(Cat(pq, Cat(h, ts)), m, n)
    BY <1>c, <2>3
  <2>5. Kept(Cat(pq, ts), m \cup Range(h), n)
    BY <1>b, <2>1, <2>2, <2>4, CatLost
  <2>6. Four(p, q, t, s) = Cat(pq, ts)
    BY <1>c, <2>1, <2>2
  <2>7. Range(h) = {Head(r)}
    <3>1. DOMAIN h = {1} /\ h[1] = Head(r)
      BY <2>1
    <3>2. QED
      BY <3>1 DEF Range
  <2>8. QED
    BY <2>1, <2>5, <2>6, <2>7
<1>5. QED
  BY <1>a, <1>1, <1>2, <1>3, <1>4

LEMMA ShotsOfOne ==
  /\ ShotsOf(<<>>) = <<>>
  /\ \A g : ShotsOf(<<g>>) = <<g.shot>>
<1>1. DOMAIN <<>> = {} /\ \A g : DOMAIN <<g>> = 1..1 /\ <<g>>[1] = g
  OBVIOUS
<1>2. ShotsOf(<<>>) = <<>>
  BY <1>1 DEF ShotsOf
<1>3. ASSUME NEW g
      PROVE  ShotsOf(<<g>>) = <<g.shot>>
  <2>1. ShotsOf(<<g>>) = [i \in 1..1 |-> g.shot]
    BY <1>1 DEF ShotsOf
  <2>2. [i \in 1..1 |-> g.shot] = <<g.shot>>
    OBVIOUS
  <2>3. QED
    BY <2>1, <2>2
<1>4. QED
  BY <1>2, <1>3

\* The order of one Alien, by its four parts.
Parts(a) == Four(ShotsOf(got[a]), ShotsOf(bullets[a]), body[a], out[a])
KeptAt(a) == Kept(Parts(a), missed[a], Len(fired))

OrderAgrees == \A a \in Aliens : OrderAt(a) <=> KeptAt(a)

LEMMA OrderIsKept == TypesOK => OrderAgrees
  BY StreamIsFour DEF OrderAgrees, OrderAt, KeptAt, Parts

LEMMA OrderIsKeptNext == TypesOK' => OrderAgrees'
  BY OrderIsKept, PTL

\* An Alien a step has nothing to do with.
LEMMA SameOrder ==
  ASSUME NEW a \in Aliens, KeptAt(a), UNCHANGED fired,
         got'[a] = got[a], bullets'[a] = bullets[a], body'[a] = body[a], out'[a] = out[a],
         missed'[a] = missed[a]
  PROVE  KeptAt(a)'
  BY DEF KeptAt, Parts

LEMMA StepKeepsOrder ==
  ASSUME TypesOK, TypesOK', OrderOK, [Next]_vars
  PROVE  OrderOK'
<1>a. PICK n \in Nat : n = Len(fired)
  <2>1. Len(fired) \in Nat
    BY SeqFacts DEF TypesOK, FiredOK
  <2>2. QED
    BY <2>1
<1>b. \A a \in Aliens :
        /\ ShotsOf(got[a]) \in Seq(1..n) /\ ShotsOf(bullets[a]) \in Seq(1..n)
        /\ body[a] \in Seq(1..n) /\ out[a] \in Seq(1..n)
        /\ got[a] \in Seq(Gifts(1..n, Shots)) /\ bullets[a] \in Seq(Gifts(1..n, Shots))
        /\ Parts(a) \in Seq(1..n)
        /\ KeptAt(a) /\ Kept(Parts(a), missed[a], n)
  <2>1. ASSUME NEW a \in Aliens
        PROVE  /\ ShotsOf(got[a]) \in Seq(1..n) /\ ShotsOf(bullets[a]) \in Seq(1..n)
               /\ body[a] \in Seq(1..n) /\ out[a] \in Seq(1..n)
               /\ got[a] \in Seq(Gifts(1..n, Shots)) /\ bullets[a] \in Seq(Gifts(1..n, Shots))
    BY <1>a, StreamFacts
  <2>2. \A a \in Aliens : Parts(a) \in Seq(1..n)
    BY <2>1, FourFacts DEF Parts
  <2>3. \A a \in Aliens : KeptAt(a) /\ Kept(Parts(a), missed[a], n)
    BY <1>a, OrderIsKept DEF OrderOK, OrderAgrees, KeptAt
  <2>4. QED
    BY <2>1, <2>2, <2>3
<1>c. /\ got \in [Aliens -> Seq(Whole)] /\ bullets \in [Aliens -> Seq(Whole)]
      /\ body \in [Aliens -> Seq(DOMAIN fired)] /\ out \in [Aliens -> Seq(DOMAIN fired)]
      /\ missed \in [Aliens -> SUBSET DOMAIN fired]
      /\ \A a \in Aliens : call[a] # "checking" => bullets[a] = <<>>
  BY DEF TypesOK, PipesOK, WholeOK
<1> SUFFICES \A a \in Aliens : KeptAt(a)'
  BY OrderIsKeptNext DEF OrderOK, OrderAgrees
<1>1. ASSUME NEW shot \in Shots, Fire(shot), NEW a \in Aliens
      PROVE  KeptAt(a)'
  <2>1. Len(fired') = n + 1
    BY <1>1, <1>a, AppendProperties DEF Fire, TypesOK, FiredOK
  <2>2. /\ got' = got /\ bullets' = bullets /\ body' = body
        /\ out'[a] = IF Hit(a) THEN Append(out[a], n + 1) ELSE out[a]
        /\ missed'[a] = IF Hit(a) THEN missed[a] ELSE missed[a] \cup {n + 1}
    BY <1>1, <2>1 DEF Fire, calling
  <2>3. CASE Hit(a)
    <3>1. Four(ShotsOf(got[a]), ShotsOf(bullets[a]), body[a], Append(out[a], n + 1)) = Append(Parts(a), n + 1)
      <4>1. PICK p, q, r, s : /\ p = ShotsOf(got[a]) /\ q = ShotsOf(bullets[a]) /\ r = body[a] /\ s = out[a]
        OBVIOUS
      <4>2. p \in Seq(1..n) /\ q \in Seq(1..n) /\ r \in Seq(1..n) /\ s \in Seq(1..n)
        BY <1>b, <4>1
      <4>3. Four(p, q, r, Append(s, n + 1)) = Append(Four(p, q, r, s), n + 1)
        <5>1. 1..n \subseteq Nat /\ n + 1 \in Nat
          OBVIOUS
        <5>2. p \in Seq(Nat) /\ q \in Seq(Nat) /\ r \in Seq(Nat) /\ s \in Seq(Nat)
          BY <4>2, <5>1, SeqMonotonic
        <5>3. Append(s, n + 1) = Cat(s, <<n + 1>>) /\ <<n + 1>> \in Seq(Nat)
          BY <5>1, <5>2, CatAppend
        <5>4. PICK h : h = <<n + 1>>
          OBVIOUS
        <5>5. h \in Seq(Nat)
          BY <5>3, <5>4
        <5>6. Four(p, q, r, Cat(s, h)) = Cat(Four(p, q, r, s), h)
          BY <5>2, <5>5, FourFires
        <5>7. Append(Four(p, q, r, s), n + 1) = Cat(Four(p, q, r, s), <<n + 1>>)
          <6>1. Four(p, q, r, s) \in Seq(Nat)
            BY <5>2, FourFacts
          <6>2. QED
            BY <5>1, <6>1, CatAppend
        <5>8. QED
          BY <5>3, <5>4, <5>6, <5>7
      <4>4. QED
        BY <4>1, <4>3 DEF Parts
    <3>3. Kept(Append(Parts(a), n + 1), missed[a], n + 1)
      BY <1>b, KeptFired
    <3>4. QED
      BY <2>1, <2>2, <2>3, <3>1, <3>3 DEF KeptAt, Parts
  <2>4. CASE ~Hit(a)
    <3>1. Kept(Parts(a), missed[a] \cup {n + 1}, n + 1)
      BY <1>b, KeptFired
    <3>2. QED
      BY <2>1, <2>2, <2>4, <3>1 DEF KeptAt, Parts
  <2>5. QED
    BY <2>3, <2>4
<1>2. ASSUME DestroyShotgun, NEW a \in Aliens
      PROVE  KeptAt(a)'
  <2>1. /\ got' = got /\ bullets' = bullets /\ body' = body /\ fired' = fired
        /\ out'[a] = <<>> /\ missed'[a] = missed[a] \cup Range(out[a])
    BY <1>2 DEF DestroyShotgun, calling
  <2>2. Kept(Four(ShotsOf(got[a]), ShotsOf(bullets[a]), body[a], <<>>), missed[a] \cup Range(out[a]), n)
    BY <1>b, FourLosses DEF Parts
  <2>3. QED
    BY <1>a, <2>1, <2>2 DEF KeptAt, Parts
<1>3. ASSUME NEW a \in Aliens, Transfer(a)
      PROVE  \A b \in Aliens : KeptAt(b)'
  <2>1. /\ got' = got /\ bullets' = bullets /\ fired' = fired /\ missed' = missed /\ out[a] # <<>>
        /\ body'[a] = Append(body[a], Head(out[a])) /\ out'[a] = Tail(out[a])
        /\ \A b \in Aliens \ {a} : body'[b] = body[b] /\ out'[b] = out[b]
    BY <1>3, <1>c DEF Transfer, calling
  <2>2. Four(ShotsOf(got[a]), ShotsOf(bullets[a]), Append(body[a], Head(out[a])), Tail(out[a])) = Parts(a)
    <3>1. PICK p, q, r, s : /\ p = ShotsOf(got[a]) /\ q = ShotsOf(bullets[a]) /\ r = body[a] /\ s = out[a]
      OBVIOUS
    <3>2. p \in Seq(1..n) /\ q \in Seq(1..n) /\ r \in Seq(1..n) /\ s \in Seq(1..n) /\ s # <<>>
      BY <1>b, <2>1, <3>1
    <3>3. Four(p, q, Append(r, Head(s)), Tail(s)) = Four(p, q, r, s)
      BY <3>2, FourTransfers
    <3>4. QED
      BY <3>1, <3>3 DEF Parts
  <2>3. KeptAt(a)'
    BY <1>a, <1>b, <2>1, <2>2 DEF KeptAt, Parts
  <2>4. \A b \in Aliens \ {a} : KeptAt(b)'
    BY <1>b, <2>1, SameOrder
  <2>5. QED
    BY <2>3, <2>4
<1>4. ASSUME NEW a \in Aliens, Receive(a)
      PROVE  \A b \in Aliens : KeptAt(b)'
  <2>1. PICK h \in DOMAIN fired : h = Head(body[a]) /\ body[a] # <<>>
    BY <1>4, <1>c, HeadAndTail DEF Receive
  <2>2. fired[h] \in Shots /\ Tail(Frames(h)) = fired[h] /\ (Len(Frames(h)) >= 2 <=> fired[h] # <<>>)
    BY FramesFacts DEF TypesOK
  <2>3. call[a] \in {"timed", "blocking"} /\ bullets[a] = <<>>
    BY <1>4, <1>c DEF Receive, PollEnds
  <2>4. PICK p, r, s : /\ p = ShotsOf(got[a]) /\ r = body[a] /\ s = out[a] /\ r # <<>>
                       /\ p \in Seq(1..n) /\ r \in Seq(1..n) /\ s \in Seq(1..n) /\ <<>> \in Seq(1..n)
                       /\ <<h>> \in Seq(1..n) /\ Tail(r) \in Seq(1..n) /\ h = Head(r)
    <3>1. <<Head(body[a])>> \in Seq(1..n) /\ Tail(body[a]) \in Seq(1..n)
      BY <1>b, <2>1, HeadAndTail
    <3>2. QED
      BY <1>b, <2>1, <3>1, EmptySeq
  <2>5. Parts(a) = Four(p, <<>>, r, s)
    BY <2>3, <2>4, ShotsOfOne DEF Parts
  <2>6. \A b \in Aliens \ {a} : KeptAt(b)'
    <3>1. \A b \in Aliens \ {a} : /\ got'[b] = got[b] /\ bullets'[b] = bullets[b] /\ body'[b] = body[b]
                                  /\ out'[b] = out[b] /\ missed'[b] = missed[b]
      BY <1>4, <1>c DEF Receive, PollEnds
    <3>2. fired' = fired
      BY <1>4 DEF Receive, PollEnds
    <3>3. QED
      BY <1>b, <3>1, <3>2, SameOrder
  <2>7. fired' = fired /\ out' = out /\ body'[a] = Tail(r)
    BY <1>4, <1>c, <2>4 DEF Receive, PollEnds
  <2>8. CASE fired[h] # <<>>
    <3>1. PICK g : g = [shot |-> h, bullets |-> Tail(Frames(h))]
      OBVIOUS
    <3>2. PollEnds(a, <<g>>) /\ missed' = missed
      BY <1>4, <2>1, <2>2, <2>8, <3>1 DEF Receive
    <3>3. Four(p, <<h>>, Tail(r), s) = Parts(a)
      <4>1. p \in Seq(1..n) /\ r \in Seq(1..n) /\ s \in Seq(1..n) /\ r # <<>>
        BY <2>4
      <4>2. Four(p, <<Head(r)>>, Tail(r), s) = Four(p, <<>>, r, s)
        BY <4>1, FourReads
      <4>3. QED
        BY <2>4, <2>5, <4>2
    <3>4. g \in Gifts(1..n, Shots)
      <4>1. h \in 1..n
        BY <1>a, <2>1, SeqFacts DEF TypesOK, FiredOK
      <4>2. QED
        BY <2>2, <3>1, <4>1 DEF Gifts
    <3>5. ShotsOf(<<g>>) = <<h>>
      BY <3>1, ShotsOfOne
    <3>6. CASE call[a] = "timed"
      <4>1. got'[a] = got[a] \o <<g>> /\ bullets' = bullets
        BY <3>2, <3>6, <1>c DEF PollEnds
      <4>2. ShotsOf(got'[a]) = Cat(p, <<h>>)
        <5>1. <<g>> \in Seq(Gifts(1..n, Shots))
          BY <3>4
        <5>2. ShotsOf(got[a] \o <<g>>) = ShotsOf(got[a]) \o ShotsOf(<<g>>)
          <6>1. PICK u, v, D : u = got[a] /\ v = <<g>> /\ D = 1..n
            OBVIOUS
          <6>2. u \in Seq(Gifts(D, Shots)) /\ v \in Seq(Gifts(D, Shots))
            BY <1>b, <5>1, <6>1
          <6>3. ShotsOf(u \o v) = ShotsOf(u) \o ShotsOf(v)
            BY <6>2, ShotsOfConcat
          <6>4. QED
            BY <6>1, <6>3
        <5>3. QED
          BY <2>4, <3>5, <4>1, <5>2 DEF Cat
      <4>3. Four(Cat(p, <<h>>), <<>>, Tail(r), s) = Four(p, <<h>>, Tail(r), s)
        <5>1. PICK q : q = <<h>>
          OBVIOUS
        <5>2. PICK t : t = Tail(r)
          OBVIOUS
        <5>3. p \in Seq(1..n) /\ q \in Seq(1..n) /\ t \in Seq(1..n) /\ s \in Seq(1..n)
          BY <2>4, <5>1, <5>2
        <5>4. Four(Cat(p, q), <<>>, t, s) = Four(p, q, t, s)
          BY <5>3, FourGets
        <5>5. QED
          BY <5>1, <5>2, <5>4
      <4>4. Parts(a)' = Parts(a)
        BY <2>3, <2>4, <2>7, <3>3, <4>1, <4>2, <4>3, ShotsOfOne DEF Parts
      <4>5. QED
        BY <1>b, <2>6, <2>7, <3>2, <4>4 DEF KeptAt
    <3>7. CASE call[a] # "timed"
      <4>1. got' = got /\ bullets'[a] = <<g>>
        BY <3>2, <3>7, <1>c DEF PollEnds
      <4>2. Parts(a)' = Parts(a)
        BY <2>4, <2>7, <3>3, <3>5, <4>1 DEF Parts
      <4>3. QED
        BY <1>b, <2>6, <2>7, <3>2, <4>2 DEF KeptAt
    <3>8. QED
      BY <3>6, <3>7
  <2>9. CASE fired[h] = <<>>
    <3>1. PollEnds(a, <<>>) /\ missed' = [missed EXCEPT ![a] = @ \cup {h}]
      BY <1>4, <2>1, <2>2, <2>9 DEF Receive
    <3>2. got'[a] = got[a] /\ bullets'[a] = <<>>
      <4>1. got[a] \o <<>> = got[a]
        BY <1>b, ConcatEmptySeq
      <4>2. QED
        BY <1>c, <2>3, <3>1, <4>1 DEF PollEnds
    <3>3. Parts(a)' = Four(p, <<>>, Tail(r), s)
      BY <2>4, <2>7, <3>2, ShotsOfOne DEF Parts
    <3>4. Kept(Four(p, <<>>, Tail(r), s), missed[a] \cup {h}, n)
      <4>1. Kept(Four(p, <<>>, r, s), missed[a], n)
        BY <1>b, <2>5
      <4>2. QED
        BY <2>4, <4>1, FourLosses
    <3>5. missed'[a] = missed[a] \cup {h}
      BY <1>c, <3>1
    <3>6. KeptAt(a)'
      BY <1>a, <2>7, <3>3, <3>4, <3>5 DEF KeptAt
    <3>7. QED
      BY <2>6, <3>6
  <2>10. QED
    BY <2>8, <2>9
<1>5. ASSUME NEW a \in Aliens, TimeOut(a) \/ Signal(a)
      PROVE  \A b \in Aliens : KeptAt(b)'
  <2>1. /\ fired' = fired /\ out' = out /\ body' = body /\ missed' = missed
        /\ PollEnds(a, <<>>) \/ UNCHANGED <<got, bullets>>
    BY <1>5 DEF TimeOut, Signal, PollEnds
  <2>2. got[a] \o <<>> = got[a]
    BY <1>b, ConcatEmptySeq
  <2>3. \A b \in Aliens : got'[b] = got[b] /\ bullets'[b] = bullets[b]
    <3>1. CASE UNCHANGED <<got, bullets>>
      BY <3>1
    <3>2. CASE PollEnds(a, <<>>)
      BY <1>c, <2>2, <3>2 DEF PollEnds
    <3>3. QED
      BY <2>1, <3>1, <3>2
  <2>4. QED
    BY <1>b, <2>1, <2>3, SameOrder
<1>6. ASSUME NEW a \in Aliens, InterruptionPoint(a)
      PROVE  \A b \in Aliens : KeptAt(b)'
  <2>1. /\ got' = got /\ fired' = fired /\ out' = out /\ body' = body /\ bullets'[a] = <<>>
        /\ missed'[a] = missed[a] \cup {bullets[a][i].shot : i \in DOMAIN bullets[a]}
        /\ \A b \in Aliens \ {a} : bullets'[b] = bullets[b] /\ missed'[b] = missed[b]
    BY <1>6, <1>c DEF InterruptionPoint
  <2>2. {bullets[a][i].shot : i \in DOMAIN bullets[a]} = Range(ShotsOf(bullets[a]))
    BY DEF Range, ShotsOf
  <2>3. Kept(Four(ShotsOf(got[a]), <<>>, body[a], out[a]), missed[a] \cup Range(ShotsOf(bullets[a])), n)
    BY <1>b, FourLosses DEF Parts
  <2>4. KeptAt(a)'
    BY <1>a, <2>1, <2>2, <2>3, ShotsOfOne DEF KeptAt, Parts
  <2>5. \A b \in Aliens \ {a} : KeptAt(b)'
    BY <1>b, <2>1, SameOrder
  <2>6. QED
    BY <2>4, <2>5
<1>7. ASSUME NEW a \in Aliens, Checked(a)
      PROVE  \A b \in Aliens : KeptAt(b)'
  <2>1. /\ fired' = fired /\ out' = out /\ body' = body /\ missed' = missed
        /\ got'[a] = got[a] \o bullets[a] /\ bullets'[a] = <<>>
        /\ \A b \in Aliens \ {a} : got'[b] = got[b] /\ bullets'[b] = bullets[b]
    BY <1>7, <1>c DEF Checked
  <2>2. ShotsOf(got[a] \o bullets[a]) = Cat(ShotsOf(got[a]), ShotsOf(bullets[a]))
    <3>1. ShotsOf(got[a] \o bullets[a]) = ShotsOf(got[a]) \o ShotsOf(bullets[a])
      BY <1>b, ShotsOfConcat
    <3>2. QED
      BY <3>1 DEF Cat
  <2>3. Four(Cat(ShotsOf(got[a]), ShotsOf(bullets[a])), <<>>, body[a], out[a]) = Parts(a)
    <3>1. PICK p, q, r, s : /\ p = ShotsOf(got[a]) /\ q = ShotsOf(bullets[a]) /\ r = body[a] /\ s = out[a]
      OBVIOUS
    <3>2. p \in Seq(1..n) /\ q \in Seq(1..n) /\ r \in Seq(1..n) /\ s \in Seq(1..n)
      BY <1>b, <3>1
    <3>3. Four(Cat(p, q), <<>>, r, s) = Four(p, q, r, s)
      BY <3>2, FourGets
    <3>4. QED
      BY <3>1, <3>3 DEF Parts
  <2>4. Parts(a)' = Parts(a)
    BY <2>1, <2>2, <2>3, ShotsOfOne DEF Parts
  <2>5. KeptAt(a)'
    BY <1>b, <2>1, <2>4 DEF KeptAt
  <2>6. \A b \in Aliens \ {a} : KeptAt(b)'
    BY <1>b, <2>1, SameOrder
  <2>7. QED
    BY <2>5, <2>6
<1>8. ASSUME NEW a \in Aliens, DestroyAlien(a)
      PROVE  \A b \in Aliens : KeptAt(b)'
  <2>1. /\ fired' = fired /\ got' = got /\ bullets' = bullets /\ out'[a] = <<>> /\ body'[a] = <<>>
        /\ missed'[a] = missed[a] \cup Range(out[a]) \cup Range(body[a])
        /\ \A b \in Aliens \ {a} : out'[b] = out[b] /\ body'[b] = body[b] /\ missed'[b] = missed[b]
    BY <1>8, <1>c DEF DestroyAlien, calling
  <2>2. Kept(Four(ShotsOf(got[a]), ShotsOf(bullets[a]), <<>>, <<>>),
             missed[a] \cup Range(out[a]) \cup Range(body[a]), n)
    BY <1>b, FourLosses DEF Parts
  <2>3. KeptAt(a)'
    BY <1>a, <2>1, <2>2 DEF KeptAt, Parts
  <2>4. \A b \in Aliens \ {a} : KeptAt(b)'
    BY <1>b, <2>1, SameOrder
  <2>5. QED
    BY <2>3, <2>4
<1>9. ASSUME UNCHANGED <<fired, got, bullets, body, out, missed>>
      PROVE  \A b \in Aliens : KeptAt(b)'
  BY <1>9, <1>b, SameOrder
<1>10. ASSUME NEW a \in Aliens, PrepareToBeShot(a) \/ Connect(a) \/ GetShotTimed(a) \/ GetShot(a)
                                \/ Interrupt(a)
       PROVE  \A b \in Aliens : KeptAt(b)'
  <2>1. UNCHANGED <<fired, got, bullets, body, out, missed>>
    BY <1>10 DEF PrepareToBeShot, Connect, GetShotTimed, GetShot, Interrupt, calling
  <2>2. QED
    BY <1>9, <2>1
<1>11. Aim \/ UNCHANGED vars => UNCHANGED <<fired, got, bullets, body, out, missed>>
  BY DEF Aim, vars, calling
<1>12. QED
  BY <1>1, <1>2, <1>3, <1>4, <1>5, <1>6, <1>7, <1>8, <1>9, <1>10, <1>11 DEF Next, AlienStep

\* A step makes an Alien miss a shot for no other reason than those there are.
LEMMA StepMissesNone == TypesOK /\ [Next]_vars => NoneMissed \/ UNCHANGED vars
<1> SUFFICES ASSUME TypesOK, Next, NEW b \in Aliens, NEW x \in missed'[b] \ missed[b]
             PROVE  Excused(b, x)
  BY DEF NoneMissed
<1>1. missed \in [Aliens -> SUBSET DOMAIN fired] /\ prepared \subseteq Aliens
  BY DEF TypesOK, PipesOK, PlacesOK
<1>2. ASSUME NEW shot \in Shots, Fire(shot)
      PROVE  Excused(b, x)
  <2>1. Len(fired') = Len(fired) + 1
    BY <1>2, AppendProperties DEF Fire, TypesOK, FiredOK
  <2>2. missed'[b] = IF Hit(b) THEN missed[b] ELSE missed[b] \cup {Len(fired) + 1}
    BY <1>2, <2>1 DEF Fire
  <2>3. QED
    BY <2>2 DEF Excused
<1>3. CASE DestroyShotgun
  <2>1. missed'[b] = missed[b] \cup Range(out[b]) /\ aimed /\ ~aimed'
    BY <1>3 DEF DestroyShotgun
  <2>2. QED
    BY <2>1 DEF Excused
<1>4. ASSUME NEW a \in Aliens, Receive(a)
      PROVE  Excused(b, x)
  <2>1. PICK h : h = Head(body[a])
    OBVIOUS
  <2>2. body[a] \in Seq(DOMAIN fired) /\ body[a] # <<>>
    BY <1>4 DEF Receive, TypesOK, PipesOK
  <2>3. h \in DOMAIN fired /\ h \in Range(body[a])
    <3>1. h = body[a][1] /\ 1 \in DOMAIN body[a] /\ Head(body[a]) \in DOMAIN fired
      BY <2>1, <2>2, HeadTailProperties, EmptySeq, SeqFacts
    <3>2. QED
      BY <2>1, <3>1 DEF Range
  <2>4. missed' = missed \/ (~(Len(Frames(h)) >= 2) /\ missed' = [missed EXCEPT ![a] = @ \cup {h}])
    BY <1>4, <2>1 DEF Receive
  <2>5. ~(Len(Frames(h)) >= 2) /\ a = b /\ x = h
    BY <1>1, <2>4
  <2>6. fired[h] = <<>>
    BY <2>3, <2>5, FramesFacts DEF TypesOK
  <2>7. QED
    BY <2>3, <2>5, <2>6 DEF Excused
<1>5. ASSUME NEW a \in Aliens, InterruptionPoint(a)
      PROVE  Excused(b, x)
  <2>1. /\ missed' = [missed EXCEPT ![a] = @ \cup {bullets[a][i].shot : i \in DOMAIN bullets[a]}]
        /\ a \in asked \ asked'
    BY <1>5 DEF InterruptionPoint
  <2>2. a = b /\ x \in {bullets[a][i].shot : i \in DOMAIN bullets[a]}
    BY <1>1, <2>1
  <2>3. {bullets[a][i].shot : i \in DOMAIN bullets[a]} = Range(ShotsOf(bullets[a]))
    BY DEF Range, ShotsOf
  <2>4. QED
    BY <2>1, <2>2, <2>3 DEF Excused
<1>6. ASSUME NEW a \in Aliens, DestroyAlien(a)
      PROVE  Excused(b, x)
  <2>1. /\ missed' = [missed EXCEPT ![a] = @ \cup Range(out[a]) \cup Range(body[a])]
        /\ a \in prepared \ prepared'
    BY <1>6 DEF DestroyAlien
  <2>2. a = b
    BY <1>1, <2>1
  <2>3. QED
    BY <2>1, <2>2 DEF Excused
<1>7. ASSUME missed' = missed
      PROVE  FALSE
  BY <1>7
<1>8. ~Aim
  BY <1>7 DEF Aim
<1>9. ASSUME NEW a \in Aliens, PrepareToBeShot(a) \/ Connect(a) \/ Transfer(a) \/ GetShotTimed(a)
                               \/ GetShot(a) \/ TimeOut(a) \/ Signal(a) \/ Interrupt(a) \/ Checked(a)
      PROVE  FALSE
  BY <1>7, <1>9 DEF PrepareToBeShot, Connect, Transfer, GetShotTimed, GetShot, TimeOut, Signal,
     Interrupt, Checked
<1>10. QED
  BY <1>2, <1>3, <1>4, <1>5, <1>6, <1>8, <1>9 DEF Next, AlienStep

-----------------------------------------------------------------------------
(* The inductive invariant *)

IInv == TypesOK /\ OrderOK

LEMMA StartsWell == Init => IInv
<1> SUFFICES ASSUME Init PROVE IInv
  OBVIOUS
<1>1. DOMAIN <<>> = {} /\ Len(<<>>) = 0 /\ \A S : <<>> \in Seq(S)
  BY EmptySeq
<1>2. TypesOK
  <2>1. Hwm \in Nat
    BY Assumptions DEF Assumptions
  <2>2. PlacesOK /\ FiredOK
    BY <1>1 DEF Init, PlacesOK, FiredOK
  <2>3. PipesOK /\ WholeOK
    BY <1>1, <2>1 DEF Init, PipesOK, WholeOK
  <2>4. QED
    BY <2>2, <2>3 DEF TypesOK
<1>3. ASSUME NEW a \in Aliens
      PROVE  KeptAt(a)
  <2>1. /\ got[a] = <<>> /\ bullets[a] = <<>> /\ body[a] = <<>> /\ out[a] = <<>> /\ missed[a] = {}
        /\ fired = <<>>
    BY <1>3 DEF Init
  <2>2. Parts(a) = <<>>
    <3>1. <<>> \in Seq({}) /\ Cat(<<>>, <<>>) = <<>>
      BY <1>1, CatFacts
    <3>2. QED
      BY <2>1, <3>1, ShotsOfOne DEF Parts, Four
  <2>3. Kept(<<>>, {}, 0)
    BY <1>1 DEF Kept, Incr, Range
  <2>4. QED
    BY <1>1, <2>1, <2>2, <2>3 DEF KeptAt
<1>4. QED
  BY <1>2, <1>3, OrderIsKept DEF IInv, OrderOK, OrderAgrees

LEMMA AlwaysIInv == Spec => []IInv
<1>1. IInv /\ [Next]_vars => IInv'
  BY StepKeepsTypes, StepKeepsOrder DEF IInv
<1>2. QED
  BY <1>1, StartsWell, PTL DEF Spec

\* Every variable keeps its type, with any number of Aliens and any shots.
THEOREM TypeCorrect == Spec => []TypeOK
<1>1. IInv => TypeOK
  BY TypeParts, WholeIsGiven DEF IInv, TypesOK
<1>2. QED
  BY <1>1, AlwaysIInv, PTL

\* Every Alien is given shots whole, once and in order, and misses none but those that
\* were fired when it was not connected or had no room, that have no bullets, or that went
\* with its Shotgun, with itself or with an exception.
THEOREM ShotsComeInOrder == Spec => []ShotsInOrder
<1>1. IInv => InOrder
  <2> SUFFICES ASSUME IInv, NEW a \in Aliens
               PROVE  /\ \A i, j \in DOMAIN Stream(a) : i < j => Stream(a)[i] < Stream(a)[j]
                      /\ missed[a] \cap Range(Stream(a)) = {}
                      /\ missed[a] \cup Range(Stream(a)) = DOMAIN fired
                      /\ \A i \in DOMAIN got[a] : /\ got[a][i].bullets = fired[got[a][i].shot]
                                                  /\ got[a][i].bullets # <<>>
    BY DEF InOrder
  <2>1. Kept(Stream(a), missed[a], Len(fired)) /\ DOMAIN fired = 1..Len(fired)
    BY StreamFacts DEF IInv, OrderOK, OrderAt
  <2>2. \A i \in DOMAIN got[a] : got[a][i] \in Whole
    BY SeqFacts DEF IInv, TypesOK, WholeOK
  <2>3. QED
    BY <2>1, <2>2 DEF Kept, Incr, Whole
<1>2. IInv /\ [Next]_vars => [NoneMissed]_vars
  BY StepMissesNone DEF IInv
<1>3. QED
  BY <1>1, <1>2, AlwaysIInv, PTL DEF Spec, ShotsInOrder
=============================================================================
