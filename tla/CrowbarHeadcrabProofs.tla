----------------------- MODULE CrowbarHeadcrabProofs -----------------------
(* Proofs about CrowbarHeadcrab, for every value of its constants. *)
EXTENDS CrowbarHeadcrab, TLAPS

-----------------------------------------------------------------------------
(* Types *)

\* While GetFace or GetTip is trying, its retries are not used up.
RetriesLeft ==
  /\ hpc = "binding" => bindRetries >= 0
  /\ \A c \in Crowbars : mTip[c] = "connecting" => connectRetries[c] >= 0

\* The part of TypeOK that is about the Headcrab, and the one about the hits.
HeadcrabOK ==
  /\ inproc \in BOOLEAN
  /\ holder \in {"free", "other", "face", "orphan"}
  /\ hpc \in {"none", "binding", "receive", "reply"}
  /\ hpc \in {"receive", "reply"} <=> holder = "face"
  /\ bindRetries \in -1..ConnectRetries
  /\ zctx_interrupted \in BOOLEAN
  /\ hpc = "binding" => bindRetries >= 0

TipsOK ==
  /\ mTip \in [Crowbars -> {"none", "connecting", "connected", "unconnected"}]
  /\ connectRetries \in [Crowbars -> -1..ConnectRetries]
  /\ \A c \in Crowbars : mTip[c] = "connecting" => connectRetries[c] >= 0

HitsOK ==
  /\ hits \in Seq(Crowbars)
  /\ theHits \subseteq DOMAIN hits /\ pipe \subseteq DOMAIN hits
  /\ theHit \in 0..Len(hits) /\ (theHit # 0 <=> hpc = "reply")
  /\ pending \in [Crowbars -> 0..Len(hits)]
  /\ guts \in [Crowbars -> SUBSET DOMAIN hits]
  /\ lost \subseteq DOMAIN hits

LEMMA TypeParts == TypeOK /\ RetriesLeft <=> HeadcrabOK /\ TipsOK /\ HitsOK
  BY DEF TypeOK, RetriesLeft, HeadcrabOK, TipsOK, HitsOK

LEMMA HeadcrabTypes ==
  ASSUME HeadcrabOK, HitsOK, [Next]_vars
  PROVE  HeadcrabOK'
<1> USE Assumptions DEF HeadcrabOK
<1>1. CASE UNCHANGED vars
  BY <1>1 DEF vars, headcrab
<1>2. CASE ComeToLife
  BY <1>2 DEF ComeToLife, Assumptions
<1>3. CASE BindSucceeds
  BY <1>3 DEF BindSucceeds
<1>4. CASE BindFails
  BY <1>4 DEF BindFails, Assumptions
<1>5. CASE SendSplatter
  BY <1>5 DEF SendSplatter
<1>6. CASE DestroyHeadcrab
  BY <1>6 DEF DestroyHeadcrab
<1>7. ASSUME NEW n, GetHit(n)
      PROVE  HeadcrabOK'
  BY <1>7 DEF GetHit
<1>8. ASSUME NEW n, Travel(n)
      PROVE  HeadcrabOK'
  BY <1>8 DEF Travel, headcrab
<1>9. ASSUME NEW c, Wield(c) \/ ConnectSucceeds(c) \/ ConnectFails(c)
                    \/ Flurry(c) \/ BlockForKill(c) \/ DestroyCrowbar(c)
      PROVE  HeadcrabOK'
  BY <1>9 DEF Wield, ConnectSucceeds, ConnectFails, Flurry, BlockForKill, DestroyCrowbar, headcrab
<1>10. CASE Signal
  BY <1>10 DEF Signal, headcrab
<1>11. CASE OtherBinds
  BY <1>11 DEF OtherBinds
<1>12. QED
  BY <1>1, <1>2, <1>3, <1>4, <1>5, <1>6, <1>7, <1>8, <1>9, <1>10, <1>11 DEF Next

LEMMA TipsTypes ==
  ASSUME TipsOK, [Next]_vars
  PROVE  TipsOK'
<1> USE Assumptions DEF TipsOK
<1>1. CASE UNCHANGED tips
  BY <1>1 DEF tips
<1>2. ASSUME NEW c \in Crowbars, Wield(c)
      PROVE  TipsOK'
  BY <1>2 DEF Wield, Assumptions
<1>3. ASSUME NEW c \in Crowbars, ConnectSucceeds(c)
      PROVE  TipsOK'
  BY <1>3 DEF ConnectSucceeds
<1>4. ASSUME NEW c \in Crowbars, ConnectFails(c)
      PROVE  TipsOK'
  BY <1>4 DEF ConnectFails, Assumptions
<1>5. ASSUME NEW c \in Crowbars, DestroyCrowbar(c)
      PROVE  TipsOK'
  BY <1>5 DEF DestroyCrowbar
<1>6. ASSUME NEW c \in Crowbars, Flurry(c) \/ BlockForKill(c)
      PROVE  UNCHANGED tips
  BY <1>6 DEF Flurry, BlockForKill
<1>7. ASSUME NEW n, GetHit(n) \/ Travel(n)
      PROVE  UNCHANGED tips
  BY <1>7 DEF GetHit, Travel
<1>8. QED
  BY <1>1, <1>2, <1>3, <1>4, <1>5, <1>6, <1>7
     DEF Next, vars, ComeToLife, BindSucceeds, BindFails, SendSplatter, DestroyHeadcrab,
         Signal, OtherBinds

LEMMA HitsTypes ==
  ASSUME HeadcrabOK, HitsOK, [Next]_vars
  PROVE  HitsOK'
<1> USE DEF HitsOK
<1>1. CASE UNCHANGED vars
  BY <1>1 DEF vars, headcrab
<1>2. CASE ComeToLife \/ BindSucceeds \/ BindFails
  BY <1>2 DEF ComeToLife, BindSucceeds, BindFails
<1>3. CASE SendSplatter
  <2>1. theHit \in DOMAIN hits /\ hits[theHit] \in Crowbars
    BY <1>3 DEF SendSplatter
  <2>2. guts' \in [Crowbars -> SUBSET DOMAIN hits]
    BY <1>3, <2>1 DEF SendSplatter
  <2>3. QED
    BY <1>3, <2>2 DEF SendSplatter
<1>4. CASE DestroyHeadcrab
  BY <1>4 DEF DestroyHeadcrab
<1>5. ASSUME NEW n \in DOMAIN hits, GetHit(n)
      PROVE  HitsOK'
  BY <1>5 DEF GetHit
<1>6. ASSUME NEW n \in DOMAIN hits, Travel(n)
      PROVE  HitsOK'
  BY <1>6 DEF Travel, headcrab
<1>7. ASSUME NEW c \in Crowbars, Wield(c) \/ ConnectSucceeds(c) \/ ConnectFails(c)
      PROVE  HitsOK'
  BY <1>7 DEF Wield, ConnectSucceeds, ConnectFails, headcrab
<1>8. ASSUME NEW c \in Crowbars, Flurry(c)
      PROVE  HitsOK'
  <2>1. /\ hits' \in Seq(Crowbars)
        /\ Len(hits') = Len(hits) + 1
        /\ DOMAIN hits' = DOMAIN hits \cup {Len(hits) + 1}
    BY <1>8 DEF Flurry
  <2>2. pending' \in [Crowbars -> 0..Len(hits')]
    BY <1>8, <2>1 DEF Flurry
  <2>3. guts' \in [Crowbars -> SUBSET DOMAIN hits']
    BY <1>8, <2>1 DEF Flurry
  <2>4. theHit' \in 0..Len(hits') /\ (theHit' # 0 <=> hpc' = "reply")
    BY <1>8, <2>1 DEF Flurry, headcrab
  <2>5. QED
    BY <1>8, <2>1, <2>2, <2>3, <2>4 DEF Flurry
<1>9. ASSUME NEW c \in Crowbars, BlockForKill(c) \/ DestroyCrowbar(c)
      PROVE  HitsOK'
  <2>1. UNCHANGED <<hits, theHits, theHit, hpc, lost>> /\ pipe' \subseteq pipe
    BY <1>9 DEF BlockForKill, DestroyCrowbar, headcrab
  <2>2. /\ pending' = [pending EXCEPT ![c] = 0]
        /\ guts' = [guts EXCEPT ![c] = {}]
    BY <1>9 DEF BlockForKill, DestroyCrowbar
  <2>3. 0 \in 0..Len(hits)
    OBVIOUS
  <2>4. /\ pending' \in [Crowbars -> 0..Len(hits)]
        /\ guts' \in [Crowbars -> SUBSET DOMAIN hits]
    BY <2>2, <2>3
  <2>5. QED
    BY <2>1, <2>4
<1>10. CASE Signal \/ OtherBinds
  BY <1>10 DEF Signal, OtherBinds, headcrab
<1>11. QED
  BY <1>1, <1>2, <1>3, <1>4, <1>5, <1>6, <1>7, <1>8, <1>9, <1>10 DEF Next

\* Every variable keeps its type, with any number of Crowbars and of retries.
THEOREM TypeCorrect == Spec => []TypeOK
<1>1. Init => TypeOK /\ RetriesLeft
  <2> SUFFICES ASSUME Init PROVE TypeOK /\ RetriesLeft
    OBVIOUS
  <2> USE DEF Init
  <2>1. hits \in Seq(Crowbars) /\ Len(hits) = 0 /\ DOMAIN hits = {}
    OBVIOUS
  <2>2. HeadcrabOK /\ TipsOK
    <3>1. 0 \in -1..ConnectRetries /\ 0 >= 0
      BY Assumptions DEF Assumptions
    <3>2. HeadcrabOK
      BY <3>1 DEF HeadcrabOK
    <3>3. TipsOK
      BY <3>1 DEF TipsOK
    <3>4. QED
      BY <3>2, <3>3
  <2>3. HitsOK
    BY <2>1 DEF HitsOK
  <2>4. QED
    BY <2>2, <2>3, TypeParts
<1>2. TypeOK /\ RetriesLeft /\ [Next]_vars => (TypeOK /\ RetriesLeft)'
  <2> SUFFICES ASSUME TypeOK, RetriesLeft, [Next]_vars
               PROVE  TypeOK' /\ RetriesLeft'
    OBVIOUS
  <2>1. HeadcrabOK /\ TipsOK /\ HitsOK
    BY TypeParts
  <2>2. HeadcrabOK' /\ TipsOK' /\ HitsOK'
    BY <2>1, HeadcrabTypes, TipsTypes, HitsTypes
  <2>3. QED
    BY <2>2 DEF TypeOK, RetriesLeft, HeadcrabOK, TipsOK, HitsOK
<1>3. QED
  BY <1>1, <1>2, PTL DEF Spec

-----------------------------------------------------------------------------
(* Hits and answers *)

\* One step keeps hits and answers in step.
LEMMA StepKeepsLockstep ==
  ASSUME TypeOK, InLockstep, [Next]_vars
  PROVE  InLockstep'
<1> USE DEF InLockstep
<1>t. HitsOK
  BY DEF TypeOK, HitsOK
<1>1. CASE UNCHANGED vars
  BY <1>1 DEF vars, headcrab, tips
<1>2. CASE ComeToLife \/ BindSucceeds \/ BindFails \/ Signal \/ OtherBinds
  BY <1>2 DEF ComeToLife, BindSucceeds, BindFails, Signal, OtherBinds, headcrab, tips
<1>3. CASE SendSplatter
  <2>1. theHit \in DOMAIN hits /\ hits[theHit] \in Crowbars /\ theHit # 0
    BY <1>3, <1>t DEF SendSplatter, HitsOK
  <2>2. \A c \in Crowbars :
          /\ guts'[c] \subseteq guts[c] \cup {theHit}
          /\ theHit \in guts'[c] => pending[c] = theHit
          /\ 0 \notin guts'[c]
    BY <1>3, <1>t, <2>1 DEF SendSplatter, HitsOK
  <2>3. \A c \in Crowbars : guts'[c] \subseteq {pending[c]}
    BY <2>2
  <2>4. QED
    BY <1>3, <2>1, <2>2, <2>3, <1>t DEF SendSplatter, tips, HitsOK
<1>4. CASE DestroyHeadcrab
  BY <1>4, <1>t DEF DestroyHeadcrab, tips, HitsOK
<1>5. ASSUME NEW n \in DOMAIN hits, GetHit(n)
      PROVE  InLockstep'
  BY <1>5, <1>t DEF GetHit, tips, HitsOK
<1>6. ASSUME NEW n \in DOMAIN hits, Travel(n)
      PROVE  InLockstep'
  BY <1>6, <1>t DEF Travel, headcrab, tips, HitsOK
<1>7. ASSUME NEW c \in Crowbars, Wield(c) \/ ConnectSucceeds(c) \/ ConnectFails(c)
      PROVE  InLockstep'
  <2>1. /\ UNCHANGED <<headcrab, theHits, hits, pending, pipe, guts, lost>>
        /\ mTip[c] \in {"none", "connecting"}
        /\ \A d \in Crowbars \ {c} : mTip'[d] = mTip[d]
    BY <1>7, <1>t DEF Wield, ConnectSucceeds, ConnectFails, headcrab, TypeOK
  <2>2. QED
    BY <2>1, <1>t DEF headcrab, HitsOK
<1>8. ASSUME NEW c \in Crowbars, Flurry(c)
      PROVE  InLockstep'
  <2> DEFINE new == Len(hits) + 1
  <2>1. /\ DOMAIN hits' = DOMAIN hits \cup {new} /\ new \notin DOMAIN hits /\ new # 0
        /\ hits'[new] = c
        /\ \A n \in DOMAIN hits : hits'[n] = hits[n]
        /\ theHit # new
    BY <1>8, <1>t DEF Flurry, HitsOK
  <2>2. /\ pending'[c] = new
        /\ \A d \in Crowbars \ {c} : pending'[d] = pending[d]
        /\ pending[c] = 0 /\ mTip[c] = "connected"
    BY <1>8, <1>t DEF Flurry, PollForReady, HitsOK
  <2>3. UNCHANGED <<theHits, theHit, mTip, guts>> /\ pipe' = pipe \cup {new}
    BY <1>8 DEF Flurry, headcrab, tips
  <2> HIDE DEF new
  <2>4. \A n \in pipe' : pending'[hits'[n]] = n \/ (inproc' /\ pending'[hits'[n]] \notin 1..n)
    <3> SUFFICES ASSUME NEW n \in pipe'
                 PROVE  pending'[hits'[n]] = n \/ (inproc' /\ pending'[hits'[n]] \notin 1..n)
      OBVIOUS
    <3>1. CASE n = new
      BY <2>1, <2>2, <3>1
    <3>2. CASE n # new
      <4>1. n \in pipe /\ n \in DOMAIN hits /\ hits'[n] = hits[n] /\ n \in Nat /\ n # 0
            /\ hits[n] \in Crowbars /\ inproc' = inproc
        BY <1>8, <2>1, <2>3, <3>2, <1>t DEF HitsOK, Flurry, headcrab
      <4>2. pending[hits[n]] = n \/ (inproc /\ pending[hits[n]] \notin 1..n)
        BY <4>1
      <4>3. CASE hits[n] # c
        BY <2>2, <4>1, <4>2, <4>3
      <4>4. CASE hits[n] = c
        <5>1. inproc /\ pending'[hits'[n]] = new
          BY <2>2, <4>1, <4>2, <4>4
        <5>2. new \notin 1..n
          BY <4>1, <1>t DEF new, HitsOK
        <5>3. QED
          BY <4>1, <5>1, <5>2
      <4>5. QED
        BY <4>3, <4>4
    <3>3. QED
      BY <3>1, <3>2
  <2>5. \A d \in Crowbars : pending'[d] # 0 => hits'[pending'[d]] = d /\ mTip'[d] = "connected"
    BY <2>1, <2>2, <2>3, <1>t DEF HitsOK
  <2>6. \A d \in Crowbars : guts'[d] \subseteq {pending'[d]}
    BY <2>1, <2>2, <2>3, <1>t DEF HitsOK
  <2>7. QED
    BY <2>1, <2>3, <2>4, <2>5, <2>6, <1>t DEF HitsOK
<1>9. ASSUME NEW c \in Crowbars, BlockForKill(c)
      PROVE  InLockstep'
  <2>1. pending[c] \notin pipe
    BY <1>9 DEF BlockForKill
  <2>2. QED
    BY <1>9, <2>1, <1>t DEF BlockForKill, headcrab, tips, HitsOK
<1>10. ASSUME NEW c \in Crowbars, DestroyCrowbar(c)
      PROVE  InLockstep'
  BY SMTT(20), <1>10, <1>t DEF DestroyCrowbar, headcrab, HitsOK, TypeOK
<1>11. QED
  BY <1>1, <1>2, <1>3, <1>4, <1>5, <1>6, <1>7, <1>8, <1>9, <1>10 DEF Next

\* Whoever is destroyed and made again, however often: a Crowbar is never answered
\* what it does not wait for, and no hit is in two places.
THEOREM StaysInLockstep == Spec => []InLockstep
<1>1. Init => InLockstep
  BY DEF Init, InLockstep
<1>2. TypeOK /\ InLockstep /\ [Next]_vars => InLockstep'
  BY StepKeepsLockstep
<1>3. QED
  BY <1>1, <1>2, TypeCorrect, PTL DEF Spec

-----------------------------------------------------------------------------
(* Crowbars and Headcrab are callers and one who answers *)

\* What TypeOK and InLockstep say of the places a hit can be in.
LEMMA PlacesOfHits ==
  ASSUME TypeOK, InLockstep
  PROVE  /\ DOMAIN hits = 1..Len(hits) /\ Len(hits) \in Nat /\ 0 \notin DOMAIN hits
         /\ theHit \in {0} \cup DOMAIN hits /\ (theHit # 0 <=> hpc = "reply")
         /\ pending \in [Crowbars -> {0} \cup DOMAIN hits]
         /\ guts \in [Crowbars -> SUBSET DOMAIN hits]
         /\ \A n \in DOMAIN hits : hits[n] \in Crowbars
         /\ \A c, d \in Crowbars : c # d /\ pending[c] # 0 => pending[c] # pending[d]
         /\ \A c \in Crowbars : \A n \in guts[c] : n = pending[c] /\ n # 0
<1>1. hits \in Seq(Crowbars) /\ Len(hits) \in Nat /\ DOMAIN hits = 1..Len(hits)
  BY DEF TypeOK
<1>2. 0 \notin DOMAIN hits /\ \A k \in 0..Len(hits) : k \in {0} \cup DOMAIN hits
  BY <1>1
<1>3. /\ theHit \in {0} \cup DOMAIN hits /\ (theHit # 0 <=> hpc = "reply")
      /\ pending \in [Crowbars -> {0} \cup DOMAIN hits]
      /\ guts \in [Crowbars -> SUBSET DOMAIN hits]
  BY <1>2 DEF TypeOK
<1>4. \A n \in DOMAIN hits : hits[n] \in Crowbars
  BY <1>1
<1>5. \A c, d \in Crowbars : c # d /\ pending[c] # 0 => pending[c] # pending[d]
  BY DEF InLockstep
<1>6. \A c \in Crowbars : \A n \in guts[c] : n = pending[c] /\ n # 0
  BY <1>2, <1>3 DEF InLockstep
<1>7. QED
  BY <1>1, <1>2, <1>3, <1>4, <1>5, <1>6

\* A hit that is made is a request, of a caller that waits for none.
LEMMA FlurryAsks ==
  ASSUME NEW c \in Crowbars, Flurry(c)
  PROVE  Calls!Ask(c)
BY DEF Flurry, PollForReady, Calls!Ask, Open, Answers, headcrab

\* SendSplatter answers theHit, which is nowhere else.
LEMMA SplatterAnswers ==
  ASSUME TypeOK, InLockstep, SendSplatter
  PROVE  theHit \in Open /\ Calls!Answer(theHit)
<1>1. /\ theHit \in DOMAIN hits /\ theHit # 0 /\ hits[theHit] \in Crowbars
      /\ theHit \notin pipe \cup theHits /\ theHit' = 0
  BY PlacesOfHits DEF SendSplatter, InLockstep
<1>2. theHit \in Open /\ Open' = Open \ {theHit}
  BY <1>1 DEF SendSplatter, Open
<1>3. Answers' = Answers \cup (IF pending[hits[theHit]] = theHit THEN {theHit} ELSE {})
  <2>1. CASE pending[hits[theHit]] = theHit
    <3>1. /\ \A d \in Crowbars : guts'[d] = IF d = hits[theHit] THEN guts[d] \cup {theHit} ELSE guts[d]
      BY <1>1, <2>1, PlacesOfHits DEF SendSplatter
    <3>2. ASSUME NEW n
          PROVE  n \in Answers' <=> n \in Answers \/ n = theHit
      <4>1. n \in Answers' <=> \E d \in Crowbars : n \in guts'[d]
        BY DEF Answers
      <4>2. n \in Answers <=> \E d \in Crowbars : n \in guts[d]
        BY DEF Answers
      <4>3. QED
        BY <1>1, <3>1, <4>1, <4>2
    <3>3. QED
      BY <2>1, <3>2
  <2>2. CASE pending[hits[theHit]] # theHit
    <3>1. guts' = guts
      BY <2>2 DEF SendSplatter
    <3>2. QED
      BY <2>2, <3>1 DEF Answers
  <2>3. QED
    BY <2>1, <2>2
<1>4. QED
  BY <1>2, <1>3 DEF SendSplatter, Calls!Answer, tips

\* The pending hit of a Crowbar is the only one its socket can hold the answer to, and
\* no other socket holds that.
LEMMA AnswersOfOthers ==
  ASSUME TypeOK, InLockstep, NEW c \in Crowbars, guts' = [guts EXCEPT ![c] = {}]
  PROVE  Answers' = Answers \ {pending[c]}
<1>1. \A d \in Crowbars : guts'[d] = IF d = c THEN {} ELSE guts[d]
  BY PlacesOfHits
<1>2. \A d \in Crowbars : \A n \in guts[d] : n = pending[c] <=> d = c
  BY PlacesOfHits
<1>3. \A n : n \in Answers' <=> n \in Answers /\ n # pending[c]
  BY <1>1, <1>2 DEF Answers
<1>4. QED
  BY <1>3

\* BlockForKill takes the answer its Crowbar waits for.
LEMMA KillTakes ==
  ASSUME TypeOK, InLockstep, NEW c \in Crowbars, BlockForKill(c)
  PROVE  Calls!TakeAnswer(c)
<1>1. pending[c] \in Answers
  BY DEF BlockForKill, Answers
<1>2. Answers' = Answers \ {pending[c]}
  BY AnswersOfOthers DEF BlockForKill
<1>3. UNCHANGED <<hits, Open>> /\ pending' = [pending EXCEPT ![c] = 0]
  BY DEF BlockForKill, Open, headcrab
<1>4. QED
  BY <1>1, <1>2, <1>3 DEF Calls!TakeAnswer

\* A Crowbar that is destroyed gives up; its hit is lost if it has not left.
LEMMA DestroyedGivesUp ==
  ASSUME TypeOK, InLockstep, NEW c \in Crowbars, DestroyCrowbar(c)
  PROVE  Calls!GiveUp(c)
<1>1. Answers' = Answers \ {pending[c]}
  BY AnswersOfOthers DEF DestroyCrowbar
<1>2. Open' \in {Open, Open \ {pending[c]}}
  <2>1. pipe' \in {pipe, pipe \ {pending[c]}} /\ UNCHANGED <<theHits, theHit>>
    BY DEF DestroyCrowbar, headcrab
  <2>2. CASE pending[c] \in pipe
    <3>1. pending[c] \notin theHits /\ pending[c] # theHit
      BY <2>2 DEF InLockstep
    <3>2. QED
      BY <2>1, <3>1 DEF Open
  <2>3. CASE pending[c] \notin pipe
    BY <2>1, <2>3 DEF Open
  <2>4. QED
    BY <2>2, <2>3
<1>3. UNCHANGED hits /\ pending' = [pending EXCEPT ![c] = 0]
  BY DEF DestroyCrowbar
<1>4. QED
  BY <1>1, <1>2, <1>3 DEF Calls!GiveUp

\* A hit on its way is open until a socket that nobody reads takes it.
LEMMA TravelKeepsOpen ==
  ASSUME NEW n, Travel(n)
  PROVE  Calls!Lose
<1>1. Open' \subseteq Open
  BY DEF Travel, Open, headcrab
<1>2. QED
  BY <1>1 DEF Travel, Calls!Lose, Answers, tips

\* Each step is one of RequestReply, or changes nothing there.
LEMMA StepIsCallStep ==
  ASSUME TypeOK, InLockstep, [Next]_vars
  PROVE  [Calls!Next]_Calls!vars
<1>1. ASSUME UNCHANGED <<hits, pending, pipe, theHits, theHit, guts>>
      PROVE  UNCHANGED Calls!vars
  BY <1>1 DEF Calls!vars, Open, Answers
<1>2. ASSUME \/ UNCHANGED vars
             \/ ComeToLife \/ BindSucceeds \/ BindFails \/ Signal \/ OtherBinds
             \/ \E c \in Crowbars : Wield(c) \/ ConnectSucceeds(c) \/ ConnectFails(c)
      PROVE  UNCHANGED <<hits, pending, pipe, theHits, theHit, guts>>
  BY <1>2 DEF vars, headcrab, ComeToLife, BindSucceeds, BindFails, Signal, OtherBinds,
              Wield, ConnectSucceeds, ConnectFails
<1>3. CASE SendSplatter
  BY <1>3, SplatterAnswers DEF Calls!Next
<1>4. CASE DestroyHeadcrab
  <2>1. Open' \subseteq Open
    BY <1>4 DEF DestroyHeadcrab, Open
  <2>2. Calls!Lose
    BY <1>4, <2>1 DEF DestroyHeadcrab, Calls!Lose, Answers, tips
  <2>3. QED
    BY <2>2 DEF Calls!Next
<1>5. ASSUME NEW n \in DOMAIN hits, GetHit(n)
      PROVE  UNCHANGED Calls!vars
  <2>1. theHit = 0 /\ n # 0 /\ n \in theHits
    BY <1>5, PlacesOfHits DEF GetHit
  <2>2. Open' = Open
    BY <1>5, <2>1 DEF GetHit, Open
  <2>3. QED
    BY <1>5, <2>2 DEF GetHit, Calls!vars, Answers
<1>6. ASSUME NEW n \in DOMAIN hits, Travel(n)
      PROVE  Calls!Next
  BY <1>6, TravelKeepsOpen DEF Calls!Next
<1>7. ASSUME NEW c \in Crowbars, Flurry(c) \/ BlockForKill(c) \/ DestroyCrowbar(c)
      PROVE  Calls!Next
  BY <1>7, FlurryAsks, KillTakes, DestroyedGivesUp DEF Calls!Next
<1>8. QED
  BY <1>1, <1>2, <1>3, <1>4, <1>5, <1>6, <1>7 DEF Next

\* Each hit is answered at most once, not after it was lost, and only to the Crowbar that
\* made it and still waits, whoever goes away and comes back in between.
THEOREM CrowbarsAreCallers == Spec => ImplementsCalls
<1>1. Init => Calls!Init
  <2>1. SUFFICES ASSUME Init PROVE Open = {} /\ Answers = {}
    BY DEF Init, Calls!Init
  <2>2. guts = [c \in Crowbars |-> {}]
    BY <2>1 DEF Init
  <2>3. Answers = {}
    BY <2>2 DEF Answers
  <2>4. Open = {}
    BY <2>1 DEF Init, Open
  <2>5. QED
    BY <2>3, <2>4
<1>2. TypeOK /\ InLockstep /\ [Next]_vars => [Calls!Next]_Calls!vars
  BY StepIsCallStep
<1>3. QED
  BY <1>1, <1>2, TypeCorrect, StaysInLockstep, PTL DEF Spec, ImplementsCalls, Calls!Spec
=============================================================================
