----------------------- MODULE NotifierListenerProofs -----------------------
(***************************************************************************)
(* What NotifierListener keeps for any number of Listeners, any vectors of *)
(* messages and any high water marks.                                      *)
(*                                                                         *)
(* The types come first.  Then the order of what a Listener confirms: the  *)
(* handshakes that were counted, those on their way, the notification it   *)
(* handles and those on their way to it are older in this order, and no    *)
(* step swaps two of them.  From that it follows, by counting, that        *)
(* nothing but handshakes for itself is left for a Notify when all before  *)
(* it were confirmed.                                                      *)
(***************************************************************************)
EXTENDS NotifierListener, SequenceTheorems, FiniteSetTheorems, TLAPS

Call == [messages : Messages, responses : 0..gHandshakeCount, status : {"running", "returned"}]

NotifierOK ==
  /\ npc \in {"none", "idle", "waiting"}
  /\ calls \in Seq(Call)
  /\ npc = "waiting" <=> calls # <<>> /\ Last(calls).status = "running"
  /\ subscribed \subseteq Listeners

QueuesOK ==
  /\ inbox \in [Listeners -> Seq(DOMAIN calls)]
  /\ handshakes \in [Listeners -> Seq(DOMAIN calls)]
  /\ seen \in [Listeners -> Seq(DOMAIN calls)]
  /\ counted \in Seq([call : DOMAIN calls, by : Listeners, for : DOMAIN calls])

ListenersOK ==
  /\ lpc \in [Listeners -> {"none", "listening", "handling"}]
  /\ mMessages \in [Listeners -> Messages \cup {<<>>}]
  /\ \A l \in Listeners : lpc[l] = "handling" => seen[l] # <<>>

LEMMA TypeParts == NotifierOK /\ QueuesOK /\ ListenersOK => TypeOK
  BY DEF TypeOK, NotifierOK, QueuesOK, ListenersOK, Call

\* The calls of Notify are numbered, and the last is the one that runs.
LEMMA CallsFacts ==
  ASSUME NotifierOK
  PROVE  /\ Len(calls) \in Nat /\ DOMAIN calls = 1..Len(calls)
         /\ calls # <<>> => This \in DOMAIN calls /\ calls[This] \in Call
         /\ npc = "waiting" => calls # <<>> /\ This \in DOMAIN calls
<1>1. Len(calls) \in Nat /\ DOMAIN calls = 1..Len(calls) /\ (calls # <<>> => Len(calls) # 0)
  BY LenProperties, EmptySeq DEF NotifierOK
<1>2. \A n \in DOMAIN calls : calls[n] \in Call
  BY <1>1, ElementOfSeq DEF NotifierOK
<1>3. QED
  BY <1>1, <1>2 DEF NotifierOK, This

\* What a step does to the calls: one more, one of the fields of the last, or nothing.
LEMMA NotifierTypes ==
  ASSUME NotifierOK, [Next]_vars
  PROVE  NotifierOK' /\ DOMAIN calls \subseteq DOMAIN calls'
<1>0. /\ gHandshakeCount \in Nat
      /\ Len(calls) \in Nat /\ DOMAIN calls = 1..Len(calls)
      /\ calls # <<>> => This \in DOMAIN calls /\ calls[This] \in Call
      /\ npc = "waiting" => calls # <<>> /\ This \in DOMAIN calls
      /\ This = Len(calls)
  BY CallsFacts, Assumptions DEF Assumptions, This
<1>1. ASSUME UNCHANGED <<npc, calls>>, subscribed' \subseteq Listeners
      PROVE  NotifierOK' /\ DOMAIN calls \subseteq DOMAIN calls'
  BY <1>1 DEF NotifierOK, Last
<1>2. ASSUME NEW call \in Call, npc = "waiting", calls' = [calls EXCEPT ![This] = call],
             npc' \in {"idle", "waiting"}, npc' = "waiting" <=> call.status = "running",
             UNCHANGED subscribed
      PROVE  NotifierOK' /\ DOMAIN calls \subseteq DOMAIN calls'
  <2>1. calls' \in Seq(Call) /\ Len(calls') = Len(calls) /\ calls'[This] = call
    BY <1>0, <1>2, ExceptSeq DEF NotifierOK
  <2>2. DOMAIN calls' = DOMAIN calls /\ calls' # <<>>
    BY <1>0, <1>2, <2>1
  <2>3. Last(calls') = call
    BY <1>0, <2>1 DEF Last
  <2>4. QED
    BY <1>2, <2>1, <2>2, <2>3 DEF NotifierOK
<1>3. ASSUME NEW messages \in Messages, Notify(messages)
      PROVE  NotifierOK' /\ DOMAIN calls \subseteq DOMAIN calls'
  <2>1. PICK call \in Call : call.status = "running" /\ calls' = Append(calls, call)
    BY <1>0, <1>3 DEF Notify, Call
  <2>2. /\ calls' \in Seq(Call) /\ Len(calls') = Len(calls) + 1 /\ calls' # <<>>
        /\ calls'[Len(calls) + 1] = call
    BY <2>1, AppendProperties DEF NotifierOK
  <2>3. DOMAIN calls' = 1..Len(calls) + 1
    BY <2>2, LenProperties
  <2>4. Last(calls') = call
    BY <2>2 DEF Last
  <2>5. QED
    BY <1>0, <1>3, <2>1, <2>2, <2>3, <2>4 DEF NotifierOK, Notify
<1>4. ASSUME NEW l \in Listeners, GetShot(l)
      PROVE  NotifierOK' /\ DOMAIN calls \subseteq DOMAIN calls'
  <2>1. npc = "waiting" /\ calls[This] \in Call /\ calls[This].responses < gHandshakeCount
        /\ calls[This].status = "running"
    BY <1>0, <1>4 DEF GetShot, responses, NotifierOK, Last
  <2>2. PICK call \in Call : call = [calls[This] EXCEPT !.responses = @ + 1]
    <3>1. calls[This].responses \in 0..gHandshakeCount
      BY <2>1 DEF Call
    <3>2. calls[This].responses + 1 \in 0..gHandshakeCount
      BY <1>0, <2>1, <3>1
    <3>3. QED
      BY <2>1, <3>2 DEF Call
  <2>3. calls' = [calls EXCEPT ![This] = call] /\ call.status = "running"
    BY <1>4, <2>1, <2>2 DEF GetShot, Call
  <2>4. npc' = "waiting" /\ UNCHANGED subscribed
    BY <1>4 DEF GetShot
  <2>5. QED
    BY <1>2, <2>1, <2>3, <2>4
<1>5. ASSUME NotifyConfirmed \/ NotifyTimesOut
      PROVE  NotifierOK' /\ DOMAIN calls \subseteq DOMAIN calls'
  <2>1. npc = "waiting" /\ Return /\ calls[This] \in Call
    BY <1>0, <1>5 DEF NotifyConfirmed, NotifyTimesOut
  <2>2. PICK call \in Call : call = [calls[This] EXCEPT !.status = "returned"]
    BY <2>1 DEF Call
  <2>3. calls' = [calls EXCEPT ![This] = call] /\ call.status = "returned"
    BY <2>1, <2>2 DEF Return, Call
  <2>4. npc' = "idle" /\ UNCHANGED subscribed
    BY <2>1 DEF Return
  <2>5. QED
    BY <1>2, <2>1, <2>3, <2>4
<1>6. ASSUME CreateNotifier
      PROVE  NotifierOK' /\ DOMAIN calls \subseteq DOMAIN calls'
  BY <1>6 DEF CreateNotifier, NotifierOK, Last
<1>7. ASSUME DestroyNotifier
      PROVE  NotifierOK' /\ DOMAIN calls \subseteq DOMAIN calls'
  BY <1>7 DEF DestroyNotifier, NotifierOK, Last
<1>8. ASSUME NEW l \in Listeners, ListenerStep(l)
      PROVE  NotifierOK' /\ DOMAIN calls \subseteq DOMAIN calls'
  <2>1. UNCHANGED <<npc, calls>> /\ subscribed' \subseteq Listeners
    BY <1>8 DEF ListenerStep, CreateListener, Subscribe, NotificationReceived,
       NotificationCrashes, SendConfirmation, DestroyListener, notifier, NotifierOK
  <2>2. QED
    BY <1>1, <2>1
<1>9. CASE UNCHANGED vars
  <2>1. UNCHANGED <<npc, calls>> /\ subscribed' \subseteq Listeners
    BY <1>9 DEF vars, notifier, NotifierOK
  <2>2. QED
    BY <1>1, <2>1
<1>10. QED
  BY <1>3, <1>4, <1>5, <1>6, <1>7, <1>8, <1>9 DEF Next, NotifierStep

-----------------------------------------------------------------------------
(* Sequences *)

\* What is left of a sequence at either end has nothing new.
LEMMA PrefixOf ==
  ASSUME NEW S, NEW s \in Seq(S), NEW t \in Prefixes(s)
  PROVE  /\ t \in Seq(S) /\ Len(t) <= Len(s)
         /\ \A i \in DOMAIN t : i \in DOMAIN s /\ t[i] = s[i]
<1>1. PICK n \in 0..Len(s) : t = SubSeq(s, 1, n)
  BY DEF Prefixes
<1>2. \A i \in 1..n : s[i] \in S
  BY <1>1, LenProperties, ElementOfSeq
<1>3. /\ t \in Seq(S) /\ Len(t) = n
      /\ \A i \in 1..n : t[i] = s[i]
  BY <1>1, <1>2, SubSeqProperties, LenProperties
<1>4. QED
  BY <1>1, <1>3, LenProperties

LEMMA SuffixOf ==
  ASSUME NEW S, NEW s \in Seq(S), NEW t \in Suffixes(s)
  PROVE  /\ t \in Seq(S) /\ Len(t) <= Len(s)
         /\ \E d \in Nat : \A i \in DOMAIN t : i + d \in DOMAIN s /\ t[i] = s[i + d]
<1>1. CASE t = <<>>
  <2>1. t \in Seq(S) /\ Len(t) = 0 /\ DOMAIN t = {}
    BY <1>1, EmptySeq
  <2>2. QED
    BY <2>1, LenProperties
<1>2. CASE t # <<>>
  <2>1. PICK m \in 1..Len(s) : t = SubSeq(s, m, Len(s))
    BY <1>2 DEF Suffixes
  <2>2. \A i \in m..Len(s) : s[i] \in S
    BY <2>1, LenProperties, ElementOfSeq
  <2>3. /\ t \in Seq(S) /\ Len(t) = Len(s) - m + 1
        /\ \A i \in 1..Len(s) - m + 1 : t[i] = s[m + i - 1]
    BY <2>1, <2>2, SubSeqProperties, LenProperties
  <2>4. \A i \in DOMAIN t : i + (m - 1) \in DOMAIN s /\ t[i] = s[i + (m - 1)]
    BY <2>1, <2>3, LenProperties
  <2>5. m - 1 \in Nat /\ Len(t) <= Len(s)
    BY <2>1, <2>3, LenProperties
  <2>6. QED
    BY <2>3, <2>4, <2>5
<1>3. QED
  BY <1>1, <1>2

LEMMA TailOf ==
  ASSUME NEW S, NEW s \in Seq(S), s # <<>>
  PROVE  /\ Tail(s) \in Seq(S) /\ Head(s) \in S /\ 1 \in DOMAIN s /\ Head(s) = s[1]
         /\ \A i \in DOMAIN Tail(s) : i + 1 \in DOMAIN s /\ Tail(s)[i] = s[i + 1]
<1>1. /\ Head(s) \in S /\ Tail(s) \in Seq(S) /\ Len(Tail(s)) = Len(s) - 1
      /\ \A i \in 1..Len(Tail(s)) : Tail(s)[i] = s[i + 1]
  BY HeadTailProperties
<1>2. DOMAIN s = 1..Len(s) /\ DOMAIN Tail(s) = 1..Len(Tail(s)) /\ Len(s) \in Nat \ {0}
  BY <1>1, LenProperties, EmptySeq
<1>3. Head(s) = s[1]
  OBVIOUS
<1>4. QED
  BY <1>1, <1>2, <1>3

\* Sequences over one set are sequences over a larger one.
LEMMA QueuesGrow ==
  ASSUME NEW D, NEW E, D \subseteq E, NEW f \in [Listeners -> Seq(D)]
  PROVE  f \in [Listeners -> Seq(E)]
<1>1. \A l \in Listeners : f[l] \in Seq(E)
  BY SeqMonotonic
<1>2. QED
  BY <1>1

LEMMA CountedGrows ==
  ASSUME NEW D, NEW E, D \subseteq E, NEW s \in Seq([call : D, by : Listeners, for : D])
  PROVE  s \in Seq([call : E, by : Listeners, for : E])
  BY SeqMonotonic

-----------------------------------------------------------------------------
(* The types of what is on its way *)

LEMMA QueuesTypes ==
  ASSUME NotifierOK, QueuesOK, ListenersOK, [Next]_vars
  PROVE  QueuesOK' /\ ListenersOK'
<1>a. PICK D : D = DOMAIN calls
  OBVIOUS
<1>b. PICK E : E = DOMAIN calls' /\ D \subseteq E
  BY <1>a, NotifierTypes
<1>c. /\ inbox \in [Listeners -> Seq(D)] /\ inbox \in [Listeners -> Seq(E)]
      /\ handshakes \in [Listeners -> Seq(D)] /\ handshakes \in [Listeners -> Seq(E)]
      /\ seen \in [Listeners -> Seq(D)] /\ seen \in [Listeners -> Seq(E)]
      /\ counted \in Seq([call : D, by : Listeners, for : D])
      /\ counted \in Seq([call : E, by : Listeners, for : E])
  BY <1>a, <1>b, QueuesGrow, CountedGrows DEF QueuesOK
<1> SUFFICES /\ inbox' \in [Listeners -> Seq(E)]
             /\ handshakes' \in [Listeners -> Seq(E)]
             /\ seen' \in [Listeners -> Seq(E)]
             /\ counted' \in Seq([call : E, by : Listeners, for : E])
             /\ ListenersOK'
  BY <1>b DEF QueuesOK
<1>1. ASSUME NEW messages \in Messages, Notify(messages)
      PROVE  inbox' \in [Listeners -> Seq(E)]
  <2>1. Len(calls) + 1 \in E
    BY <1>1, <1>b, AppendProperties, LenProperties DEF Notify, NotifierOK
  <2>2. \A l \in Listeners : Append(inbox[l], Len(calls) + 1) \in Seq(E)
    BY <1>c, <2>1
  <2>3. QED
    BY <1>1, <1>c, <2>2 DEF Notify, Fire
<1>2. ASSUME NEW messages \in Messages, Notify(messages)
      PROVE  UNCHANGED <<handshakes, seen, counted>> /\ ListenersOK'
  BY <1>2 DEF Notify, listener, ListenersOK
<1>3. ASSUME NEW l \in Listeners, GetShot(l)
      PROVE  /\ UNCHANGED <<inbox, seen>> /\ ListenersOK'
             /\ handshakes' \in [Listeners -> Seq(E)]
             /\ counted' \in Seq([call : E, by : Listeners, for : E])
  <2>1. Tail(handshakes[l]) \in Seq(E) /\ Head(handshakes[l]) \in E
    BY <1>3, <1>c, TailOf DEF GetShot
  <2>2. This \in E
    BY <1>3, <1>a, <1>b, CallsFacts DEF GetShot
  <2>3. QED
    BY <1>3, <1>c, <2>1, <2>2 DEF GetShot, listener, ListenersOK
<1>4. ASSUME DestroyNotifier
      PROVE  /\ UNCHANGED <<seen, counted>> /\ ListenersOK'
             /\ inbox' \in [Listeners -> Seq(E)]
             /\ handshakes' \in [Listeners -> Seq(E)]
  <2>1. inbox' \in [Listeners -> Seq(E)]
    <3>1. PICK kept \in [Listeners -> UNION {Prefixes(inbox[l]) : l \in Listeners}] :
            /\ \A l \in Listeners : kept[l] \in Prefixes(inbox[l])
            /\ inbox' = kept
      BY <1>4 DEF DestroyNotifier
    <3>2. \A l \in Listeners : kept[l] \in Seq(E)
      BY <1>c, <3>1, PrefixOf
    <3>3. QED
      BY <3>1, <3>2
  <2>2. handshakes' \in [Listeners -> Seq(E)]
    <3>1. PICK kept \in [Listeners -> UNION {Suffixes(handshakes[l]) : l \in Listeners}] :
            /\ \A l \in Listeners : kept[l] \in Suffixes(handshakes[l])
            /\ handshakes' = kept
      BY <1>4 DEF DestroyNotifier
    <3>2. \A l \in Listeners : kept[l] \in Seq(E)
      BY <1>c, <3>1, SuffixOf
    <3>3. QED
      BY <3>1, <3>2
  <2>3. QED
    BY <1>4, <2>1, <2>2 DEF DestroyNotifier, listener, ListenersOK
<1>5. ASSUME NEW l \in Listeners, DestroyListener(l)
      PROVE  /\ UNCHANGED <<seen, counted>> /\ ListenersOK'
             /\ inbox' \in [Listeners -> Seq(E)]
             /\ handshakes' \in [Listeners -> Seq(E)]
  <2>1. PICK kept \in Prefixes(handshakes[l]) : handshakes' = [handshakes EXCEPT ![l] = kept]
    BY <1>5 DEF DestroyListener
  <2>2. kept \in Seq(E) /\ <<>> \in Seq(E)
    BY <1>c, PrefixOf, EmptySeq
  <2>3. ListenersOK'
    BY <1>5 DEF DestroyListener, ListenersOK
  <2>4. QED
    BY <1>5, <1>c, <2>1, <2>2, <2>3 DEF DestroyListener
<1>6. ASSUME NEW l \in Listeners, NEW received \in BOOLEAN, NotificationReceived(l, received)
      PROVE  /\ UNCHANGED <<handshakes, counted>> /\ ListenersOK'
             /\ inbox' \in [Listeners -> Seq(E)]
             /\ seen' \in [Listeners -> Seq(E)]
  <2>1. Tail(inbox[l]) \in Seq(E) /\ Head(inbox[l]) \in D
    BY <1>6, <1>c, TailOf DEF NotificationReceived
  <2>2. inbox' \in [Listeners -> Seq(E)]
    BY <1>6, <1>c, <2>1 DEF NotificationReceived
  <2>3. Append(seen[l], Head(inbox[l])) \in Seq(E) /\ Append(seen[l], Head(inbox[l])) # <<>>
    <3>1. seen[l] \in Seq(E) /\ Head(inbox[l]) \in E
      BY <1>c, <1>b, <2>1
    <3>2. QED
      BY <3>1, AppendProperties
  <2>4. \/ UNCHANGED listener
        \/ /\ lpc' = [lpc EXCEPT ![l] = "handling"]
           /\ mMessages' = [mMessages EXCEPT ![l] = StorePayloadIfNecessary(ClearMessages(@),
                                                      calls[Head(inbox[l])].messages)]
           /\ seen' = [seen EXCEPT ![l] = Append(@, Head(inbox[l]))]
    BY <1>6 DEF NotificationReceived
  <2>5. calls[Head(inbox[l])].messages \in Messages
    <3>1. calls[Head(inbox[l])] \in Call
      BY <1>a, <2>1, CallsFacts, ElementOfSeq DEF NotifierOK
    <3>2. QED
      BY <3>1 DEF Call
  <2>6. StorePayloadIfNecessary(ClearMessages(mMessages[l]), calls[Head(inbox[l])].messages)
          \in Messages \cup {<<>>}
    BY <2>5 DEF StorePayloadIfNecessary, ClearMessages
  <2>7. seen' \in [Listeners -> Seq(E)] /\ ListenersOK'
    <3>1. CASE UNCHANGED listener
      BY <1>c, <3>1 DEF listener, ListenersOK
    <3>2. CASE ~UNCHANGED listener
      <4>1. PICK m : m = StorePayloadIfNecessary(ClearMessages(mMessages[l]),
                                                 calls[Head(inbox[l])].messages)
        OBVIOUS
      <4>2. PICK s : s = Append(seen[l], Head(inbox[l]))
        OBVIOUS
      <4>3. /\ lpc' = [lpc EXCEPT ![l] = "handling"]
            /\ mMessages' = [mMessages EXCEPT ![l] = m]
            /\ seen' = [seen EXCEPT ![l] = s]
        BY <2>4, <3>2, <4>1, <4>2
      <4>4. m \in Messages \cup {<<>>} /\ s \in Seq(E) /\ s # <<>>
        BY <2>3, <2>6, <4>1, <4>2
      <4>5. /\ lpc' \in [Listeners -> {"none", "listening", "handling"}]
            /\ mMessages' \in [Listeners -> Messages \cup {<<>>}]
        BY <1>c, <4>3, <4>4 DEF ListenersOK
      <4>6. seen' \in [Listeners -> Seq(E)]
        BY <1>c, <4>3, <4>4
      <4>7. \A k \in Listeners : lpc'[k] = "handling" => seen'[k] # <<>>
        BY <1>c, <4>3, <4>4 DEF ListenersOK
      <4>8. QED
        BY <4>5, <4>6, <4>7 DEF ListenersOK
    <3>3. QED
      BY <3>1, <3>2
  <2>8. QED
    BY <1>6, <2>2, <2>7 DEF NotificationReceived
<1>7. ASSUME NEW l \in Listeners, SendConfirmation(l)
      PROVE  /\ UNCHANGED <<inbox, seen, counted>> /\ ListenersOK'
             /\ handshakes' \in [Listeners -> Seq(E)]
  <2>1. Last(seen[l]) \in E
    <3>1. seen[l] # <<>> /\ seen[l] \in Seq(E)
      BY <1>7, <1>c DEF SendConfirmation, ListenersOK
    <3>2. Len(seen[l]) \in 1..Len(seen[l])
      BY <3>1, EmptySeq
    <3>3. QED
      BY <3>1, <3>2, ElementOfSeq DEF Last
  <2>2. Append(handshakes[l], Last(seen[l])) \in Seq(E)
    BY <1>c, <2>1
  <2>3. handshakes' \in [Listeners -> Seq(E)]
    BY <1>7, <1>c, <2>2 DEF SendConfirmation
  <2>4. QED
    BY <1>7, <2>3 DEF SendConfirmation, ListenersOK
<1>8. ASSUME NEW l \in Listeners, CreateListener(l) \/ Subscribe(l)
      PROVE  UNCHANGED <<inbox, handshakes, seen, counted>> /\ ListenersOK'
  BY <1>8 DEF CreateListener, Subscribe, listener, ListenersOK
<1>9. ASSUME CreateNotifier \/ NotifyConfirmed \/ NotifyTimesOut \/ UNCHANGED vars
      PROVE  UNCHANGED <<inbox, handshakes, seen, counted>> /\ ListenersOK'
  BY <1>9 DEF CreateNotifier, NotifyConfirmed, NotifyTimesOut, Return, vars, listener, ListenersOK
<1>10. CASE NotifierStep
  BY <1>10, <1>c, <1>1, <1>2, <1>3, <1>4, <1>9 DEF NotifierStep
<1>11. ASSUME NEW l \in Listeners, ListenerStep(l)
       PROVE  /\ inbox' \in [Listeners -> Seq(E)]
              /\ handshakes' \in [Listeners -> Seq(E)]
              /\ seen' \in [Listeners -> Seq(E)]
              /\ counted' \in Seq([call : E, by : Listeners, for : E])
              /\ ListenersOK'
  <2>1. NotificationCrashes(l) => DestroyListener(l)
    BY DEF NotificationCrashes
  <2>2. QED
    BY <1>11, <1>c, <1>5, <1>6, <1>7, <1>8, <2>1 DEF ListenerStep
<1>12. QED
  BY <1>c, <1>9, <1>10, <1>11 DEF Next

-----------------------------------------------------------------------------
(* The order of what one Listener confirms: h has been sent, m is handled, i is on its *)
(* way. *)

Incr(s) == \A a, b \in DOMAIN s : a < b => s[a] < s[b]

Ordered(h, m, i) ==
  /\ Incr(h) /\ Incr(i)
  /\ \A a \in DOMAIN h : \A b \in DOMAIN i : h[a] < i[b]
  /\ \A x \in m : /\ \A a \in DOMAIN h : h[a] < x
                  /\ \A b \in DOMAIN i : x < i[b]

Before(n, h, m, i) ==
  /\ \A a \in DOMAIN h : n < h[a]
  /\ \A x \in m : n < x
  /\ \A b \in DOMAIN i : n < i[b]

\* What remains of s when something is taken from its ends.
Window(t, s) == \E d \in Nat : \A a \in DOMAIN t : a + d \in DOMAIN s /\ t[a] = s[a + d]

NatQueue(s) == s \in Seq(Nat) /\ DOMAIN s = 1..Len(s) /\ Len(s) \in Nat

\* Nothing is swapped when the ends of the queues are lost.
LEMMA OrderedCut ==
  ASSUME NEW h, NEW m, NEW i, NatQueue(h), NatQueue(i), Ordered(h, m, i),
         NEW g, NEW j, NatQueue(g), NatQueue(j), Window(g, h), Window(j, i),
         NEW k, k \subseteq m
  PROVE  /\ Ordered(g, k, j)
         /\ \A n \in Nat : Before(n, h, m, i) => Before(n, g, k, j)
<1>1. PICK d \in Nat : \A a \in DOMAIN g : a + d \in DOMAIN h /\ g[a] = h[a + d]
  BY DEF Window
<1>2. PICK e \in Nat : \A a \in DOMAIN j : a + e \in DOMAIN i /\ j[a] = i[a + e]
  BY DEF Window
<1>3. Incr(g)
  <2> SUFFICES ASSUME NEW a \in DOMAIN g, NEW b \in DOMAIN g, a < b PROVE g[a] < g[b]
    BY DEF Incr
  <2>1. a + d < b + d
    BY DEF NatQueue
  <2>2. QED
    BY <1>1, <2>1 DEF Ordered, Incr
<1>4. Incr(j)
  <2> SUFFICES ASSUME NEW a \in DOMAIN j, NEW b \in DOMAIN j, a < b PROVE j[a] < j[b]
    BY DEF Incr
  <2>1. a + e < b + e
    BY DEF NatQueue
  <2>2. QED
    BY <1>2, <2>1 DEF Ordered, Incr
<1>5. /\ \A a \in DOMAIN g : \E c \in DOMAIN h : g[a] = h[c]
      /\ \A b \in DOMAIN j : \E c \in DOMAIN i : j[b] = i[c]
  BY <1>1, <1>2
<1>6. QED
  BY <1>3, <1>4, <1>5 DEF Ordered, Before

\* A new notification is the youngest.
LEMMA OrderedAppend ==
  ASSUME NEW h, NEW m, NEW i, NatQueue(h), NatQueue(i), Ordered(h, m, i),
         NEW x \in Nat, \A a \in DOMAIN h : h[a] < x, \A y \in m : y < x,
         \A b \in DOMAIN i : i[b] < x
  PROVE  /\ Ordered(h, m, Append(i, x))
         /\ \A n \in Nat : n < x /\ Before(n, h, m, i) => Before(n, h, m, Append(i, x))
<1>1. /\ \A b \in 1..Len(i) : Append(i, x)[b] = i[b]
      /\ Append(i, x)[Len(i) + 1] = x
      /\ DOMAIN Append(i, x) = 1..(Len(i) + 1)
  <2>1. /\ Append(i, x) \in Seq(Nat) /\ Len(Append(i, x)) = Len(i) + 1
        /\ \A b \in 1..Len(i) : Append(i, x)[b] = i[b]
        /\ Append(i, x)[Len(i) + 1] = x
    BY AppendProperties DEF NatQueue
  <2>2. QED
    BY <2>1, LenProperties
<1>2. PICK j : j = Append(i, x)
  OBVIOUS
<1>3. Incr(j)
  BY <1>1, <1>2 DEF Ordered, Incr, NatQueue
<1>4. \A b \in DOMAIN j : j[b] = x \/ (b \in DOMAIN i /\ j[b] = i[b])
  BY <1>1, <1>2 DEF NatQueue
<1>5. QED
  BY <1>2, <1>3, <1>4 DEF Ordered, Before

\* The Listener takes what is first on its way.
LEMMA OrderedTake ==
  ASSUME NEW h, NEW i, NatQueue(h), NatQueue(i), Ordered(h, {}, i), i # <<>>
  PROVE  /\ Ordered(h, {Head(i)}, Tail(i))
         /\ \A n \in Nat : Before(n, h, {}, i) => Before(n, h, {Head(i)}, Tail(i))
<1>1. /\ 1 \in DOMAIN i /\ Head(i) = i[1] /\ Tail(i) \in Seq(Nat)
      /\ \A a \in DOMAIN Tail(i) : a + 1 \in DOMAIN i /\ Tail(i)[a] = i[a + 1]
  BY TailOf DEF NatQueue
<1>2. NatQueue(Tail(i))
  BY <1>1, LenProperties DEF NatQueue
<1>3. PICK j : j = Tail(i)
  OBVIOUS
<1>4. Incr(j)
  <2> SUFFICES ASSUME NEW a \in DOMAIN j, NEW b \in DOMAIN j, a < b PROVE j[a] < j[b]
    BY DEF Incr
  <2>1. a + 1 < b + 1
    BY <1>2, <1>3 DEF NatQueue
  <2>2. QED
    BY <1>1, <1>3, <2>1 DEF Ordered, Incr
<1>5. \A b \in DOMAIN j : \E c \in DOMAIN i : 1 < c /\ j[b] = i[c]
  BY <1>1, <1>2, <1>3 DEF NatQueue
<1>6. \A b \in DOMAIN j : i[1] < j[b]
  BY <1>1, <1>5 DEF Ordered, Incr
<1>7. QED
  BY <1>1, <1>3, <1>4, <1>5, <1>6 DEF Ordered, Before

\* It confirms what it handled.
LEMMA OrderedConfirm ==
  ASSUME NEW h, NEW x \in Nat, NEW i, NatQueue(h), NatQueue(i), Ordered(h, {x}, i)
  PROVE  /\ Ordered(Append(h, x), {}, i)
         /\ \A n \in Nat : Before(n, h, {x}, i) => Before(n, Append(h, x), {}, i)
<1>1. /\ \A b \in 1..Len(h) : Append(h, x)[b] = h[b]
      /\ Append(h, x)[Len(h) + 1] = x
      /\ DOMAIN Append(h, x) = 1..(Len(h) + 1)
  <2>1. /\ Append(h, x) \in Seq(Nat) /\ Len(Append(h, x)) = Len(h) + 1
        /\ \A b \in 1..Len(h) : Append(h, x)[b] = h[b]
        /\ Append(h, x)[Len(h) + 1] = x
    BY AppendProperties DEF NatQueue
  <2>2. QED
    BY <2>1, LenProperties
<1>2. PICK g : g = Append(h, x)
  OBVIOUS
<1>3. Incr(g)
  BY <1>1, <1>2 DEF Ordered, Incr, NatQueue
<1>4. \A b \in DOMAIN g : g[b] = x \/ (b \in DOMAIN h /\ g[b] = h[b])
  BY <1>1, <1>2 DEF NatQueue
<1>5. QED
  BY <1>2, <1>3, <1>4 DEF Ordered, Before

\* What an order of three parts says of them put together.
LEMMA OrderedTogether ==
  ASSUME NEW h, NEW m \in Seq(Nat), NEW i, NatQueue(h), NatQueue(i), Len(m) <= 1,
         Ordered(h, Range(m), i)
  PROVE  /\ Incr(h \o m \o i)
         /\ \A n \in Nat : Before(n, h, Range(m), i) =>
              \A a \in DOMAIN (h \o m \o i) : n < (h \o m \o i)[a]
<1>1. PICK g : g = h \o m
  OBVIOUS
<1>2. /\ g \in Seq(Nat) /\ DOMAIN g = 1..(Len(h) + Len(m)) /\ Len(g) = Len(h) + Len(m)
      /\ \A a \in DOMAIN g : g[a] = IF a <= Len(h) THEN h[a] ELSE m[a - Len(h)]
  <2>1. /\ g \in Seq(Nat) /\ Len(g) = Len(h) + Len(m)
        /\ \A a \in 1..Len(h) + Len(m) : g[a] = IF a <= Len(h) THEN h[a] ELSE m[a - Len(h)]
    BY <1>1, ConcatProperties DEF NatQueue
  <2>2. QED
    BY <2>1, LenProperties
<1>3. DOMAIN m = 1..Len(m) /\ Len(m) \in Nat /\ \A a \in DOMAIN m : m[a] \in Range(m)
  BY LenProperties DEF Range
<1>4. \A a \in DOMAIN g : \/ a \in DOMAIN h /\ g[a] = h[a]
                          \/ a - Len(h) \in DOMAIN m /\ g[a] = m[a - Len(h)] /\ a = Len(h) + 1
  BY <1>2, <1>3 DEF NatQueue
<1>5. PICK s : s = g \o i
  OBVIOUS
<1>6. /\ s \in Seq(Nat) /\ DOMAIN s = 1..(Len(g) + Len(i))
      /\ \A a \in DOMAIN s : s[a] = IF a <= Len(g) THEN g[a] ELSE i[a - Len(g)]
  <2>1. /\ s \in Seq(Nat) /\ Len(s) = Len(g) + Len(i)
        /\ \A a \in 1..Len(g) + Len(i) : s[a] = IF a <= Len(g) THEN g[a] ELSE i[a - Len(g)]
      <3>1. g \in Seq(Nat) /\ i \in Seq(Nat)
        BY <1>2 DEF NatQueue
      <3>2. /\ g \o i \in Seq(Nat) /\ Len(g \o i) = Len(g) + Len(i)
            /\ \A a \in 1..Len(g) + Len(i) :
                 (g \o i)[a] = IF a <= Len(g) THEN g[a] ELSE i[a - Len(g)]
        BY <3>1, ConcatProperties
      <3>3. QED
        BY <1>5, <3>2
  <2>2. QED
    BY <2>1, LenProperties
<1>7. Incr(g)
  <2> SUFFICES ASSUME NEW a \in DOMAIN g, NEW b \in DOMAIN g, a < b PROVE g[a] < g[b]
    BY DEF Incr
  <2>1. a \in DOMAIN h /\ g[a] = h[a]
    BY <1>2, <1>3, <1>4 DEF NatQueue
  <2>2. QED
    BY <1>3, <1>4, <2>1 DEF Ordered, Incr
<1>8. \A a \in DOMAIN g : \A b \in DOMAIN i : g[a] < i[b]
  BY <1>3, <1>4 DEF Ordered
<1>9. \A a \in DOMAIN s : \/ a \in DOMAIN g /\ s[a] = g[a]
                          \/ a - Len(g) \in DOMAIN i /\ s[a] = i[a - Len(g)] /\ a > Len(g)
  BY SMTT(20), <1>2, <1>6 DEF NatQueue
<1>10. Incr(s)
  <2> SUFFICES ASSUME NEW a \in DOMAIN s, NEW b \in DOMAIN s, a < b PROVE s[a] < s[b]
    BY DEF Incr
  <2>1. CASE a \in DOMAIN g /\ s[a] = g[a] /\ b \in DOMAIN g /\ s[b] = g[b]
    BY <1>7, <2>1 DEF Incr
  <2>2. CASE a \in DOMAIN g /\ s[a] = g[a] /\ b - Len(g) \in DOMAIN i /\ s[b] = i[b - Len(g)]
    BY <1>8, <2>2
  <2>3. CASE /\ a - Len(g) \in DOMAIN i /\ s[a] = i[a - Len(g)] /\ a > Len(g)
             /\ b - Len(g) \in DOMAIN i /\ s[b] = i[b - Len(g)]
    <3>1. a - Len(g) < b - Len(g)
      BY <1>2, <1>6, <2>3 DEF NatQueue
    <3>2. QED
      BY <2>3, <3>1 DEF Ordered, Incr
  <2>4. ~(a > Len(g) /\ b \in DOMAIN g)
    BY <1>2, <1>6 DEF NatQueue
  <2>5. QED
    BY <1>9, <2>1, <2>2, <2>3, <2>4
<1>11. ASSUME NEW n \in Nat, Before(n, h, Range(m), i)
       PROVE  \A a \in DOMAIN s : n < s[a]
  <2>1. \A a \in DOMAIN g : n < g[a]
    BY <1>3, <1>4, <1>11 DEF Before
  <2>2. QED
    BY <1>9, <1>11, <2>1 DEF Before
<1>12. QED
  BY <1>1, <1>5, <1>10, <1>11

-----------------------------------------------------------------------------
(* The order holds for all Listeners. *)

Middle(l) == IF lpc[l] = "handling" THEN {Last(seen[l])} ELSE {}

OrderedAt(l) == Ordered(handshakes[l], Middle(l), inbox[l])
BeforeAt(n, l) == Before(n, handshakes[l], Middle(l), inbox[l])

CountedInOrder ==
  /\ \A c \in DOMAIN counted : /\ counted[c].for <= counted[c].call
                               /\ BeforeAt(counted[c].for, counted[c].by)
  /\ \A c, d \in DOMAIN counted :
       c < d /\ counted[c].by = counted[d].by => counted[c].for < counted[d].for

OrderOK == (\A l \in Listeners : OrderedAt(l)) /\ CountedInOrder

TypesOK == NotifierOK /\ QueuesOK /\ ListenersOK

\* The numbers of the notifications, wherever they are.
Numbers ==
  /\ \A l \in Listeners :
       /\ NatQueue(handshakes[l]) /\ NatQueue(inbox[l])
       /\ \A a \in DOMAIN handshakes[l] : handshakes[l][a] \in 1..Len(calls)
       /\ \A a \in DOMAIN inbox[l] : inbox[l][a] \in 1..Len(calls)
       /\ lpc[l] = "handling" => Last(seen[l]) \in 1..Len(calls)
       /\ Middle(l) \subseteq 1..Len(calls)
  /\ Len(counted) \in Nat /\ DOMAIN counted = 1..Len(counted)
  /\ \A c \in DOMAIN counted : /\ counted[c].for \in 1..Len(calls)
                               /\ counted[c].call \in 1..Len(calls)
                               /\ counted[c].by \in Listeners
  /\ Len(calls) \in Nat

LEMMA NumbersFacts == TypesOK => Numbers
<1> SUFFICES ASSUME TypesOK PROVE Numbers
  OBVIOUS
<1>0. PICK D : D = 1..Len(calls) /\ D = DOMAIN calls /\ D \subseteq Nat
  BY CallsFacts DEF TypesOK
<1>1. ASSUME NEW s \in Seq(D)
      PROVE  NatQueue(s) /\ \A a \in DOMAIN s : s[a] \in D
  <2>1. s \in Seq(Nat)
    BY <1>0, SeqMonotonic
  <2>2. QED
    BY <2>1, LenProperties, ElementOfSeq DEF NatQueue
<1>2. ASSUME NEW l \in Listeners
      PROVE  handshakes[l] \in Seq(D) /\ inbox[l] \in Seq(D) /\ seen[l] \in Seq(D)
  BY <1>0 DEF TypesOK, QueuesOK
<1>3. ASSUME NEW l \in Listeners, lpc[l] = "handling"
      PROVE  Last(seen[l]) \in D
  <2>1. seen[l] # <<>> /\ seen[l] \in Seq(D)
    BY <1>2, <1>3 DEF TypesOK, ListenersOK
  <2>2. Len(seen[l]) \in DOMAIN seen[l]
    BY <2>1, EmptySeq, LenProperties
  <2>3. QED
    BY <1>1, <2>1, <2>2 DEF Last
<1>4. /\ Len(counted) \in Nat /\ DOMAIN counted = 1..Len(counted)
      /\ \A c \in DOMAIN counted : counted[c] \in [call : D, by : Listeners, for : D]
  <2>1. counted \in Seq([call : D, by : Listeners, for : D])
    BY <1>0 DEF TypesOK, QueuesOK
  <2>2. QED
    BY <2>1, LenProperties, ElementOfSeq
<1>5. QED
  BY <1>0, <1>1, <1>2, <1>3, <1>4, CallsFacts DEF Middle, TypesOK, Numbers

LEMMA NumbersNext == TypesOK' => Numbers'
  BY NumbersFacts, PTL

\* What the order is for.
LEMMA OrderCounts ==
  ASSUME TypesOK, OrderOK
  PROVE  CountedOnce
<1>1. ASSUME NEW l \in Listeners
      PROVE  /\ Incr(ToCount(l))
             /\ \A n \in Nat : BeforeAt(n, l) => \A i \in DOMAIN ToCount(l) : n < ToCount(l)[i]
  <2>1. PICK m : m = Handling(l)
    OBVIOUS
  <2>2. m \in Seq(Nat) /\ Len(m) <= 1 /\ Range(m) = Middle(l)
    <3>1. CASE lpc[l] = "handling"
      <4>1. PICK x \in Nat : x = Last(seen[l])
        BY <3>1, NumbersFacts DEF Numbers
      <4>2. m = <<x>> /\ Middle(l) = {x}
        BY <2>1, <3>1, <4>1 DEF Handling, Middle
      <4>3. m \in Seq(Nat) /\ Len(m) = 1 /\ DOMAIN m = {1} /\ m[1] = x
        BY <4>2
      <4>4. QED
        BY <4>2, <4>3 DEF Range
    <3>2. CASE lpc[l] # "handling"
      <4>1. m = <<>> /\ Middle(l) = {}
        BY <2>1, <3>2 DEF Handling, Middle
      <4>2. m \in Seq(Nat) /\ Len(m) = 0 /\ DOMAIN m = {}
        BY <4>1, EmptySeq
      <4>3. QED
        BY <4>1, <4>2 DEF Range
    <3>3. QED
      BY <3>1, <3>2
  <2>3. NatQueue(handshakes[l]) /\ NatQueue(inbox[l]) /\ Ordered(handshakes[l], Range(m), inbox[l])
    BY <2>2, NumbersFacts DEF OrderOK, OrderedAt, Numbers
  <2>4. ToCount(l) = handshakes[l] \o m \o inbox[l]
    BY <2>1 DEF ToCount
  <2>5. QED
    BY <2>2, <2>3, <2>4, OrderedTogether DEF BeforeAt
<1>2. \A c \in DOMAIN counted : /\ counted[c].for \in Nat /\ counted[c].by \in Listeners
                                /\ BeforeAt(counted[c].for, counted[c].by)
  BY NumbersFacts DEF Numbers, OrderOK, CountedInOrder
<1>3. QED
  BY <1>1, <1>2 DEF CountedOnce, Incr, OrderOK, CountedInOrder

\* One Listener's queues change in a way that keeps what was before before.
LEMMA OrderKept ==
  ASSUME TypesOK, TypesOK', OrderOK, UNCHANGED counted,
         \A l \in Listeners : /\ OrderedAt(l)'
                              /\ \A n \in 1..Len(calls) : BeforeAt(n, l) => BeforeAt(n, l)'
  PROVE  OrderOK'
<1>1. \A c \in DOMAIN counted : /\ counted[c].for \in 1..Len(calls)
                                /\ counted[c].by \in Listeners
  BY NumbersFacts DEF Numbers
<1>2. \A c \in DOMAIN counted : BeforeAt(counted[c].for, counted[c].by)'
  BY <1>1 DEF OrderOK, CountedInOrder
<1>3. counted' = counted
  OBVIOUS
<1>4. CountedInOrder'
  BY <1>2, <1>3 DEF OrderOK, CountedInOrder
<1>5. QED
  BY <1>4 DEF OrderOK

\* A Listener whose queues stay as they are.
LEMMA SameAt ==
  ASSUME NEW l \in Listeners, OrderedAt(l),
         handshakes'[l] = handshakes[l], inbox'[l] = inbox[l], Middle(l)' = Middle(l)
  PROVE  /\ OrderedAt(l)'
         /\ \A n \in 1..Len(calls) : BeforeAt(n, l) => BeforeAt(n, l)'
  BY DEF OrderedAt, BeforeAt

LEMMA CutAt ==
  ASSUME TypesOK, TypesOK', NEW l \in Listeners, OrderedAt(l),
         Window(handshakes'[l], handshakes[l]), Window(inbox'[l], inbox[l]),
         Middle(l)' \subseteq Middle(l)
  PROVE  /\ OrderedAt(l)'
         /\ \A n \in 1..Len(calls) : BeforeAt(n, l) => BeforeAt(n, l)'
<1>1. NatQueue(handshakes[l]) /\ NatQueue(inbox[l]) /\ 1..Len(calls) \subseteq Nat
  BY NumbersFacts DEF Numbers
<1>2. NatQueue(handshakes'[l]) /\ NatQueue(inbox'[l])
  BY NumbersNext DEF Numbers
<1>3. QED
  BY <1>1, <1>2, OrderedCut DEF OrderedAt, BeforeAt

LEMMA StepKeepsOrder ==
  ASSUME TypesOK, TypesOK', OrderOK, [Next]_vars
  PROVE  OrderOK'
<1>a. /\ Len(calls) \in Nat
      /\ \A l \in Listeners :
           /\ OrderedAt(l)
           /\ NatQueue(handshakes[l]) /\ NatQueue(inbox[l])
           /\ \A a \in DOMAIN handshakes[l] : handshakes[l][a] \in 1..Len(calls)
           /\ \A a \in DOMAIN inbox[l] : inbox[l][a] \in 1..Len(calls)
           /\ lpc[l] = "handling" => Last(seen[l]) \in 1..Len(calls)
           /\ Middle(l) \subseteq 1..Len(calls)
  BY NumbersFacts DEF Numbers, OrderOK
<1>b. \A l \in Listeners : Window(handshakes[l], handshakes[l]) /\ Window(inbox[l], inbox[l])
  <2>1. \A l \in Listeners : /\ \A a \in DOMAIN handshakes[l] : a + 0 = a
                             /\ \A a \in DOMAIN inbox[l] : a + 0 = a
    BY <1>a DEF NatQueue
  <2>2. 0 \in Nat
    OBVIOUS
  <2>3. QED
    BY <2>1, <2>2 DEF Window
<1>1. ASSUME NEW messages \in Messages, Notify(messages)
      PROVE  OrderOK'
  <2>1. ASSUME NEW l \in Listeners
        PROVE  /\ OrderedAt(l)'
               /\ \A n \in 1..Len(calls) : BeforeAt(n, l) => BeforeAt(n, l)'
    <3>1. Middle(l)' = Middle(l) /\ handshakes'[l] = handshakes[l]
      BY <1>1 DEF Notify, listener, Middle
    <3>2. CASE inbox'[l] = inbox[l]
      BY <1>a, <3>1, <3>2, SameAt
    <3>3. CASE inbox'[l] # inbox[l]
      <4>1. PICK x \in Nat : x = Len(calls) + 1 /\ \A n \in 1..Len(calls) : n < x /\ n \in Nat
        BY <1>a
      <4>2. inbox'[l] = Append(inbox[l], x)
        BY <1>1, <3>3, <4>1 DEF Notify, Fire
      <4>3. /\ \A a \in DOMAIN handshakes[l] : handshakes[l][a] < x
            /\ \A a \in DOMAIN inbox[l] : inbox[l][a] < x
            /\ \A y \in Middle(l) : y < x
        BY <1>a, <4>1
      <4>4. /\ Ordered(handshakes[l], Middle(l), Append(inbox[l], x))
            /\ \A n \in Nat : n < x /\ Before(n, handshakes[l], Middle(l), inbox[l])
                 => Before(n, handshakes[l], Middle(l), Append(inbox[l], x))
        BY <1>a, <4>3, OrderedAppend DEF OrderedAt
      <4>5. QED
        BY <3>1, <4>1, <4>2, <4>4 DEF OrderedAt, BeforeAt
    <3>4. QED
      BY <3>2, <3>3
  <2>2. UNCHANGED counted
    BY <1>1 DEF Notify
  <2>3. QED
    BY <2>1, <2>2, OrderKept
<1>2. ASSUME NEW l \in Listeners, GetShot(l)
      PROVE  OrderOK'
  <2>a. PICK x : x = Head(handshakes[l])
    OBVIOUS
  <2>1. /\ handshakes[l] # <<>> /\ handshakes' = [handshakes EXCEPT ![l] = Tail(@)]
        /\ UNCHANGED <<inbox, listener>>
        /\ counted' = Append(counted, [call |-> This, by |-> l, for |-> x])
    BY <1>2, <2>a DEF GetShot
  <2>2. /\ 1 \in DOMAIN handshakes[l] /\ x = handshakes[l][1] /\ x \in 1..Len(calls)
        /\ \A a \in DOMAIN Tail(handshakes[l]) :
             a + 1 \in DOMAIN handshakes[l] /\ Tail(handshakes[l])[a] = handshakes[l][a + 1]
        /\ Tail(handshakes[l]) \in Seq(Nat)
    BY <1>a, <2>a, <2>1, TailOf DEF NatQueue
  <2>3. Window(Tail(handshakes[l]), handshakes[l])
    BY <2>2 DEF Window
  <2>4. ASSUME NEW k \in Listeners
        PROVE  /\ OrderedAt(k)'
               /\ \A n \in 1..Len(calls) : BeforeAt(n, k) => BeforeAt(n, k)'
    <3>1. Window(handshakes'[k], handshakes[k]) /\ Window(inbox'[k], inbox[k])
      <4>1. handshakes' [k] = IF k = l THEN Tail(handshakes[l]) ELSE handshakes[k]
        BY <2>1 DEF TypesOK, QueuesOK
      <4>2. QED
        BY <1>b, <2>1, <2>3, <4>1
    <3>2. Middle(k)' \subseteq Middle(k)
      BY <2>1 DEF listener, Middle
    <3>3. QED
      BY <1>a, <3>1, <3>2, CutAt
  <2>5. BeforeAt(x, l)'
    <3>1. handshakes'[l] = Tail(handshakes[l]) /\ inbox'[l] = inbox[l] /\ Middle(l)' = Middle(l)
      BY <2>1 DEF TypesOK, QueuesOK, listener, Middle
    <3>2. \A a \in DOMAIN Tail(handshakes[l]) : x < Tail(handshakes[l])[a]
      <4>1. \A a \in DOMAIN Tail(handshakes[l]) : a \in Nat \ {0}
        BY <2>2, LenProperties
      <4>2. \A a \in DOMAIN Tail(handshakes[l]) : 1 < a + 1
        BY <4>1
      <4>3. Incr(handshakes[l])
        BY <1>a DEF OrderedAt, Ordered
      <4>4. QED
        BY <2>2, <4>2, <4>3 DEF Incr
    <3>3. (\A y \in Middle(l) : x < y) /\ (\A b \in DOMAIN inbox[l] : x < inbox[l][b])
      BY <1>a, <2>2 DEF OrderedAt, Ordered
    <3>4. QED
      BY <3>1, <3>2, <3>3 DEF BeforeAt, Before
  <2>6. /\ DOMAIN counted = 1..Len(counted) /\ Len(counted) \in Nat
        /\ \A c \in DOMAIN counted : /\ counted[c].for \in 1..Len(calls)
                                     /\ counted[c].by \in Listeners
    BY NumbersFacts DEF Numbers
  <2>7. /\ DOMAIN counted' = 1..(Len(counted) + 1)
        /\ \A c \in DOMAIN counted : counted'[c] = counted[c]
        /\ counted'[Len(counted) + 1] = [call |-> This, by |-> l, for |-> x]
    <3>1. counted' = Append(counted, [call |-> This, by |-> l, for |-> x])
      BY <2>1
    <3>2. PICK S : counted \in Seq(S) /\ [call |-> This, by |-> l, for |-> x] \in S
      <4>1. counted \in Seq([call : DOMAIN calls, by : Listeners, for : DOMAIN calls])
        BY DEF TypesOK, QueuesOK
      <4>2. This \in DOMAIN calls /\ x \in DOMAIN calls
        BY <1>2, <2>2, CallsFacts DEF TypesOK, GetShot
      <4>3. QED
        BY <4>1, <4>2
    <3>3. /\ counted' \in Seq(S) /\ Len(counted') = Len(counted) + 1
          /\ \A i \in 1..Len(counted) : counted'[i] = counted[i]
          /\ counted'[Len(counted) + 1] = [call |-> This, by |-> l, for |-> x]
      BY <3>1, <3>2, AppendProperties
    <3>4. QED
      BY <2>6, <3>3, LenProperties
  <2>8. x <= This
    BY <2>2, <1>a DEF This
  <2>9. \A c \in DOMAIN counted : counted[c].by = l => counted[c].for < x
    <3>1. \A c \in DOMAIN counted : BeforeAt(counted[c].for, counted[c].by)
      BY DEF OrderOK, CountedInOrder
    <3>2. QED
      BY <2>2, <3>1 DEF BeforeAt, Before
  <2>10. \A c \in DOMAIN counted' : /\ counted'[c].for <= counted'[c].call
                                    /\ BeforeAt(counted[c].for, counted[c].by)'
    <3>1. ASSUME NEW c \in DOMAIN counted
          PROVE  /\ counted'[c].for <= counted'[c].call
                 /\ BeforeAt(counted[c].for, counted[c].by)'
      <4>1. PICK n, k : n = counted[c].for /\ k = counted[c].by
        OBVIOUS
      <4>2. n \in 1..Len(calls) /\ k \in Listeners /\ BeforeAt(n, k)
        BY <2>6, <4>1 DEF OrderOK, CountedInOrder
      <4>3. BeforeAt(n, k)'
        BY <2>4, <4>2
      <4>4. counted'[c].for = n /\ counted'[c].by = k /\ n <= counted'[c].call
        BY <2>7, <4>1 DEF OrderOK, CountedInOrder
      <4>5. QED
        BY <4>3, <4>4 DEF BeforeAt
    <3>2. /\ counted'[Len(counted) + 1].for <= counted'[Len(counted) + 1].call
          /\ counted'[Len(counted) + 1].for = x /\ counted'[Len(counted) + 1].by = l
      BY <2>7, <2>8
    <3>3. \A c : c = Len(counted) + 1 => BeforeAt(counted[c].for, counted[c].by)'
      BY <2>5, <3>2 DEF BeforeAt
    <3>4. \A c \in DOMAIN counted' : c \in DOMAIN counted \/ c = Len(counted) + 1
      BY <2>6, <2>7
    <3>5. QED
      BY <3>1, <3>2, <3>3, <3>4
  <2>11. ASSUME NEW c \in DOMAIN counted', NEW d \in DOMAIN counted',
                c < d, counted'[c].by = counted'[d].by
         PROVE  counted'[c].for < counted'[d].for
    <3>1. c \in DOMAIN counted /\ (d \in DOMAIN counted \/ d = Len(counted) + 1)
      BY <2>6, <2>7, <2>11
    <3>2. CASE d \in DOMAIN counted
      BY <2>7, <2>11, <3>1, <3>2 DEF OrderOK, CountedInOrder
    <3>3. CASE d = Len(counted) + 1
      BY <2>7, <2>9, <2>11, <3>1, <3>3
    <3>4. QED
      BY <3>1, <3>2, <3>3
  <2>12. QED
    BY <2>4, <2>10, <2>11 DEF OrderOK, CountedInOrder
<1>3. ASSUME DestroyNotifier
      PROVE  OrderOK'
  <2>1. PICK i \in [Listeners -> UNION {Prefixes(inbox[l]) : l \in Listeners}] :
          (\A l \in Listeners : i[l] \in Prefixes(inbox[l])) /\ inbox' = i
    BY <1>3 DEF DestroyNotifier
  <2>2. PICK h \in [Listeners -> UNION {Suffixes(handshakes[l]) : l \in Listeners}] :
          (\A l \in Listeners : h[l] \in Suffixes(handshakes[l])) /\ handshakes' = h
    BY <1>3 DEF DestroyNotifier
  <2>3. UNCHANGED counted /\ \A l \in Listeners : Middle(l)' \subseteq Middle(l)
    BY <1>3 DEF DestroyNotifier, listener, Middle
  <2>4. ASSUME NEW l \in Listeners
        PROVE  Window(handshakes'[l], handshakes[l]) /\ Window(inbox'[l], inbox[l])
    <3>1. PICK s : s = inbox[l] /\ s \in Seq(Nat) /\ i[l] \in Prefixes(s)
      BY <1>a, <2>1 DEF NatQueue
    <3>2. \A a \in DOMAIN i[l] : a \in DOMAIN s /\ i[l][a] = s[a]
      BY <3>1, PrefixOf
    <3>3. \A a \in DOMAIN i[l] : a + 0 = a
      <4>1. i[l] \in Seq(Nat)
        BY <3>1, PrefixOf
      <4>2. QED
        BY <4>1, LenProperties
    <3>4. Window(i[l], s)
      <4>1. 0 \in Nat
        OBVIOUS
      <4>2. QED
        BY <3>2, <3>3, <4>1 DEF Window
    <3>5. PICK t : t = handshakes[l] /\ t \in Seq(Nat) /\ h[l] \in Suffixes(t)
      BY <1>a, <2>2 DEF NatQueue
    <3>6. Window(h[l], t)
      BY <3>5, SuffixOf DEF Window
    <3>7. QED
      BY <2>1, <2>2, <3>1, <3>4, <3>5, <3>6
  <2>5. \A l \in Listeners : /\ OrderedAt(l)'
                             /\ \A n \in 1..Len(calls) : BeforeAt(n, l) => BeforeAt(n, l)'
    BY <1>a, <2>3, <2>4, CutAt
  <2>6. QED
    BY <2>3, <2>5, OrderKept
<1>4. ASSUME NEW l \in Listeners, DestroyListener(l)
      PROVE  OrderOK'
  <2>1. PICK kept \in Prefixes(handshakes[l]) : handshakes' = [handshakes EXCEPT ![l] = kept]
    BY <1>4 DEF DestroyListener
  <2>2. Window(kept, handshakes[l])
    <3>1. PICK s : s = handshakes[l] /\ s \in Seq(Nat)
      BY <1>a DEF NatQueue
    <3>2. kept \in Seq(Nat) /\ \A a \in DOMAIN kept : a \in DOMAIN s /\ kept[a] = s[a]
      BY <2>1, <3>1, PrefixOf
    <3>3. \A a \in DOMAIN kept : a + 0 = a
      BY <3>2, LenProperties
    <3>4. 0 \in Nat
      OBVIOUS
    <3>5. QED
      BY <3>1, <3>2, <3>3, <3>4 DEF Window
  <2>3. Window(<<>>, inbox[l])
    <3>1. DOMAIN <<>> = {} /\ 0 \in Nat
      OBVIOUS
    <3>2. QED
      BY <3>1 DEF Window
  <2>4. ASSUME NEW k \in Listeners
        PROVE  /\ Window(handshakes'[k], handshakes[k]) /\ Window(inbox'[k], inbox[k])
               /\ Middle(k)' \subseteq Middle(k)
    <3>1. /\ handshakes'[k] = IF k = l THEN kept ELSE handshakes[k]
          /\ inbox'[k] = IF k = l THEN <<>> ELSE inbox[k]
          /\ lpc'[k] = IF k = l THEN "none" ELSE lpc[k]
          /\ seen' = seen
      BY <1>4, <2>1 DEF DestroyListener, TypesOK, QueuesOK, ListenersOK
    <3>2. QED
      BY <1>b, <2>2, <2>3, <3>1 DEF Middle
  <2>5. UNCHANGED counted
    BY <1>4 DEF DestroyListener
  <2>6. \A k \in Listeners : /\ OrderedAt(k)'
                             /\ \A n \in 1..Len(calls) : BeforeAt(n, k) => BeforeAt(n, k)'
    BY <1>a, <2>4, CutAt
  <2>7. QED
    BY <2>5, <2>6, OrderKept
<1>5. ASSUME NEW l \in Listeners, NEW received \in BOOLEAN, NotificationReceived(l, received)
      PROVE  OrderOK'
  <2>1. /\ lpc[l] = "listening" /\ inbox[l] # <<>> /\ inbox' = [inbox EXCEPT ![l] = Tail(@)]
        /\ UNCHANGED <<handshakes, counted>>
        /\ \/ UNCHANGED listener
           \/ /\ lpc' = [lpc EXCEPT ![l] = "handling"]
              /\ seen' = [seen EXCEPT ![l] = Append(@, Head(inbox[l]))]
    BY <1>5 DEF NotificationReceived
  <2>2. ASSUME NEW k \in Listeners, k # l
        PROVE  /\ OrderedAt(k)'
               /\ \A n \in 1..Len(calls) : BeforeAt(n, k) => BeforeAt(n, k)'
    <3>1. handshakes'[k] = handshakes[k] /\ inbox'[k] = inbox[k] /\ Middle(k)' = Middle(k)
      BY <2>1, <2>2 DEF TypesOK, QueuesOK, ListenersOK, listener, Middle
    <3>2. QED
      BY <1>a, <3>1, SameAt
  <2>3. /\ Ordered(handshakes[l], {}, inbox[l]) /\ Middle(l) = {}
        /\ inbox'[l] = Tail(inbox[l]) /\ handshakes'[l] = handshakes[l]
    BY <1>a, <2>1 DEF Middle, OrderedAt, TypesOK, QueuesOK
  <2>4. /\ OrderedAt(l)'
        /\ \A n \in 1..Len(calls) : BeforeAt(n, l) => BeforeAt(n, l)'
    <3>1. CASE UNCHANGED listener
      <4>1. Middle(l)' \subseteq Middle(l)
        BY <3>1 DEF listener, Middle
      <4>2. \A a \in DOMAIN Tail(inbox[l]) : a + 1 \in DOMAIN inbox[l] /\ Tail(inbox[l])[a] = inbox[l][a + 1]
        BY <1>a, <2>1, TailOf DEF NatQueue
      <4>3. Window(inbox'[l], inbox[l]) /\ Window(handshakes'[l], handshakes[l])
        <5>1. Window(Tail(inbox[l]), inbox[l])
          BY <4>2 DEF Window
        <5>2. QED
          BY <1>b, <2>3, <5>1
      <4>4. QED
        BY <1>a, <4>1, <4>3, CutAt
    <3>2. CASE ~UNCHANGED listener
      <4>1. Middle(l)' = {Head(inbox[l])}
        <5>1. lpc'[l] = "handling" /\ seen'[l] = Append(seen[l], Head(inbox[l]))
          BY <2>1, <3>2 DEF TypesOK, QueuesOK, ListenersOK
        <5>2. seen[l] \in Seq(DOMAIN calls)
          BY DEF TypesOK, QueuesOK
        <5>3. Head(inbox[l]) \in DOMAIN calls
          <6>1. inbox[l] \in Seq(DOMAIN calls)
            BY DEF TypesOK, QueuesOK
          <6>2. QED
            BY <2>1, <6>1, TailOf
        <5>4. Last(Append(seen[l], Head(inbox[l]))) = Head(inbox[l])
          BY <5>2, <5>3, AppendProperties DEF Last
        <5>5. QED
          BY <5>1, <5>4 DEF Middle
      <4>2. /\ Ordered(handshakes[l], {Head(inbox[l])}, Tail(inbox[l]))
            /\ \A n \in Nat : Before(n, handshakes[l], {}, inbox[l])
                 => Before(n, handshakes[l], {Head(inbox[l])}, Tail(inbox[l]))
        BY <1>a, <2>1, <2>3, OrderedTake
      <4>3. 1..Len(calls) \subseteq Nat
        BY <1>a
      <4>4. QED
        BY <2>3, <4>1, <4>2, <4>3 DEF OrderedAt, BeforeAt
    <3>3. QED
      BY <3>1, <3>2
  <2>5. UNCHANGED counted
    BY <2>1
  <2>6. QED
    BY <2>2, <2>4, <2>5, OrderKept
<1>6. ASSUME NEW l \in Listeners, SendConfirmation(l)
      PROVE  OrderOK'
  <2>1. ASSUME NEW k \in Listeners, k # l
        PROVE  /\ OrderedAt(k)'
               /\ \A n \in 1..Len(calls) : BeforeAt(n, k) => BeforeAt(n, k)'
    <3>1. handshakes'[k] = handshakes[k] /\ inbox'[k] = inbox[k] /\ Middle(k)' = Middle(k)
      BY <1>6, <2>1 DEF SendConfirmation, TypesOK, QueuesOK, ListenersOK, Middle
    <3>2. QED
      BY <1>a, <3>1, SameAt
  <2>2. PICK x \in Nat : x = Last(seen[l]) /\ Middle(l) = {x}
    BY <1>6, <1>a DEF SendConfirmation, Middle
  <2>3. Middle(l)' = {} /\ inbox'[l] = inbox[l]
    BY <1>6 DEF SendConfirmation, TypesOK, ListenersOK, Middle
  <2>4. /\ OrderedAt(l)'
        /\ \A n \in 1..Len(calls) : BeforeAt(n, l) => BeforeAt(n, l)'
    <3>1. CASE handshakes' = handshakes
      BY <1>a, <1>b, <2>3, <3>1, CutAt
    <3>2. CASE handshakes' # handshakes
      <4>1. handshakes'[l] = Append(handshakes[l], x)
        BY <1>6, <2>2, <3>2 DEF SendConfirmation, TypesOK, QueuesOK
      <4>2. /\ Ordered(Append(handshakes[l], x), {}, inbox[l])
            /\ \A n \in Nat : Before(n, handshakes[l], {x}, inbox[l])
                 => Before(n, Append(handshakes[l], x), {}, inbox[l])
        BY <1>a, <2>2, OrderedConfirm DEF OrderedAt
      <4>3. 1..Len(calls) \subseteq Nat
        BY <1>a
      <4>4. QED
        BY <2>2, <2>3, <4>1, <4>2, <4>3 DEF OrderedAt, BeforeAt
    <3>3. QED
      BY <3>1, <3>2
  <2>5. UNCHANGED counted
    BY <1>6 DEF SendConfirmation
  <2>6. QED
    BY <2>1, <2>4, <2>5, OrderKept
<1>7. ASSUME UNCHANGED <<handshakes, inbox, counted, seen>>,
             \A l \in Listeners : lpc'[l] = "handling" <=> lpc[l] = "handling"
      PROVE  OrderOK'
  <2>1. \A l \in Listeners : /\ OrderedAt(l)'
                             /\ \A n \in 1..Len(calls) : BeforeAt(n, l) => BeforeAt(n, l)'
    BY <1>a, <1>7, SameAt DEF Middle
  <2>2. QED
    BY <1>7, <2>1, OrderKept
<1>8. ASSUME NEW l \in Listeners, CreateListener(l) \/ Subscribe(l)
      PROVE  OrderOK'
  <2>1. /\ UNCHANGED <<handshakes, inbox, counted, seen>>
        /\ \A k \in Listeners : lpc'[k] = "handling" <=> lpc[k] = "handling"
    BY <1>8 DEF CreateListener, Subscribe, listener, TypesOK, ListenersOK
  <2>2. QED
    BY <1>7, <2>1
<1>9. ASSUME CreateNotifier \/ NotifyConfirmed \/ NotifyTimesOut \/ UNCHANGED vars
      PROVE  OrderOK'
  <2>1. /\ UNCHANGED <<handshakes, inbox, counted, seen>>
        /\ \A k \in Listeners : lpc'[k] = "handling" <=> lpc[k] = "handling"
    BY <1>9 DEF CreateNotifier, NotifyConfirmed, NotifyTimesOut, Return, listener, vars
  <2>2. QED
    BY <1>7, <2>1
<1>10. CASE NotifierStep
  BY <1>10, <1>1, <1>2, <1>3, <1>9 DEF NotifierStep
<1>11. ASSUME NEW l \in Listeners, ListenerStep(l)
       PROVE  OrderOK'
  <2>1. NotificationCrashes(l) => DestroyListener(l)
    BY DEF NotificationCrashes
  <2>2. QED
    BY <1>11, <1>4, <1>5, <1>6, <1>8, <2>1 DEF ListenerStep
<1>12. QED
  BY <1>9, <1>10, <1>11 DEF Next

-----------------------------------------------------------------------------
(* What is confirmed has been handled. *)

SeenOK ==
  /\ \A l \in Listeners : \A a \in DOMAIN handshakes[l] : handshakes[l][a] \in Range(seen[l])
  /\ \A c \in DOMAIN counted : counted[c].for \in Range(seen[counted[c].by])

\* How GetShot adds to what was counted; no other step does.
LEMMA CountedStep ==
  ASSUME TypesOK, NEW l \in Listeners, GetShot(l)
  PROVE  /\ DOMAIN counted' = 1..(Len(counted) + 1)
         /\ \A c \in DOMAIN counted : c \in DOMAIN counted' /\ counted'[c] = counted[c]
         /\ \A c \in DOMAIN counted' : c \in DOMAIN counted \/ c = Len(counted) + 1
         /\ counted'[Len(counted) + 1] = [call |-> This, by |-> l, for |-> handshakes[l][1]]
         /\ 1 \in DOMAIN handshakes[l] /\ Head(handshakes[l]) = handshakes[l][1]
<1>1. /\ 1 \in DOMAIN handshakes[l] /\ Head(handshakes[l]) = handshakes[l][1]
      /\ Head(handshakes[l]) \in DOMAIN calls
  BY TailOf DEF GetShot, TypesOK, QueuesOK
<1>2. PICK S, e : counted \in Seq(S) /\ e \in S /\ counted' = Append(counted, e)
                  /\ e = [call |-> This, by |-> l, for |-> handshakes[l][1]]
  <2>1. counted \in Seq([call : DOMAIN calls, by : Listeners, for : DOMAIN calls])
    BY DEF TypesOK, QueuesOK
  <2>2. This \in DOMAIN calls
    BY CallsFacts DEF TypesOK, GetShot
  <2>3. [call |-> This, by |-> l, for |-> handshakes[l][1]]
          \in [call : DOMAIN calls, by : Listeners, for : DOMAIN calls]
    BY <1>1, <2>2
  <2>4. counted' = Append(counted, [call |-> This, by |-> l, for |-> handshakes[l][1]])
    BY <1>1 DEF GetShot
  <2>5. QED
    BY <2>1, <2>3, <2>4
<1>3. /\ counted' \in Seq(S) /\ Len(counted') = Len(counted) + 1
      /\ \A i \in 1..Len(counted) : counted'[i] = counted[i]
      /\ counted'[Len(counted) + 1] = e
  BY <1>2, AppendProperties
<1>4. DOMAIN counted = 1..Len(counted) /\ Len(counted) \in Nat
      /\ DOMAIN counted' = 1..(Len(counted) + 1)
  BY <1>2, <1>3, LenProperties
<1>5. QED
  BY <1>1, <1>2, <1>3, <1>4

LEMMA CountedElsewhere ==
  ASSUME [Next]_vars, \A l \in Listeners : ~GetShot(l)
  PROVE  UNCHANGED counted
  BY DEF Next, NotifierStep, ListenerStep, CreateNotifier, Notify, NotifyConfirmed, NotifyTimesOut,
     Return, DestroyNotifier, CreateListener, Subscribe, NotificationReceived, NotificationCrashes,
     DestroyListener, SendConfirmation, vars

LEMMA SeenGrows ==
  ASSUME TypesOK, [Next]_vars, NEW l \in Listeners
  PROVE  Range(seen[l]) \subseteq Range(seen'[l])
<1>1. ASSUME NEW k \in Listeners, NEW received \in BOOLEAN, NotificationReceived(k, received)
      PROVE  Range(seen[l]) \subseteq Range(seen'[l])
  <2>1. CASE seen'[l] = seen[l]
    BY <2>1
  <2>2. CASE seen'[l] # seen[l]
    <3>1. PICK x, S : S = DOMAIN calls /\ x \in S /\ seen[l] \in Seq(S) /\ seen'[l] = Append(seen[l], x)
      <4>1. seen'[l] = Append(seen[l], Head(inbox[k])) /\ inbox[k] # <<>>
        BY <1>1, <2>2 DEF NotificationReceived, listener, TypesOK, QueuesOK
      <4>2. Head(inbox[k]) \in DOMAIN calls
        BY <4>1, TailOf DEF TypesOK, QueuesOK
      <4>3. QED
        BY <4>1, <4>2 DEF TypesOK, QueuesOK
    <3>2. /\ Len(seen'[l]) = Len(seen[l]) + 1 /\ seen'[l] \in Seq(S)
          /\ \A i \in 1..Len(seen[l]) : seen'[l][i] = seen[l][i]
      BY <3>1, AppendProperties
    <3>3. \A i \in DOMAIN seen[l] : i \in DOMAIN seen'[l] /\ seen'[l][i] = seen[l][i]
      BY <3>1, <3>2, LenProperties
    <3>4. QED
      BY <3>3 DEF Range
  <2>3. QED
    BY <2>1, <2>2
<1>2. (~\E k \in Listeners, received \in BOOLEAN : NotificationReceived(k, received)) => seen' = seen
  BY DEF Next, NotifierStep, ListenerStep, CreateNotifier, Notify, NotifyConfirmed, NotifyTimesOut,
     Return, DestroyNotifier, CreateListener, Subscribe, GetShot, NotificationCrashes,
     DestroyListener, SendConfirmation, vars, listener
<1>3. QED
  BY <1>1, <1>2

\* A handshake was there, or confirms what is handled.
LEMMA HandshakesFrom ==
  ASSUME TypesOK, [Next]_vars, NEW l \in Listeners, NEW a \in DOMAIN handshakes'[l]
  PROVE  \/ \E b \in DOMAIN handshakes[l] : handshakes'[l][a] = handshakes[l][b]
         \/ lpc[l] = "handling" /\ handshakes'[l][a] = Last(seen[l])
<1>0. handshakes \in [Listeners -> Seq(DOMAIN calls)]
  BY DEF TypesOK, QueuesOK
<1>1. CASE handshakes'[l] = handshakes[l]
  BY <1>1
<1>2. CASE handshakes'[l] # handshakes[l] /\ GetShot(l)
  <2>1. handshakes'[l] = Tail(handshakes[l]) /\ handshakes[l] # <<>>
    BY <1>0, <1>2 DEF GetShot
  <2>2. \A i \in DOMAIN Tail(handshakes[l]) :
          i + 1 \in DOMAIN handshakes[l] /\ Tail(handshakes[l])[i] = handshakes[l][i + 1]
    BY <1>0, <2>1, TailOf
  <2>3. QED
    BY <2>1, <2>2
<1>3. CASE handshakes'[l] # handshakes[l] /\ DestroyNotifier
  <2>1. handshakes'[l] \in Suffixes(handshakes[l])
    BY <1>3 DEF DestroyNotifier
  <2>2. \E d \in Nat : \A i \in DOMAIN handshakes'[l] :
          i + d \in DOMAIN handshakes[l] /\ handshakes'[l][i] = handshakes[l][i + d]
    BY <1>0, <2>1, SuffixOf
  <2>3. QED
    BY <2>2
<1>4. CASE handshakes'[l] # handshakes[l] /\ DestroyListener(l)
  <2>1. handshakes'[l] \in Prefixes(handshakes[l])
    BY <1>0, <1>4 DEF DestroyListener
  <2>2. \A i \in DOMAIN handshakes'[l] :
          i \in DOMAIN handshakes[l] /\ handshakes'[l][i] = handshakes[l][i]
    BY <1>0, <2>1, PrefixOf
  <2>3. QED
    BY <2>2
<1>5. CASE handshakes'[l] # handshakes[l] /\ SendConfirmation(l)
  <2>1. lpc[l] = "handling" /\ handshakes'[l] = Append(handshakes[l], Last(seen[l]))
    BY <1>0, <1>5 DEF SendConfirmation
  <2>2. PICK S, x : S = DOMAIN calls /\ x = Last(seen[l]) /\ x \in S /\ handshakes[l] \in Seq(S)
    BY <1>0, <2>1, NumbersFacts, CallsFacts DEF Numbers, TypesOK
  <2>3. /\ handshakes'[l] \in Seq(S) /\ Len(handshakes'[l]) = Len(handshakes[l]) + 1
        /\ \A i \in 1..Len(handshakes[l]) : handshakes'[l][i] = handshakes[l][i]
        /\ handshakes'[l][Len(handshakes[l]) + 1] = x
    BY <2>1, <2>2, AppendProperties
  <2>4. a \in DOMAIN handshakes[l] \/ a = Len(handshakes[l]) + 1
    BY <2>2, <2>3, LenProperties
  <2>5. QED
    BY <2>1, <2>2, <2>3, <2>4, LenProperties
<1>6. ASSUME handshakes'[l] # handshakes[l]
      PROVE  GetShot(l) \/ DestroyNotifier \/ DestroyListener(l) \/ SendConfirmation(l)
  <2>1. CASE NotifierStep
    <3>1. ASSUME NEW k \in Listeners, GetShot(k)
          PROVE  GetShot(l)
      BY <1>0, <1>6, <3>1 DEF GetShot
    <3>2. QED
      BY <1>6, <2>1, <3>1 DEF NotifierStep, CreateNotifier, Notify, NotifyConfirmed, NotifyTimesOut,
         Return
  <2>2. ASSUME NEW k \in Listeners, ListenerStep(k)
        PROVE  DestroyListener(l) \/ SendConfirmation(l)
    <3>1. DestroyListener(k) \/ SendConfirmation(k)
      BY <1>6, <2>2 DEF ListenerStep, CreateListener, Subscribe, NotificationReceived,
         NotificationCrashes
    <3>2. DestroyListener(k) => k = l
      BY <1>0, <1>6 DEF DestroyListener
    <3>3. SendConfirmation(k) => k = l
      BY <1>0, <1>6 DEF SendConfirmation
    <3>4. QED
      BY <3>1, <3>2, <3>3
  <2>3. QED
    BY <1>6, <2>1, <2>2 DEF Next, vars
<1>7. QED
  BY <1>1, <1>2, <1>3, <1>4, <1>5, <1>6

LEMMA StepKeepsSeen ==
  ASSUME TypesOK, TypesOK', SeenOK, [Next]_vars
  PROVE  SeenOK'
<1>1. ASSUME NEW l \in Listeners, NEW a \in DOMAIN handshakes'[l]
      PROVE  handshakes'[l][a] \in Range(seen'[l])
  <2>1. lpc[l] = "handling" => Last(seen[l]) \in Range(seen[l])
    <3> SUFFICES ASSUME lpc[l] = "handling" PROVE Len(seen[l]) \in DOMAIN seen[l]
      BY DEF Range, Last
    <3>1. seen[l] # <<>> /\ seen[l] \in Seq(DOMAIN calls)
      BY DEF TypesOK, QueuesOK, ListenersOK
    <3>2. QED
      BY <3>1, EmptySeq, LenProperties
  <2>2. handshakes'[l][a] \in Range(seen[l])
    BY <2>1, HandshakesFrom DEF SeenOK
  <2>3. QED
    BY <2>2, SeenGrows
<1>2. ASSUME NEW c \in DOMAIN counted'
      PROVE  counted'[c].for \in Range(seen'[counted'[c].by])
  <2>1. \A d \in DOMAIN counted : counted[d].by \in Listeners
                                  /\ counted[d].for \in Range(seen'[counted[d].by])
    BY NumbersFacts, SeenGrows DEF Numbers, SeenOK
  <2>2. CASE \E l \in Listeners : GetShot(l)
    <3>1. PICK l \in Listeners : GetShot(l)
      BY <2>2
    <3>2. handshakes[l][1] \in Range(seen'[l]) /\ 1 \in DOMAIN handshakes[l]
      BY <3>1, CountedStep, SeenGrows DEF SeenOK
    <3>3. \/ c \in DOMAIN counted /\ counted'[c] = counted[c]
          \/ counted'[c].for = handshakes[l][1] /\ counted'[c].by = l
      <4>1. /\ \A d \in DOMAIN counted : counted'[d] = counted[d]
            /\ \A d \in DOMAIN counted' : d \in DOMAIN counted \/ d = Len(counted) + 1
            /\ counted'[Len(counted) + 1] = [call |-> This, by |-> l, for |-> handshakes[l][1]]
        BY <3>1, CountedStep
      <4>2. QED
        BY <4>1
    <3>4. QED
      BY <2>1, <3>2, <3>3
  <2>3. CASE ~\E l \in Listeners : GetShot(l)
    BY <2>1, <2>3, CountedElsewhere
  <2>4. QED
    BY <2>2, <2>3
<1>3. QED
  BY <1>1, <1>2 DEF SeenOK

-----------------------------------------------------------------------------
(* The messages a Listener gives out are those of what it handles. *)

\* No step touches the messages of a call.
LEMMA MessagesStay ==
  ASSUME TypesOK, TypesOK', [Next]_vars, NEW n \in DOMAIN calls
  PROVE  calls'[n].messages = calls[n].messages
<1>1. PICK S : S = Call /\ calls \in Seq(S)
  BY DEF TypesOK, NotifierOK
<1>2. n \in 1..Len(calls) /\ calls[n] \in Call
  BY <1>1, LenProperties, ElementOfSeq
<1>3. ASSUME NEW messages \in Messages, Notify(messages)
      PROVE  calls'[n] = calls[n]
  BY <1>1, <1>2, <1>3 DEF Notify
<1>4. ASSUME (\E l \in Listeners : GetShot(l)) \/ NotifyConfirmed \/ NotifyTimesOut
      PROVE  calls'[n].messages = calls[n].messages
  <2>1. PICK r : \/ calls' = [calls EXCEPT ![This].responses = r]
                 \/ calls' = [calls EXCEPT ![This].status = r]
    BY <1>4 DEF GetShot, NotifyConfirmed, NotifyTimesOut, Return
  <2>2. \/ calls'[n] = calls[n]
        \/ calls'[n] = [calls[n] EXCEPT !.responses = r]
        \/ calls'[n] = [calls[n] EXCEPT !.status = r]
    BY <2>1
  <2>3. QED
    BY <1>2, <2>2 DEF Call
<1>5. ASSUME ~((\E l \in Listeners : GetShot(l)) \/ NotifyConfirmed \/ NotifyTimesOut),
             ~\E messages \in Messages : Notify(messages)
      PROVE  calls' = calls
  BY <1>5 DEF Next, NotifierStep, ListenerStep, CreateNotifier,
     DestroyNotifier, CreateListener, Subscribe, NotificationReceived, NotificationCrashes,
     DestroyListener, SendConfirmation, vars, notifier
<1>6. QED
  BY <1>3, <1>4, <1>5

LEMMA StepKeepsMessages ==
  ASSUME TypesOK, TypesOK', MessagesAreCurrent, [Next]_vars
  PROVE  MessagesAreCurrent'
<1> SUFFICES ASSUME NEW l \in Listeners, lpc'[l] = "handling", NEW messages,
                    messages = calls'[Last(seen'[l])].messages
             PROVE  /\ messages = <<kNotifyMessage>> => mMessages'[l] = <<>>
                    /\ Len(messages) > 0 /\ messages[1] # kNotifyMessage => mMessages'[l] = messages
  BY DEF MessagesAreCurrent
<1>1. \A n \in DOMAIN calls : calls'[n].messages = calls[n].messages
  BY MessagesStay
<1>2. CASE lpc[l] = "handling" /\ seen'[l] = seen[l] /\ mMessages'[l] = mMessages[l]
  <2>1. Last(seen[l]) \in DOMAIN calls
    BY <1>2, NumbersFacts, CallsFacts DEF Numbers, TypesOK
  <2>2. messages = calls[Last(seen[l])].messages
    BY <1>1, <1>2, <2>1
  <2>3. QED
    BY <1>2, <2>2 DEF MessagesAreCurrent
<1>3. ASSUME NEW received \in BOOLEAN, NotificationReceived(l, received), lpc[l] # "handling"
      PROVE  /\ messages = <<kNotifyMessage>> => mMessages'[l] = <<>>
             /\ Len(messages) > 0 /\ messages[1] # kNotifyMessage => mMessages'[l] = messages
  <2>1. PICK n \in DOMAIN calls : n = Head(inbox[l])
    <3>1. inbox[l] \in Seq(DOMAIN calls) /\ inbox[l] # <<>>
      BY <1>3 DEF NotificationReceived, TypesOK, QueuesOK
    <3>2. QED
      BY <3>1, TailOf
  <2>2. /\ mMessages' = [mMessages EXCEPT ![l] = StorePayloadIfNecessary(ClearMessages(@),
                                                                          calls[n].messages)]
        /\ seen' = [seen EXCEPT ![l] = Append(@, n)]
    BY <1>3, <2>1 DEF NotificationReceived, listener
  <2>3. /\ mMessages'[l] = StorePayloadIfNecessary(<<>>, calls[n].messages)
        /\ seen'[l] = Append(seen[l], n) /\ seen[l] \in Seq(DOMAIN calls)
    BY <2>2 DEF TypesOK, QueuesOK, ListenersOK, ClearMessages
  <2>4. Last(seen'[l]) = n
    BY <2>3, AppendProperties DEF Last
  <2>5. mMessages'[l] = StorePayloadIfNecessary(<<>>, messages)
    BY <1>1, <2>3, <2>4
  <2>6. Len(messages) > 0 => messages # <<>>
    OBVIOUS
  <2>7. QED
    BY <2>5, <2>6 DEF StorePayloadIfNecessary
<1>4. \/ \E received \in BOOLEAN : NotificationReceived(l, received) /\ lpc[l] # "handling"
      \/ lpc[l] = "handling" /\ seen'[l] = seen[l] /\ mMessages'[l] = mMessages[l]
  <2>1. CASE UNCHANGED listener
    BY <2>1 DEF listener
  <2>2. CASE ~UNCHANGED listener
    <3>1. PICK k \in Listeners : ListenerStep(k)
      BY <2>2 DEF Next, NotifierStep, CreateNotifier, Notify, NotifyConfirmed, NotifyTimesOut,
         Return, DestroyNotifier, GetShot, vars
    <3>2. CASE k # l
      BY ZenonT(30), <3>1, <3>2 DEF ListenerStep, CreateListener, Subscribe, NotificationReceived,
         NotificationCrashes, DestroyListener, SendConfirmation, listener, TypesOK, ListenersOK,
         QueuesOK
    <3>3. CASE k = l
      <4>1. ~DestroyListener(l) /\ ~SendConfirmation(l) /\ ~CreateListener(l)
        BY DEF DestroyListener, SendConfirmation, CreateListener, TypesOK, ListenersOK
      <4>2. ~NotificationCrashes(l) /\ ~Subscribe(l)
        BY <2>2, <4>1 DEF NotificationCrashes, Subscribe
      <4>3. PICK received \in BOOLEAN : NotificationReceived(l, received)
        BY <3>1, <3>3, <4>1, <4>2 DEF ListenerStep
      <4>4. lpc[l] # "handling"
        BY <4>3 DEF NotificationReceived
      <4>5. QED
        BY <4>3, <4>4
    <3>4. QED
      BY <3>2, <3>3
  <2>3. QED
    BY <2>1, <2>2
<1>5. QED
  BY <1>2, <1>3, <1>4

-----------------------------------------------------------------------------
(* When every Notify but the last got all it expects, all it counted was for itself. *)

HonestOK ==
  Cardinality(Listeners) = gHandshakeCount /\ AllConfirmed =>
    /\ \A c \in DOMAIN counted : counted[c].for = counted[c].call
    /\ \A n \in DOMAIN calls : Cardinality(ConfirmedBy(n)) = calls[n].responses

LEMMA ConfirmedFacts ==
  ASSUME TypesOK, NEW n
  PROVE  /\ ConfirmedBy(n) \subseteq Listeners /\ IsFiniteSet(ConfirmedBy(n))
         /\ \A l : l \in ConfirmedBy(n) <=>
                     \E c \in DOMAIN counted : counted[c].for = n /\ counted[c].by = l
<1>1. \A l : l \in ConfirmedBy(n) <=>
               \E c \in DOMAIN counted : counted[c].for = n /\ counted[c].by = l
  BY DEF ConfirmedBy
<1>2. ConfirmedBy(n) \subseteq Listeners
  BY <1>1, NumbersFacts DEF Numbers
<1>3. IsFiniteSet(Listeners)
  BY Assumptions DEF Assumptions
<1>4. QED
  BY <1>1, <1>2, <1>3, FS_Subset

LEMMA StepKeepsHonest ==
  ASSUME TypesOK, TypesOK', OrderOK, HonestOK, [Next]_vars
  PROVE  HonestOK'
<1>a. PICK K : K = gHandshakeCount /\ K \in Nat
  BY Assumptions DEF Assumptions
<1>b. /\ Len(calls) \in Nat /\ DOMAIN calls = 1..Len(calls) /\ This = Len(calls)
      /\ \A n \in DOMAIN calls : calls[n] \in Call
      /\ calls \in Seq(Call)
  <2>1. calls \in Seq(Call) /\ DOMAIN calls = 1..Len(calls) /\ Len(calls) \in Nat
    BY CallsFacts DEF TypesOK, NotifierOK
  <2>2. QED
    BY <2>1, ElementOfSeq DEF This
<1>1. ASSUME UNCHANGED counted, DOMAIN calls' = DOMAIN calls, Len(calls') = Len(calls),
             \A n \in DOMAIN calls : calls'[n].responses = calls[n].responses
      PROVE  HonestOK'
  <2>1. AllConfirmed' <=> AllConfirmed
    BY <1>1 DEF AllConfirmed, This
  <2>2. \A n : ConfirmedBy(n)' = ConfirmedBy(n)
    BY <1>1 DEF ConfirmedBy
  <2>3. QED
    BY <1>1, <2>1, <2>2 DEF HonestOK
<1>2. ASSUME NEW messages \in Messages, Notify(messages)
      PROVE  HonestOK'
  <2>1. PICK call : /\ call = [messages |-> messages, responses |-> 0, status |-> "running"]
                    /\ call \in Call /\ calls' = Append(calls, call)
    BY <1>2, <1>a DEF Notify, Call
  <2>2. /\ DOMAIN calls' = 1..(Len(calls) + 1) /\ Len(calls') = Len(calls) + 1
        /\ \A n \in DOMAIN calls : calls'[n] = calls[n]
        /\ calls'[Len(calls) + 1].responses = 0
    <3>1. /\ calls' \in Seq(Call) /\ Len(calls') = Len(calls) + 1
          /\ \A n \in 1..Len(calls) : calls'[n] = calls[n]
          /\ calls'[Len(calls) + 1] = call
      BY <1>b, <2>1, AppendProperties
    <3>2. QED
      BY <1>b, <2>1, <3>1, LenProperties
  <2>3. counted' = counted
    BY <1>2 DEF Notify
  <2>4. \A n : ConfirmedBy(n)' = ConfirmedBy(n)
    BY <2>3 DEF ConfirmedBy
  <2>5. Cardinality(ConfirmedBy(Len(calls) + 1)) = 0
    <3>1. \A c \in DOMAIN counted : counted[c].for # Len(calls) + 1
      BY <1>b, NumbersFacts DEF Numbers
    <3>2. ConfirmedBy(Len(calls) + 1) = {}
      BY <3>1 DEF ConfirmedBy
    <3>3. QED
      BY <3>2, FS_EmptySet
  <2>6. AllConfirmed' => AllConfirmed
    BY <1>b, <2>2 DEF AllConfirmed, This
  <2>7. \A n \in DOMAIN calls' : n \in DOMAIN calls \/ n = Len(calls) + 1
    BY <1>b, <2>2
  <2>8. QED
    BY <2>2, <2>3, <2>4, <2>5, <2>6, <2>7 DEF HonestOK
<1>3. ASSUME NEW l \in Listeners, GetShot(l)
      PROVE  HonestOK'
  <2> SUFFICES ASSUME Cardinality(Listeners) = K, AllConfirmed'
               PROVE  /\ \A c \in DOMAIN counted' : counted'[c].for = counted'[c].call
                      /\ \A n \in DOMAIN calls' : Cardinality(ConfirmedBy(n)') = calls'[n].responses
    BY <1>a DEF HonestOK
  <2>1. /\ This \in DOMAIN calls
        /\ calls' = [calls EXCEPT ![This].responses = @ + 1]
    BY <1>3, CallsFacts DEF GetShot, TypesOK
  <2>2. /\ DOMAIN calls' = DOMAIN calls /\ This' = This
        /\ \A n \in DOMAIN calls : calls'[n].responses =
             IF n = This THEN calls[This].responses + 1 ELSE calls[n].responses
    <3>1. PICK call \in Call : call = [calls[This] EXCEPT !.responses = @ + 1]
      <4>1. calls[This] \in Call /\ calls[This].responses < K
        BY <1>3, <1>a, <1>b, <2>1 DEF GetShot, responses
      <4>2. calls[This].responses + 1 \in 0..gHandshakeCount
        BY <4>1, <1>a DEF Call
      <4>3. QED
        BY <4>1, <4>2 DEF Call
    <3>2. calls' = [calls EXCEPT ![This] = call] /\ call.responses = calls[This].responses + 1
      BY <1>b, <2>1, <3>1 DEF Call
    <3>3. Len(calls') = Len(calls) /\ DOMAIN calls' = DOMAIN calls
      BY <1>b, <2>1, <3>2, ExceptSeq
    <3>4. QED
      BY <2>1, <3>2, <3>3 DEF This
  <2>3. AllConfirmed
    BY <2>2 DEF AllConfirmed
  <2>4. /\ \A c \in DOMAIN counted : counted[c].for = counted[c].call
        /\ \A n \in DOMAIN calls : Cardinality(ConfirmedBy(n)) = calls[n].responses
    BY <1>a, <2>3 DEF HonestOK
  <2>a. PICK x : x = handshakes[l][1]
    OBVIOUS
  <2>5. /\ \A c \in DOMAIN counted : c \in DOMAIN counted' /\ counted'[c] = counted[c]
        /\ \A c \in DOMAIN counted' : c \in DOMAIN counted \/ c = Len(counted) + 1
        /\ Len(counted) + 1 \in DOMAIN counted'
        /\ counted'[Len(counted) + 1] = [call |-> This, by |-> l, for |-> x]
        /\ 1 \in DOMAIN handshakes[l]
    <3>1. Len(counted) + 1 \in 1..(Len(counted) + 1)
      BY NumbersFacts DEF Numbers
    <3>2. QED
      BY <1>3, <2>a, <3>1, CountedStep
  <2>6. x \in 1..Len(calls)
    BY <2>a, <2>5, NumbersFacts DEF Numbers
  \* Every call before this one was confirmed by all, l among them, so x is not for it.
  <2>7. \A n : l \in ConfirmedBy(n) => n < x
    <3>1. ASSUME NEW n, l \in ConfirmedBy(n)
          PROVE  n < x
      <4>1. PICK c \in DOMAIN counted : counted[c].for = n /\ counted[c].by = l
        BY <3>1, ConfirmedFacts
      <4>2. BeforeAt(n, l)
        BY <4>1 DEF OrderOK, CountedInOrder
      <4>3. QED
        BY <4>2, <2>a, <2>5 DEF BeforeAt, Before
    <3>2. QED
      BY <3>1
  <2>8. ASSUME NEW n \in DOMAIN calls, n # This
        PROVE  n < x
    <3>1. calls[n].responses = K
      BY <1>a, <2>3, <2>8 DEF AllConfirmed
    <3>2. Cardinality(ConfirmedBy(n)) = Cardinality(Listeners)
      BY <2>4, <3>1
    <3>3. IsFiniteSet(Listeners) /\ ConfirmedBy(n) \in SUBSET Listeners
      BY ConfirmedFacts, Assumptions DEF Assumptions
    <3>4. Listeners = ConfirmedBy(n)
      BY <3>2, <3>3, FS_Subset
    <3>5. QED
      BY <2>7, <3>4
  <2>9. x = This
    <3>1. x \in DOMAIN calls /\ ~(x < x)
      BY <1>b, <2>6
    <3>2. QED
      BY <2>8, <3>1
  <2>10. \A c \in DOMAIN counted' : counted'[c].for = counted'[c].call
    <3>1. counted'[Len(counted) + 1].for = counted'[Len(counted) + 1].call
      BY <2>5, <2>9
    <3>2. QED
      BY <2>4, <2>5, <3>1
  <2>11. ConfirmedBy(This)' = ConfirmedBy(This) \cup {l}
    <3>1. \A k : k \in ConfirmedBy(This)' <=>
                   \E c \in DOMAIN counted' : counted'[c].for = This' /\ counted'[c].by = k
      BY DEF ConfirmedBy
    <3>2. \A k : k \in ConfirmedBy(This) <=>
                   \E c \in DOMAIN counted : counted[c].for = This /\ counted[c].by = k
      BY ConfirmedFacts
    <3>3. counted'[Len(counted) + 1].for = This /\ counted'[Len(counted) + 1].by = l
      BY <2>5, <2>9
    <3>4. QED
      BY <2>2, <2>5, <3>1, <3>2, <3>3
  <2>12. Cardinality(ConfirmedBy(This)') = calls'[This].responses
    <3>1. l \notin ConfirmedBy(This)
      <4>1. ~(This < This)
        BY <1>b
      <4>2. QED
        BY <2>7, <2>9, <4>1
    <3>2. Cardinality(ConfirmedBy(This) \cup {l}) = Cardinality(ConfirmedBy(This)) + 1
      BY <3>1, ConfirmedFacts, FS_AddElement
    <3>3. QED
      BY <2>1, <2>2, <2>4, <2>11, <3>2
  <2>13. ASSUME NEW n \in DOMAIN calls, n # This
         PROVE  Cardinality(ConfirmedBy(n)') = calls'[n].responses
    <3>1. \A k : k \in ConfirmedBy(n)' <=>
                   \E c \in DOMAIN counted' : counted'[c].for = n /\ counted'[c].by = k
      BY DEF ConfirmedBy
    <3>2. \A k : k \in ConfirmedBy(n) <=>
                   \E c \in DOMAIN counted : counted[c].for = n /\ counted[c].by = k
      BY ConfirmedFacts
    <3>3. counted'[Len(counted) + 1].for # n
      BY <2>5, <2>9, <2>13
    <3>4. \A k : k \in ConfirmedBy(n)' <=> k \in ConfirmedBy(n)
      BY <2>5, <3>1, <3>2, <3>3
    <3>5. ConfirmedBy(n)' = ConfirmedBy(n)
      <4>1. PICK A, B : A = ConfirmedBy(n)' /\ B = ConfirmedBy(n)
        OBVIOUS
      <4>2. A \subseteq Listeners /\ B \subseteq Listeners
        <5>1. \A c \in DOMAIN counted' : counted'[c].by \in Listeners
          BY NumbersNext DEF Numbers
        <5>2. QED
          BY <3>1, <4>1, <5>1, ConfirmedFacts
      <4>3. QED
        BY <3>4, <4>1, <4>2
    <3>6. QED
      BY <2>2, <2>4, <2>13, <3>5
  <2>14. QED
    BY <2>2, <2>10, <2>12, <2>13
<1>4. ASSUME NotifyConfirmed \/ NotifyTimesOut
      PROVE  HonestOK'
  <2>1. /\ This \in DOMAIN calls /\ calls' = [calls EXCEPT ![This].status = "returned"]
        /\ counted' = counted
    BY <1>4, CallsFacts DEF NotifyConfirmed, NotifyTimesOut, Return, TypesOK
  <2>2. PICK call \in Call : call = [calls[This] EXCEPT !.status = "returned"]
    BY <1>b, <2>1 DEF Call
  <2>3. calls' = [calls EXCEPT ![This] = call] /\ call.responses = calls[This].responses
    BY <1>b, <2>1, <2>2 DEF Call
  <2>4. Len(calls') = Len(calls) /\ DOMAIN calls' = DOMAIN calls
    BY <1>b, <2>1, <2>3, ExceptSeq
  <2>5. \A n \in DOMAIN calls : calls'[n].responses = calls[n].responses
    BY <2>1, <2>3
  <2>6. QED
    BY <1>1, <2>1, <2>4, <2>5
<1>5. ASSUME CreateNotifier \/ DestroyNotifier \/ UNCHANGED vars
      PROVE  HonestOK'
  <2>1. UNCHANGED <<calls, counted>>
    BY <1>5 DEF CreateNotifier, DestroyNotifier, vars, notifier
  <2>2. QED
    BY <1>1, <2>1
<1>6. ASSUME NEW l \in Listeners, ListenerStep(l)
      PROVE  HonestOK'
  <2>1. UNCHANGED <<calls, counted>>
    BY <1>6 DEF ListenerStep, CreateListener, Subscribe, NotificationReceived, NotificationCrashes,
       SendConfirmation, DestroyListener, notifier
  <2>2. QED
    BY <1>1, <2>1
<1>7. QED
  BY <1>2, <1>3, <1>4, <1>5, <1>6 DEF Next, NotifierStep

-----------------------------------------------------------------------------
(* The inductive invariant *)

IInv == TypesOK /\ OrderOK /\ SeenOK /\ MessagesAreCurrent /\ HonestOK

LEMMA StartsWell == Init => IInv
<1> SUFFICES ASSUME Init PROVE IInv
  OBVIOUS
<1>1. DOMAIN <<>> = {} /\ \A S : <<>> \in Seq(S)
  BY EmptySeq
<1>2. TypesOK
  BY <1>1 DEF Init, TypesOK, NotifierOK, QueuesOK, ListenersOK
<1>3. /\ \A l \in Listeners : handshakes[l] = <<>> /\ inbox[l] = <<>> /\ lpc[l] = "none"
      /\ counted = <<>> /\ calls = <<>>
  BY DEF Init
<1>4. \A l \in Listeners : Ordered(<<>>, {}, <<>>) /\ Middle(l) = {}
  BY <1>1, <1>3 DEF Ordered, Incr, Middle
<1>5. OrderOK
  BY <1>1, <1>3, <1>4 DEF OrderOK, OrderedAt, CountedInOrder
<1>6. SeenOK /\ MessagesAreCurrent /\ HonestOK
  BY <1>1, <1>3 DEF SeenOK, MessagesAreCurrent, HonestOK
<1>7. QED
  BY <1>2, <1>5, <1>6 DEF IInv

LEMMA StepKeepsIInv ==
  ASSUME IInv, [Next]_vars
  PROVE  IInv'
<1>1. TypesOK'
  BY NotifierTypes, QueuesTypes DEF IInv, TypesOK
<1>2. OrderOK' /\ SeenOK' /\ MessagesAreCurrent' /\ HonestOK'
  BY <1>1, StepKeepsOrder, StepKeepsSeen, StepKeepsMessages, StepKeepsHonest DEF IInv
<1>3. QED
  BY <1>1, <1>2 DEF IInv

LEMMA AlwaysIInv == Spec => []IInv
<1>1. IInv /\ [Next]_vars => IInv'
  BY StepKeepsIInv
<1>2. QED
  BY <1>1, StartsWell, PTL DEF Spec

\* Every variable keeps its type, with any number of Listeners and any vectors of messages.
THEOREM TypeCorrect == Spec => []TypeOK
<1>1. IInv => TypeOK
  BY TypeParts DEF IInv, TypesOK
<1>2. QED
  BY <1>1, AlwaysIInv, PTL

\* One notification gets at most one handshake from one Listener, in the order of the
\* notifications.
THEOREM HandshakesAreCountedOnce == Spec => []CountedOnce
<1>1. IInv => CountedOnce
  BY OrderCounts DEF IInv
<1>2. QED
  BY <1>1, AlwaysIInv, PTL

\* With as many Listeners as handshakes are expected, and no Notify that came short, every
\* success is confirmed by all Listeners, each of which handled that notification.
THEOREM SuccessIsHonest == Spec => []HonestWhileComplete
<1>1. IInv => HonestWhileComplete
  BY DEF IInv, HonestOK, SeenOK, HonestWhileComplete
<1>2. QED
  BY <1>1, AlwaysIInv, PTL

\* GetMessages gives out the messages of the notification that is handled, or none.
THEOREM NoStaleMessages == Spec => []MessagesAreCurrent
<1>1. IInv => MessagesAreCurrent
  BY DEF IInv
<1>2. QED
  BY <1>1, AlwaysIInv, PTL
=============================================================================
