-------------------------- MODULE BoomStickProofs --------------------------
(* Proofs about BoomStick, for every value of its constants. *)
EXTENDS BoomStick, SequenceTheorems, TLAPS

\* What CleanOldPendingData leaves behind: the cache within what is pending, no
\* entry it was not given, and after a collection no entry as old as Period.
LEMMA CleanFacts ==
  ASSUME NEW pending, NEW unread, CleanOldPendingData(pending, unread)
  PROVE  /\ DOMAIN mUnreadReplies' \subseteq DOMAIN mPendingReplies'
         /\ DOMAIN mPendingReplies' \subseteq DOMAIN pending
         /\ \A id \in DOMAIN mPendingReplies' :
              /\ mPendingReplies'[id] = pending[id]
              /\ Collecting => ~Expired(pending[id])
         /\ DOMAIN mUnreadReplies' = DOMAIN unread \cap DOMAIN mPendingReplies'
         /\ \A id \in DOMAIN mUnreadReplies' : mUnreadReplies'[id] = unread[id]
         /\ mLastGCTime' = IF Collecting THEN now ELSE mLastGCTime
         /\ forgotten' = forgotten \cup {Latest(id) : id \in DOMAIN pending \ DOMAIN mPendingReplies'}
         /\ \A id \in DOMAIN pending \ DOMAIN mPendingReplies' : Expired(pending[id])
<1> DEFINE old == IF Collecting THEN {id \in DOMAIN pending : Expired(pending[id])} ELSE {}
           kept == DOMAIN pending \ old
<1>1. /\ mPendingReplies' = Only(pending, kept)
      /\ mUnreadReplies' = Only(unread, kept)
      /\ mLastGCTime' = IF Collecting THEN now ELSE mLastGCTime
      /\ forgotten' = forgotten \cup {Latest(id) : id \in old}
  BY DEF CleanOldPendingData
<1>2. DOMAIN mPendingReplies' = kept /\ DOMAIN mUnreadReplies' = DOMAIN unread \cap kept
  BY <1>1 DEF Only
<1>3. /\ \A id \in kept : mPendingReplies'[id] = pending[id]
      /\ \A id \in DOMAIN mUnreadReplies' : mUnreadReplies'[id] = unread[id]
  BY <1>1 DEF Only
<1>4. DOMAIN pending \ DOMAIN mPendingReplies' = old
  BY <1>2
<1>5. forgotten' = forgotten \cup {Latest(id) : id \in DOMAIN pending \ DOMAIN mPendingReplies'}
  BY <1>1, <1>4
<1>6. QED
  BY <1>1, <1>2, <1>3, <1>4, <1>5

-----------------------------------------------------------------------------
(* The cache *)

\* Whatever the server answers and whenever, and whatever is moved or bound again,
\* between two calls the cache holds replies to pending commands only.
THEOREM CacheStaysPending == Spec => []CacheIsPending
<1>1. Init => CacheIsPending
  BY DEF Init, CacheIsPending
<1>2. CacheIsPending /\ [Next]_vars => CacheIsPending'
  <2> SUFFICES ASSUME CacheIsPending, [Next]_vars
               PROVE  CacheIsPending'
    OBVIOUS
  <2> USE DEF CacheIsPending
  <2>1. CASE UNCHANGED vars
    BY <2>1 DEF vars, maps
  <2>2. CASE Initialize
    BY <2>2 DEF Initialize, maps
  <2>3. CASE SetBinding
    BY <2>3 DEF SetBinding, maps
  <2>4. CASE Move \/ Assign
    BY <2>4 DEF Move, Assign
  <2>5. ASSUME NEW id, SendAsync(id) \/ Send(id)
        PROVE  CacheIsPending'
    BY <2>5 DEF SendAsync, Send, Dispatch, Put
  <2>6. ASSUME NEW id, GetReplyFromSocket(id)
        PROVE  CacheIsPending'
    BY <2>6 DEF GetReplyFromSocket
  <2>7. CASE CacheReply
    BY <2>7 DEF CacheReply
  <2>8. CASE Returns
    BY <2>8, CleanFacts DEF Returns, GetAsyncReplyUnconnected, GetReplyFromCache,
                            FoundInSocket, NothingRead, MalformedRead, SearchFails
  <2>9. ASSUME NEW n, Answer(n)
        PROVE  CacheIsPending'
    BY <2>9 DEF Answer, maps
  <2>10. CASE Tick
    BY <2>10 DEF Tick, maps
  <2>11. QED
    BY <2>1, <2>2, <2>3, <2>4, <2>5, <2>6, <2>7, <2>8, <2>9, <2>10 DEF Next
<1>3. QED
  BY <1>1, <1>2, PTL DEF Spec

-----------------------------------------------------------------------------
(* Types *)

\* n is the last command sent under its id.
Newest(n) == \A m \in DOMAIN sent : sent[m] = sent[n] => m <= n

\* What is pending was sent, and what is cached answers a command under its id.
MapsMatch ==
  /\ \A id \in DOMAIN mPendingReplies : \E n \in DOMAIN sent : sent[n] = id /\ Newest(n)
  /\ \A id \in DOMAIN mUnreadReplies : sent[mUnreadReplies[id]] = id

LEMMA LatestIsNewest ==
  ASSUME TypeOK, NEW n \in DOMAIN sent, Newest(n)
  PROVE  Latest(sent[n]) = n
<1>1. DOMAIN sent \subseteq Nat
  BY LenProperties DEF TypeOK
<1> DEFINE Is(k) == k \in DOMAIN sent /\ sent[k] = sent[n] /\ \A m \in DOMAIN sent : sent[m] = sent[n] => m <= k
<1>2. Latest(sent[n]) = CHOOSE k \in DOMAIN sent : sent[k] = sent[n] /\ \A m \in DOMAIN sent : sent[m] = sent[n] => m <= k
  BY DEF Latest
<1>3. Is(n)
  BY DEF Newest
<1>4. Is(Latest(sent[n]))
  BY <1>2, <1>3
<1>5. \A k : Is(k) => k = n
  BY <1>1, <1>3
<1>6. QED
  BY <1>4, <1>5

\* A command that goes with its pending entry.
LEMMA ForgottenIsSent ==
  ASSUME TypeOK, MapsMatch, NEW id \in DOMAIN mPendingReplies
  PROVE  Latest(id) \in DOMAIN sent /\ sent[Latest(id)] = id
BY LatestIsNewest DEF MapsMatch

\* The commands sent before stay the same, and the newest of every other id.
LEMMA SentGrows ==
  ASSUME TypeOK, NEW id \in AllIds, sent' = Append(sent, id)
  PROVE  /\ sent' \in Seq(AllIds) /\ Len(sent') = Len(sent) + 1 /\ Len(sent) \in Nat
         /\ DOMAIN sent = 1..Len(sent) /\ DOMAIN sent' = 1..(Len(sent) + 1)
         /\ \A n \in DOMAIN sent : sent'[n] = sent[n] /\ n \in DOMAIN sent'
         /\ sent'[Len(sent) + 1] = id
BY LenProperties DEF TypeOK

\* The three ways a call ends.
LEMMA WaysToReturn ==
  ASSUME Returns
  PROVE  /\ UNCHANGED <<now, sent, outbox, connected, putOff>> /\ target' = <<>>
         /\ \/ /\ CleanOldPendingData(mPendingReplies, mUnreadReplies)
               /\ UNCHANGED <<read, handed>>
               /\ replies' = replies \/ (replies # <<>> /\ replies' = Tail(replies))
            \/ \E id \in DOMAIN mUnreadReplies :
                 /\ CleanOldPendingData(Without(mPendingReplies, id), Without(mUnreadReplies, id))
                 /\ handed' = Append(handed, mUnreadReplies[id])
                 /\ UNCHANGED <<read, replies>>
            \/ /\ replies # <<>> /\ Head(replies) # Malformed
               /\ CleanOldPendingData(Without(mPendingReplies, sent[Head(replies)]), mUnreadReplies)
               /\ handed' = Append(handed, Head(replies))
               /\ read' = read \cup {Head(replies)}
               /\ replies' = Tail(replies)
<1>1. CASE GetAsyncReplyUnconnected
  BY <1>1 DEF GetAsyncReplyUnconnected, socket
<1>2. ASSUME NEW id, GetReplyFromCache(id)
      PROVE  /\ UNCHANGED <<now, sent, outbox, connected, putOff, target, read, replies>>
             /\ target = <<>> /\ id \in DOMAIN mUnreadReplies
             /\ CleanOldPendingData(Without(mPendingReplies, id), Without(mUnreadReplies, id))
             /\ handed' = Append(handed, mUnreadReplies[id])
  BY <1>2 DEF GetReplyFromCache, socket
<1>3. CASE FoundInSocket
  BY <1>3 DEF FoundInSocket
<1>4. CASE NothingRead
  BY <1>4 DEF NothingRead, SearchFails
<1>5. CASE MalformedRead
  BY <1>5 DEF MalformedRead, SearchFails
<1>6. QED
  BY <1>1, <1>2, <1>3, <1>4, <1>5 DEF Returns

\* The maps that the end of a call leaves have their types and match.
LEMMA CleanTypes ==
  ASSUME TypeOK, MapsMatch, UNCHANGED <<now, sent>>,
         NEW pending, NEW unread, CleanOldPendingData(pending, unread),
         DOMAIN pending \subseteq DOMAIN mPendingReplies,
         \A id \in DOMAIN pending : pending[id] = mPendingReplies[id],
         DOMAIN unread \subseteq DOMAIN mUnreadReplies,
         \A id \in DOMAIN unread : unread[id] = mUnreadReplies[id]
  PROVE  /\ DOMAIN mPendingReplies' \subseteq AllIds
         /\ \A id \in DOMAIN mPendingReplies' : mPendingReplies'[id] \in 0..now'
         /\ DOMAIN mUnreadReplies' \subseteq AllIds
         /\ \A id \in DOMAIN mUnreadReplies' : mUnreadReplies'[id] \in DOMAIN sent'
         /\ mLastGCTime' \in 0..now'
         /\ forgotten' \subseteq DOMAIN sent'
         /\ MapsMatch'
<1>0. /\ DOMAIN mPendingReplies' \subseteq DOMAIN pending
      /\ \A id \in DOMAIN mPendingReplies' : mPendingReplies'[id] = pending[id]
      /\ DOMAIN mUnreadReplies' = DOMAIN unread \cap DOMAIN mPendingReplies'
      /\ \A id \in DOMAIN mUnreadReplies' : mUnreadReplies'[id] = unread[id]
      /\ mLastGCTime' = IF Collecting THEN now ELSE mLastGCTime
  BY CleanFacts
<1>1. /\ DOMAIN mPendingReplies' \subseteq DOMAIN mPendingReplies
      /\ \A id \in DOMAIN mPendingReplies' : mPendingReplies'[id] = mPendingReplies[id]
      /\ DOMAIN mUnreadReplies' \subseteq DOMAIN mUnreadReplies
      /\ \A id \in DOMAIN mUnreadReplies' : mUnreadReplies'[id] = mUnreadReplies[id]
  BY <1>0
<1>2. mLastGCTime' \in 0..now'
  BY <1>0 DEF TypeOK
<1>3. forgotten' \subseteq DOMAIN sent'
  <2>1. \A id \in DOMAIN pending : Latest(id) \in DOMAIN sent
    BY ForgottenIsSent
  <2>2. forgotten' = forgotten \cup {Latest(id) : id \in DOMAIN pending \ DOMAIN mPendingReplies'}
    BY CleanFacts
  <2>3. QED
    BY <2>1, <2>2 DEF TypeOK
<1>4. MapsMatch'
  BY <1>1 DEF MapsMatch, Newest
<1>5. QED
  BY <1>1, <1>2, <1>3, <1>4 DEF TypeOK

\* A call of SendAsync or Send that sends.
LEMMA DispatchTypes ==
  ASSUME TypeOK, MapsMatch, NEW id \in AllIds, Dispatch(id),
         UNCHANGED <<mUnreadReplies, now, replies, handed, read, forgotten>>
  PROVE  /\ DOMAIN mPendingReplies' \subseteq AllIds
         /\ \A i \in DOMAIN mPendingReplies' : mPendingReplies'[i] \in 0..now'
         /\ \A i \in DOMAIN mUnreadReplies' : mUnreadReplies'[i] \in DOMAIN sent'
         /\ outbox' \subseteq DOMAIN sent' /\ sent' \in Seq(AllIds) /\ putOff' \subseteq AllIds
         /\ replies' \in Seq(DOMAIN sent' \cup {Malformed}) /\ handed' \in Seq(DOMAIN sent')
         /\ read' \subseteq DOMAIN sent' /\ forgotten' \subseteq DOMAIN sent'
         /\ MapsMatch'
<1>0. sent' = Append(sent, id) /\ mPendingReplies' = Put(mPendingReplies, id, now)
      /\ outbox' = outbox \cup {Len(sent) + 1} /\ putOff' = putOff \ {id}
  BY DEF Dispatch
<1>1. /\ sent' \in Seq(AllIds) /\ Len(sent) \in Nat
      /\ DOMAIN sent = 1..Len(sent) /\ DOMAIN sent' = 1..(Len(sent) + 1)
      /\ \A n \in DOMAIN sent : sent'[n] = sent[n]
      /\ sent'[Len(sent) + 1] = id
  BY <1>0, SentGrows
<1>2. DOMAIN sent \subseteq DOMAIN sent' /\ Len(sent) + 1 \in DOMAIN sent'
  BY <1>1
<1>3. /\ DOMAIN mPendingReplies' = DOMAIN mPendingReplies \cup {id}
      /\ \A i \in DOMAIN mPendingReplies' :
           mPendingReplies'[i] = IF i = id THEN now ELSE mPendingReplies[i]
  BY <1>0 DEF Put
<1>4. replies' \in Seq(DOMAIN sent' \cup {Malformed}) /\ handed' \in Seq(DOMAIN sent')
  <2> DEFINE A == DOMAIN sent
             B == DOMAIN sent'
             C == A \cup {Malformed}
             D == B \cup {Malformed}
  <2>1. A \subseteq B /\ C \subseteq D /\ replies' \in Seq(C) /\ handed' \in Seq(A)
    BY <1>2 DEF TypeOK
  <2> HIDE DEF A, B, C, D
  <2>2. replies' \in Seq(D) /\ handed' \in Seq(B)
    BY <2>1, SeqMonotonic
  <2>3. QED
    BY <2>2 DEF B, D
<1>5. MapsMatch'
  <2>1. ASSUME NEW i \in DOMAIN mPendingReplies'
        PROVE  \E n \in DOMAIN sent' : sent'[n] = i /\ Newest(n)'
    <3>1. CASE i = id
      <4>1. \A m \in DOMAIN sent' : m <= Len(sent) + 1
        BY <1>1
      <4>2. \A m \in DOMAIN sent' : sent'[m] = sent'[Len(sent) + 1] => m <= Len(sent) + 1
        BY <4>1
      <4>3. QED
        BY <1>1, <1>2, <3>1, <4>2 DEF Newest
    <3>2. CASE i # id
      <4>1. PICK n \in DOMAIN sent : sent[n] = i /\ Newest(n)
        BY <1>3, <3>2 DEF MapsMatch
      <4>2. \A m \in DOMAIN sent' : sent'[m] = i => m \in DOMAIN sent
        BY <1>1, <3>2
      <4>3. Newest(n)'
        BY <1>1, <4>1, <4>2 DEF Newest
      <4>4. QED
        BY <1>1, <1>2, <4>1, <4>3
    <3>3. QED
      BY <3>1, <3>2
  <2>2. \A i \in DOMAIN mUnreadReplies' : sent'[mUnreadReplies'[i]] = i
    BY <1>1 DEF MapsMatch, TypeOK
  <2>3. QED
    BY <2>1, <2>2 DEF MapsMatch
<1>6. now \in 0..now'
  BY DEF TypeOK
<1>7. QED
  BY <1>0, <1>1, <1>2, <1>3, <1>4, <1>5, <1>6 DEF TypeOK

\* A call that ends.
LEMMA ReturnTypes ==
  ASSUME TypeOK, MapsMatch, Returns
  PROVE  TypeOK' /\ MapsMatch'
<1>1. UNCHANGED <<now, sent, outbox, connected, putOff>> /\ target' = <<>>
  BY WaysToReturn
<1>2. replies # <<>> => /\ Head(replies) \in DOMAIN sent \cup {Malformed}
                        /\ Tail(replies) \in Seq(DOMAIN sent \cup {Malformed})
  <2> DEFINE S == DOMAIN sent \cup {Malformed}
  <2>1. replies \in Seq(S)
    BY DEF TypeOK
  <2> HIDE DEF S
  <2>2. replies # <<>> => Head(replies) \in S /\ Tail(replies) \in Seq(S)
    BY <2>1, HeadTailProperties
  <2>3. QED
    BY <2>2 DEF S
<1>3. /\ read' \subseteq DOMAIN sent
      /\ handed' \in Seq(DOMAIN sent)
      /\ replies' \in Seq(DOMAIN sent \cup {Malformed})
  <2> DEFINE S == DOMAIN sent
  <2>1. handed \in Seq(S) /\ read \subseteq S
    BY DEF TypeOK
  <2>2. ASSUME NEW n \in S
        PROVE  Append(handed, n) \in Seq(S)
    <3> HIDE DEF S
    <3>1. QED
      BY <2>1, <2>2
  <2>3. \A id \in DOMAIN mUnreadReplies : mUnreadReplies[id] \in S
    BY DEF TypeOK
  <2>4. CASE UNCHANGED <<read, handed>> /\ (replies' = replies \/ (replies # <<>> /\ replies' = Tail(replies)))
    BY <1>2, <2>1, <2>4 DEF TypeOK
  <2>5. ASSUME NEW id \in DOMAIN mUnreadReplies, handed' = Append(handed, mUnreadReplies[id]),
               UNCHANGED <<read, replies>>
        PROVE  /\ read' \subseteq S
               /\ handed' \in Seq(S)
               /\ replies' \in Seq(S \cup {Malformed})
    BY <2>1, <2>2, <2>3, <2>5 DEF TypeOK
  <2>6. CASE /\ replies # <<>> /\ Head(replies) # Malformed
             /\ handed' = Append(handed, Head(replies))
             /\ read' = read \cup {Head(replies)}
             /\ replies' = Tail(replies)
    BY <1>2, <2>1, <2>2, <2>6
  <2>7. QED
    BY WaysToReturn, <2>4, <2>5, <2>6
<1>4. PICK pending, unread :
        /\ CleanOldPendingData(pending, unread)
        /\ DOMAIN pending \subseteq DOMAIN mPendingReplies
        /\ \A id \in DOMAIN pending : pending[id] = mPendingReplies[id]
        /\ DOMAIN unread \subseteq DOMAIN mUnreadReplies
        /\ \A id \in DOMAIN unread : unread[id] = mUnreadReplies[id]
  <2> DEFINE Less(pending, unread) ==
        /\ DOMAIN pending \subseteq DOMAIN mPendingReplies
        /\ \A id \in DOMAIN pending : pending[id] = mPendingReplies[id]
        /\ DOMAIN unread \subseteq DOMAIN mUnreadReplies
        /\ \A id \in DOMAIN unread : unread[id] = mUnreadReplies[id]
  <2>1. /\ Less(mPendingReplies, mUnreadReplies)
        /\ \A id : /\ Less(Without(mPendingReplies, id), mUnreadReplies)
                   /\ Less(Without(mPendingReplies, id), Without(mUnreadReplies, id))
    BY DEF Without
  <2> HIDE DEF Less
  <2>2. \E pending, unread : CleanOldPendingData(pending, unread) /\ Less(pending, unread)
    BY <2>1, WaysToReturn
  <2>3. QED
    BY <2>2 DEF Less
<1>5. QED
  BY <1>1, <1>3, <1>4, CleanTypes DEF TypeOK

LEMMA StepKeepsTypes == TypeOK /\ MapsMatch /\ [Next]_vars => TypeOK' /\ MapsMatch'
<1> SUFFICES ASSUME TypeOK, MapsMatch, [Next]_vars PROVE TypeOK' /\ MapsMatch'
  OBVIOUS
<1> DEFINE Kept == UNCHANGED <<maps, sent>>
<1>0. Kept => MapsMatch'
  BY DEF MapsMatch, Newest, maps
<1>1. CASE UNCHANGED vars
  BY <1>0, <1>1 DEF vars, maps, socket, history, TypeOK
<1>2. CASE Initialize
  BY <1>0, <1>2 DEF Initialize, maps, history, TypeOK
<1>3. CASE SetBinding
  <2>1. replies' \in Seq(DOMAIN sent' \cup {Malformed}) /\ outbox' = {}
    BY <1>3, EmptySeq DEF SetBinding
  <2>2. QED
    BY <1>0, <1>3, <2>1 DEF SetBinding, maps, history, TypeOK
<1>4. CASE Move
  <2>1. \A id \in DOMAIN mPendingReplies : Latest(id) \in DOMAIN sent
    BY ForgottenIsSent
  <2>2. MapsMatch'
    BY <1>4 DEF Move, MapsMatch
  <2>3. QED
    BY <1>4, <2>1, <2>2 DEF Move, TypeOK, socket
<1>5. CASE Assign
  <2>1. MapsMatch'
    BY <1>5 DEF Assign, MapsMatch, Newest
  <2>2. replies' \in Seq(DOMAIN sent' \cup {Malformed}) /\ outbox' = {}
    BY <1>5, EmptySeq DEF Assign
  <2>3. mLastGCTime' \in 0..now'
    BY <1>5 DEF Assign, TypeOK
  <2>4. QED
    BY <1>5, <2>1, <2>2, <2>3 DEF Assign, TypeOK
<1>6. ASSUME NEW id \in AllIds, SendAsync(id) \/ Send(id)
      PROVE  TypeOK' /\ MapsMatch'
  <2>1. /\ Dispatch(id)
        /\ UNCHANGED <<mUnreadReplies, mLastGCTime, now, connected, replies, read, handed, forgotten>>
        /\ target' = target \/ target' = <<id>>
    BY <1>6 DEF SendAsync, Send
  <2>2. QED
    BY <2>1, DispatchTypes DEF TypeOK
<1>7. ASSUME NEW id \in Ids, GetReplyFromSocket(id)
      PROVE  TypeOK' /\ MapsMatch'
  BY <1>0, <1>7 DEF GetReplyFromSocket, maps, socket, history, TypeOK, AllIds
<1>8. CASE CacheReply
  <2> DEFINE n == Head(replies)
             S == DOMAIN sent \cup {Malformed}
  <2>1. replies \in Seq(S) /\ replies # <<>>
    BY <1>8 DEF CacheReply, TypeOK
  <2>2. n \in S /\ Tail(replies) \in Seq(S)
    <3> HIDE DEF S
    <3>1. QED
      BY <2>1, HeadTailProperties
  <2>3. n \in DOMAIN sent /\ sent[n] \in AllIds
    <3>1. n \in DOMAIN sent
      BY <1>8, <2>2 DEF CacheReply
    <3>2. QED
      BY <3>1, LenProperties, ElementOfSeq DEF TypeOK
  <2> HIDE DEF n
  <2>4. mUnreadReplies' = Put(mUnreadReplies, sent[n], n) /\ replies' = Tail(replies)
        /\ read' = read \cup {n}
    BY <1>8 DEF CacheReply, n
  <2>5. /\ DOMAIN mUnreadReplies' = DOMAIN mUnreadReplies \cup {sent[n]}
        /\ \A id \in DOMAIN mUnreadReplies' :
             mUnreadReplies'[id] = IF id = sent[n] THEN n ELSE mUnreadReplies[id]
    BY <2>4 DEF Put
  <2>6. MapsMatch'
    BY <1>8, <2>5 DEF CacheReply, MapsMatch, Newest
  <2>7. QED
    BY <1>8, <2>2, <2>3, <2>4, <2>5, <2>6 DEF CacheReply, TypeOK
<1>9. CASE Returns
  BY <1>9, ReturnTypes
<1>10. ASSUME NEW n, Answer(n)
       PROVE  TypeOK' /\ MapsMatch'
  <2> DEFINE S == DOMAIN sent \cup {Malformed}
  <2>1. replies \in Seq(S) /\ n \in S
    BY <1>10 DEF Answer, TypeOK
  <2>2. PICK reply \in S : replies' = Append(replies, reply)
    BY <1>10, <2>1 DEF Answer
  <2>3. replies' \in Seq(S)
    <3> HIDE DEF S
    <3>1. QED
      BY <2>1, <2>2
  <2>4. QED
    BY <1>0, <1>10, <2>3 DEF Answer, TypeOK, maps, history
<1>11. CASE Tick
  BY <1>0, <1>11 DEF Tick, TypeOK, maps, socket, history
<1>12. QED
  BY <1>1, <1>2, <1>3, <1>4, <1>5, <1>6, <1>7, <1>8, <1>9, <1>10, <1>11 DEF Next, AllIds

LEMMA InitTypes == Init => TypeOK /\ MapsMatch
<1>1. ASSUME Init
      PROVE  /\ sent \in Seq(AllIds) /\ handed \in Seq(DOMAIN sent)
             /\ replies \in Seq(DOMAIN sent \cup {Malformed})
             /\ DOMAIN mPendingReplies = {} /\ DOMAIN mUnreadReplies = {}
  BY <1>1, EmptySeq DEF Init
<1>2. ASSUME Init
      PROVE  TypeOK
  <2>1. /\ connected = FALSE /\ target = <<>> /\ now = 0 /\ mLastGCTime = 0
        /\ outbox = {} /\ read = {} /\ forgotten = {} /\ putOff = {}
    BY <1>2 DEF Init
  <2>2. /\ sent \in Seq(AllIds) /\ handed \in Seq(DOMAIN sent)
        /\ replies \in Seq(DOMAIN sent \cup {Malformed})
        /\ DOMAIN mPendingReplies = {} /\ DOMAIN mUnreadReplies = {}
    BY <1>1, <1>2
  <2>3. mLastGCTime \in 0..now /\ now \in Nat
    BY <2>1
  <2>4. QED
    BY <2>1, <2>2, <2>3, Zenon DEF TypeOK
<1>3. Init => MapsMatch
  BY <1>1 DEF MapsMatch
<1>4. QED
  BY <1>2, <1>3

\* The type invariant, for any ids, any Period and any water mark.
THEOREM TypeCorrect == Spec => []TypeOK
<1>1. Spec => [](TypeOK /\ MapsMatch)
  BY InitTypes, StepKeepsTypes, PTL DEF Spec
<1>2. QED
  BY <1>1, PTL

-----------------------------------------------------------------------------
(* Replies *)

\* A reply is in one place on its way, read once, and in the cache only until it is
\* handed out.
RepliesOnce ==
  /\ \A i, j \in DOMAIN replies : replies[i] = replies[j] /\ replies[i] # Malformed => i = j
  /\ \A i \in DOMAIN replies : replies[i] \notin outbox \cup read
  /\ outbox \cap read = {}
  /\ Range(handed) \subseteq read
  /\ \A id \in DOMAIN mUnreadReplies : mUnreadReplies[id] \in read \ Range(handed)

\* What became of a command, as far as the caller can know.
Told(n) ==
  \/ n \in Range(handed)
  \/ sent[n] \in ForgottenIds
  \/ sent[n] \in DOMAIN mPendingReplies /\ Newest(n)

CommandsTold == \A n \in DOMAIN sent : Told(n)

IInv == TypeOK /\ MapsMatch /\ RepliesOnce /\ CommandsTold /\ NoReplyDropped

LEMMA RangeAppend ==
  ASSUME NEW S, NEW s \in Seq(S), NEW x \in S
  PROVE  Range(Append(s, x)) = Range(s) \cup {x}
<1>1. /\ DOMAIN s = 1..Len(s) /\ Len(s) \in Nat
      /\ DOMAIN Append(s, x) = 1..(Len(s) + 1)
      /\ \A i \in 1..(Len(s) + 1) : Append(s, x)[i] = IF i <= Len(s) THEN s[i] ELSE x
  BY LenProperties
<1>2. QED
  BY <1>1 DEF Range

\* The reply at the head of the socket, and those behind it.
LEMMA HeadReply ==
  ASSUME IInv, replies # <<>>
  PROVE  /\ Head(replies) \in DOMAIN sent \cup {Malformed}
         /\ Head(replies) \notin outbox \cup read
         /\ \A i \in DOMAIN Tail(replies) :
              /\ Tail(replies)[i] \notin outbox \cup read
              /\ Head(replies) # Malformed => Tail(replies)[i] # Head(replies)
         /\ \A i, j \in DOMAIN Tail(replies) :
              Tail(replies)[i] = Tail(replies)[j] /\ Tail(replies)[i] # Malformed => i = j
<1> DEFINE S == DOMAIN sent \cup {Malformed}
           t == Tail(replies)
<1>1. replies \in Seq(S)
  BY DEF IInv, TypeOK
<1>2. /\ DOMAIN replies = 1..Len(replies) /\ Len(replies) \in Nat /\ Len(replies) > 0
      /\ DOMAIN t = 1..(Len(replies) - 1)
      /\ \A i \in DOMAIN t : t[i] = replies[i + 1]
      /\ Head(replies) = replies[1] /\ replies[1] \in S
  <2> HIDE DEF S
  <2>1. t \in Seq(S) /\ Len(t) = Len(replies) - 1 /\ \A i \in 1..Len(t) : t[i] = replies[i + 1]
    BY <1>1, HeadTailProperties
  <2>2. Head(replies) = replies[1] /\ Len(replies) \in Nat /\ Len(replies) > 0
    BY <1>1, EmptySeq
  <2>3. QED
    BY <1>1, <2>1, <2>2, LenProperties, ElementOfSeq
<1> HIDE DEF t, S
<1>3. \A i \in DOMAIN t : i + 1 \in DOMAIN replies /\ i + 1 # 1
  BY <1>2
<1>4. 1 \in DOMAIN replies
  BY <1>2
<1>5. \A i \in DOMAIN t : t[i] \notin outbox \cup read /\ (Head(replies) # Malformed => t[i] # Head(replies))
  BY <1>2, <1>3, <1>4 DEF IInv, RepliesOnce
<1>6. ASSUME NEW i \in DOMAIN t, NEW j \in DOMAIN t, t[i] = t[j], t[i] # Malformed
      PROVE  i = j
  <2>1. i + 1 = j + 1
    BY <1>2, <1>3, <1>6 DEF IInv, RepliesOnce
  <2>2. i \in Int /\ j \in Int
    BY <1>2
  <2>3. QED
    BY <2>1, <2>2
<1>7. QED
  BY <1>2, <1>4, <1>5, <1>6 DEF t, S, IInv, RepliesOnce

\* Two commands under one id, none of them answered: the id was forgotten.
LEMMA TwiceIsForgotten ==
  ASSUME TypeOK, CommandsTold, NEW m \in DOMAIN sent, NEW n \in DOMAIN sent,
         sent[m] = sent[n], m # n, m \notin Range(handed), n \notin Range(handed)
  PROVE  sent[n] \in ForgottenIds
<1>1. m \in Nat /\ n \in Nat
  BY LenProperties DEF TypeOK
<1>2. (Newest(m) /\ Newest(n)) => m = n
  BY <1>1 DEF Newest
<1>3. QED
  BY <1>2 DEF CommandsTold, Told

\* The end of a call that hands out H, one reply or none, and cleans what is left in
\* the maps.
EndsWith(pending, unread, H) ==
  /\ CleanOldPendingData(pending, unread)
  /\ sent' = sent
  /\ H \subseteq DOMAIN sent /\ H \cap Range(handed) = {}
  /\ Range(handed') = Range(handed) \cup H
  /\ read \subseteq read' /\ H \subseteq read' /\ read' \subseteq read \cup H
  /\ DOMAIN pending \subseteq DOMAIN mPendingReplies
  /\ \A id \in DOMAIN mPendingReplies \ DOMAIN pending : \E n \in H : sent[n] = id
  /\ DOMAIN unread \subseteq DOMAIN mUnreadReplies
  /\ \A id \in DOMAIN mUnreadReplies \ DOMAIN unread : mUnreadReplies[id] \in H
  /\ \A id \in DOMAIN unread : unread[id] = mUnreadReplies[id] /\ unread[id] \notin H

LEMMA EndOfCall ==
  ASSUME IInv, MapsMatch', NEW pending, NEW unread, NEW H, EndsWith(pending, unread, H)
  PROVE  /\ CommandsTold' /\ NoReplyDropped'
         /\ \A id \in DOMAIN mUnreadReplies' : mUnreadReplies'[id] \in read' \ Range(handed')
<1> USE DEF IInv, EndsWith
<1>0. /\ DOMAIN mPendingReplies' \subseteq DOMAIN pending
      /\ DOMAIN mUnreadReplies' = DOMAIN unread \cap DOMAIN mPendingReplies'
      /\ \A id \in DOMAIN mUnreadReplies' : mUnreadReplies'[id] = unread[id]
      /\ forgotten' = forgotten \cup {Latest(id) : id \in DOMAIN pending \ DOMAIN mPendingReplies'}
  BY CleanFacts
<1>1. /\ ForgottenIds \subseteq ForgottenIds'
      /\ \A m \in forgotten' : sent[m] \in ForgottenIds'
  BY <1>0 DEF ForgottenIds
<1>2. ASSUME NEW m \in DOMAIN sent
      PROVE  Told(m)'
  <2>1. CASE m \in Range(handed)
    BY <2>1 DEF Told
  <2>2. CASE sent[m] \in ForgottenIds
    BY <1>1, <2>2 DEF Told
  <2>3. CASE sent[m] \in DOMAIN mPendingReplies /\ Newest(m) /\ m \notin Range(handed)
    <3>1. CASE sent[m] \in DOMAIN mPendingReplies'
      BY <2>3, <3>1 DEF Told, Newest
    <3>2. CASE sent[m] \in DOMAIN pending \ DOMAIN mPendingReplies'
      <4>1. Latest(sent[m]) = m
        BY <2>3, LatestIsNewest
      <4>2. m \in forgotten'
        BY <1>0, <3>2, <4>1
      <4>3. QED
        BY <1>1, <4>2 DEF Told
    <3>3. CASE sent[m] \notin DOMAIN pending
      <4>1. PICK n \in H : sent[n] = sent[m]
        BY <2>3, <3>3
      <4>2. CASE n = m
        BY <4>1, <4>2 DEF Told
      <4>3. CASE n # m
        BY <1>1, <2>3, <4>1, <4>3, TwiceIsForgotten DEF Told
      <4>4. QED
        BY <4>2, <4>3
    <3>4. QED
      BY <3>1, <3>2, <3>3
  <2>4. QED
    BY <2>1, <2>2, <2>3 DEF CommandsTold, Told
<1>3. ASSUME NEW n \in read', n \notin Range(handed')
      PROVE  n \in Range(mUnreadReplies') \/ sent[n] \in ForgottenIds'
  <2>1. n \in read /\ n \notin Range(handed) /\ n \notin H
    BY <1>3
  <2>2. CASE sent[n] \in ForgottenIds
    BY <1>1, <2>2
  <2>3. ASSUME NEW id \in DOMAIN mUnreadReplies, mUnreadReplies[id] = n
        PROVE  n \in Range(mUnreadReplies') \/ sent[n] \in ForgottenIds'
    <3>1. id \in DOMAIN unread /\ unread[id] = n /\ sent[n] = id
      BY <2>1, <2>3 DEF MapsMatch
    <3>2. CASE id \in DOMAIN mUnreadReplies'
      BY <1>0, <3>1, <3>2 DEF Range
    <3>3. CASE id \notin DOMAIN mPendingReplies'
      <4>1. n \in DOMAIN sent
        BY <2>3 DEF TypeOK
      <4>2. QED
        BY <1>2, <1>3, <3>1, <3>3, <4>1 DEF Told
    <3>4. QED
      BY <1>0, <3>1, <3>2, <3>3
  <2>4. QED
    BY <2>1, <2>2, <2>3 DEF NoReplyDropped, Range
<1>4. ASSUME NEW id \in DOMAIN mUnreadReplies'
      PROVE  mUnreadReplies'[id] \in read' \ Range(handed')
  <2>1. id \in DOMAIN unread /\ mUnreadReplies'[id] = mUnreadReplies[id] /\ mUnreadReplies[id] \notin H
    BY <1>0
  <2>2. mUnreadReplies[id] \in read \ Range(handed)
    BY <2>1 DEF RepliesOnce
  <2>3. QED
    BY <2>1, <2>2
<1>5. CommandsTold'
  BY <1>2 DEF CommandsTold
<1>6. NoReplyDropped'
  BY <1>3 DEF NoReplyDropped
<1>7. QED
  BY <1>4, <1>5, <1>6

\* The ways a call ends keep replies and commands in order.
LEMMA ReturnReplies ==
  ASSUME IInv, Returns, MapsMatch'
  PROVE  RepliesOnce' /\ CommandsTold' /\ NoReplyDropped'
<1> DEFINE Goal == RepliesOnce' /\ CommandsTold' /\ NoReplyDropped'
<1>0. UNCHANGED <<sent, outbox>> /\ handed \in Seq(DOMAIN sent)
  BY WaysToReturn DEF IInv, TypeOK
<1>1. CASE /\ CleanOldPendingData(mPendingReplies, mUnreadReplies)
           /\ UNCHANGED <<read, handed>>
           /\ replies' = replies \/ (replies # <<>> /\ replies' = Tail(replies))
  <2>1. EndsWith(mPendingReplies, mUnreadReplies, {})
    BY <1>0, <1>1 DEF EndsWith
  <2>2. /\ CommandsTold' /\ NoReplyDropped'
        /\ \A id \in DOMAIN mUnreadReplies' : mUnreadReplies'[id] \in read' \ Range(handed')
    BY <2>1, EndOfCall
  <2>3. QED
    BY <1>0, <1>1, <2>2, HeadReply DEF IInv, RepliesOnce
<1>2. ASSUME NEW id \in DOMAIN mUnreadReplies,
             CleanOldPendingData(Without(mPendingReplies, id), Without(mUnreadReplies, id)),
             handed' = Append(handed, mUnreadReplies[id]),
             UNCHANGED <<read, replies>>
      PROVE  Goal
  <2> DEFINE n == mUnreadReplies[id]
             pending == Without(mPendingReplies, id)
             unread == Without(mUnreadReplies, id)
  <2>1. n \in DOMAIN sent /\ sent[n] = id /\ n \in read /\ n \notin Range(handed)
    BY DEF IInv, TypeOK, MapsMatch, RepliesOnce
  <2>2. Range(handed') = Range(handed) \cup {n}
    BY <1>0, <1>2, <2>1, RangeAppend
  <2>3. /\ DOMAIN pending = DOMAIN mPendingReplies \ {id}
        /\ DOMAIN unread = DOMAIN mUnreadReplies \ {id}
        /\ \A i \in DOMAIN unread : unread[i] = mUnreadReplies[i]
    BY DEF Without
  <2>4. \A i \in DOMAIN unread : sent[mUnreadReplies[i]] = i
    BY <2>3 DEF IInv, MapsMatch
  <2>5. CleanOldPendingData(pending, unread)
    BY <1>2
  <2> HIDE DEF pending, unread, n
  <2>6. \A i \in DOMAIN unread : unread[i] # n
    BY <2>1, <2>3, <2>4
  <2>7. \A i \in DOMAIN mUnreadReplies \ DOMAIN unread : mUnreadReplies[i] \in {n}
    BY <2>3 DEF n
  <2>8. /\ CommandsTold' /\ NoReplyDropped'
        /\ \A i \in DOMAIN mUnreadReplies' : mUnreadReplies'[i] \in read' \ Range(handed')
    <3>1. {n} \in SUBSET DOMAIN sent /\ {n} \cap Range(handed) = {}
      BY <2>1
    <3>2. read \subseteq read' /\ {n} \subseteq read' /\ read' \subseteq read \cup {n}
      BY <1>2, <2>1
    <3>3. \A i \in DOMAIN mPendingReplies \ DOMAIN pending : \E m \in {n} : sent[m] = i
      BY <2>1, <2>3
    <3>4. EndsWith(pending, unread, {n})
      BY <1>0, <2>2, <2>3, <2>5, <2>6, <2>7, <3>1, <3>2, <3>3 DEF EndsWith
    <3>5. QED
      BY <3>4, EndOfCall
  <2>9. QED
    BY <1>0, <1>2, <2>1, <2>2, <2>8 DEF IInv, RepliesOnce
<1>3. CASE /\ replies # <<>> /\ Head(replies) # Malformed
           /\ CleanOldPendingData(Without(mPendingReplies, sent[Head(replies)]), mUnreadReplies)
           /\ handed' = Append(handed, Head(replies))
           /\ read' = read \cup {Head(replies)}
           /\ replies' = Tail(replies)
  <2> DEFINE n == Head(replies)
             pending == Without(mPendingReplies, sent[n])
  <2>1. /\ n \in DOMAIN sent /\ n \notin read /\ n \notin outbox
        /\ \A i \in DOMAIN Tail(replies) : Tail(replies)[i] \notin outbox \cup read /\ Tail(replies)[i] # n
        /\ \A i, j \in DOMAIN Tail(replies) :
              Tail(replies)[i] = Tail(replies)[j] /\ Tail(replies)[i] # Malformed => i = j
    BY <1>3, HeadReply
  <2>2. DOMAIN pending = DOMAIN mPendingReplies \ {sent[n]}
    BY DEF Without
  <2>3. CleanOldPendingData(pending, mUnreadReplies)
    BY <1>3
  <2>4. Range(handed) \subseteq read /\ \A i \in DOMAIN mUnreadReplies : mUnreadReplies[i] \in read
    BY DEF IInv, RepliesOnce
  <2> HIDE DEF n, pending
  <2>5. handed' = Append(handed, n) /\ read' = read \cup {n} /\ replies' = Tail(replies)
    BY <1>3 DEF n
  <2>6. Range(handed') = Range(handed) \cup {n}
    BY <1>0, <2>1, <2>5, RangeAppend
  <2>7. /\ CommandsTold' /\ NoReplyDropped'
        /\ \A i \in DOMAIN mUnreadReplies' : mUnreadReplies'[i] \in read' \ Range(handed')
    <3>1. {n} \in SUBSET DOMAIN sent /\ {n} \cap Range(handed) = {}
      BY <2>1, <2>4
    <3>2. read \subseteq read' /\ {n} \subseteq read' /\ read' \subseteq read \cup {n}
      BY <2>5
    <3>3. \A i \in DOMAIN mPendingReplies \ DOMAIN pending : \E m \in {n} : sent[m] = i
      BY <2>2
    <3>4. \A i \in DOMAIN mUnreadReplies : mUnreadReplies[i] \notin {n}
      BY <2>1, <2>4
    <3>5. EndsWith(pending, mUnreadReplies, {n})
      BY <1>0, <2>2, <2>3, <2>6, <3>1, <3>2, <3>3, <3>4 DEF EndsWith
    <3>6. QED
      BY <3>5, EndOfCall
  <2>8. QED
    BY <1>0, <2>1, <2>4, <2>5, <2>6, <2>7 DEF IInv, RepliesOnce
<1>4. QED
  BY WaysToReturn, <1>1, <1>2, <1>3

\* Sending a command: it is told to wait, and those before it under its id have been
\* answered or forgotten.
LEMMA DispatchReplies ==
  ASSUME IInv, TypeOK', NEW id \in AllIds, Dispatch(id),
         UNCHANGED <<mUnreadReplies, replies, read, handed, forgotten>>
  PROVE  RepliesOnce' /\ CommandsTold' /\ NoReplyDropped'
<1>a. PICK new : new = Len(sent) + 1
  OBVIOUS
<1>0. sent' = Append(sent, id) /\ mPendingReplies' = Put(mPendingReplies, id, now)
      /\ outbox' = outbox \cup {new} /\ id \notin DOMAIN mPendingReplies
  BY <1>a DEF Dispatch
<1>1. /\ Len(sent) \in Nat /\ DOMAIN sent = 1..Len(sent) /\ DOMAIN sent' = 1..new
      /\ \A n \in DOMAIN sent : sent'[n] = sent[n]
      /\ sent'[new] = id
  BY <1>0, <1>a, SentGrows DEF IInv
<1>2. new \notin DOMAIN sent /\ new # Malformed /\ new \in DOMAIN sent' /\ DOMAIN sent \subseteq DOMAIN sent'
      /\ \A n \in DOMAIN sent' : n \in DOMAIN sent \/ n = new
  BY <1>1, <1>a DEF Malformed
<1>3. \A i \in DOMAIN replies : replies[i] \in DOMAIN sent \cup {Malformed}
  <2> DEFINE S == DOMAIN sent \cup {Malformed}
  <2>1. replies \in Seq(S)
    BY DEF IInv, TypeOK
  <2> HIDE DEF S
  <2>2. \A i \in DOMAIN replies : replies[i] \in S
    BY <2>1, LenProperties, ElementOfSeq
  <2>3. QED
    BY <2>2 DEF S
<1>4. RepliesOnce'
  <2>1. read \subseteq DOMAIN sent
    BY DEF IInv, TypeOK
  <2>2. \A i \in DOMAIN replies : replies[i] # new
    BY <1>2, <1>3
  <2>3. QED
    BY <1>0, <1>2, <2>1, <2>2 DEF IInv, RepliesOnce
<1>5. ForgottenIds \subseteq ForgottenIds'
  BY <1>1 DEF ForgottenIds, IInv, TypeOK
<1>6. DOMAIN mPendingReplies' = DOMAIN mPendingReplies \cup {id}
  BY <1>0 DEF Put
<1>7. Told(new)'
  <2>1. \A m \in DOMAIN sent' : m <= new
    BY <1>1, <1>a
  <2>2. Newest(new)'
    BY <1>1, <2>1 DEF Newest
  <2>3. QED
    BY <1>1, <1>6, <2>2 DEF Told
<1>8. ASSUME NEW n \in DOMAIN sent
      PROVE  Told(n)'
  <2>1. CASE n \in Range(handed)
    BY <2>1 DEF Told
  <2>2. CASE sent[n] \in ForgottenIds
    BY <1>1, <1>5, <2>2 DEF Told
  <2>3. CASE sent[n] \in DOMAIN mPendingReplies /\ Newest(n)
    <3>1. sent'[n] # sent'[new] /\ sent'[n] = sent[n]
      BY <1>0, <1>1, <2>3
    <3>2. Newest(n)'
      BY <1>1, <1>2, <2>3, <3>1 DEF Newest
    <3>3. QED
      BY <1>6, <2>3, <3>1, <3>2 DEF Told
  <2>4. QED
    BY <2>1, <2>2, <2>3 DEF IInv, CommandsTold, Told
<1>9. CommandsTold'
  BY <1>2, <1>7, <1>8 DEF CommandsTold
<1>10. NoReplyDropped'
  BY <1>1, <1>5 DEF IInv, TypeOK, NoReplyDropped
<1>11. QED
  BY <1>4, <1>9, <1>10

\* Another reply than the one looked for goes into the cache.  If it takes the place of
\* one for the same id, two commands were pending under it: it was forgotten.
LEMMA CacheReplies ==
  ASSUME IInv, CacheReply
  PROVE  RepliesOnce' /\ CommandsTold' /\ NoReplyDropped'
<1> DEFINE n == Head(replies)
<1>1. /\ n \in DOMAIN sent /\ n \notin read /\ n \notin outbox
      /\ \A i \in DOMAIN Tail(replies) : Tail(replies)[i] \notin outbox \cup read /\ Tail(replies)[i] # n
      /\ \A i, j \in DOMAIN Tail(replies) :
            Tail(replies)[i] = Tail(replies)[j] /\ Tail(replies)[i] # Malformed => i = j
  BY HeadReply DEF CacheReply
<1>2. /\ replies' = Tail(replies) /\ read' = read \cup {n}
      /\ mUnreadReplies' = Put(mUnreadReplies, sent[n], n)
      /\ UNCHANGED <<mPendingReplies, outbox, sent, handed, forgotten>>
  BY DEF CacheReply
<1>3. Range(handed) \subseteq read
  BY DEF IInv, RepliesOnce
<1> HIDE DEF n
<1>4. /\ DOMAIN mUnreadReplies' = DOMAIN mUnreadReplies \cup {sent[n]}
      /\ \A id \in DOMAIN mUnreadReplies' :
           mUnreadReplies'[id] = IF id = sent[n] THEN n ELSE mUnreadReplies[id]
  BY <1>2 DEF Put
<1>5. \A id \in DOMAIN mUnreadReplies' : mUnreadReplies'[id] \in read' \ Range(handed')
  BY <1>1, <1>2, <1>3, <1>4 DEF IInv, RepliesOnce
<1>6. RepliesOnce'
  BY <1>1, <1>2, <1>3, <1>5 DEF IInv, RepliesOnce
<1>7. CommandsTold'
  BY <1>2 DEF IInv, CommandsTold, Told, Newest, ForgottenIds
<1>8. ASSUME NEW m \in read', m \notin Range(handed)
      PROVE  m \in Range(mUnreadReplies') \/ sent[m] \in ForgottenIds
  <2>1. CASE m = n
    BY <1>4, <2>1 DEF Range
  <2>2. ASSUME NEW id \in DOMAIN mUnreadReplies, mUnreadReplies[id] = m, m # n
        PROVE  m \in Range(mUnreadReplies') \/ sent[m] \in ForgottenIds
    <3>1. m \in DOMAIN sent /\ sent[m] = id
      BY <2>2 DEF IInv, TypeOK, MapsMatch
    <3>2. CASE id # sent[n]
      BY <1>4, <2>2, <3>2 DEF Range
    <3>3. CASE id = sent[n]
      BY <1>1, <1>3, <1>8, <2>2, <3>1, <3>3, TwiceIsForgotten DEF IInv
    <3>4. QED
      BY <3>2, <3>3
  <2>3. CASE m # n /\ m \notin Range(mUnreadReplies)
    BY <1>2, <1>8, <2>3 DEF IInv, NoReplyDropped
  <2>4. QED
    BY <2>1, <2>2, <2>3 DEF Range
<1>9. NoReplyDropped'
  BY <1>2, <1>8 DEF NoReplyDropped, ForgottenIds
<1>10. QED
  BY <1>6, <1>7, <1>9

\* The server answers, or with something malformed.
LEMMA AnswerReplies ==
  ASSUME IInv, NEW n, Answer(n)
  PROVE  RepliesOnce' /\ CommandsTold' /\ NoReplyDropped'
<1>1. PICK reply \in {n, Malformed} : replies' = Append(replies, reply)
  BY DEF Answer
<1>2. n \in outbox /\ outbox' = outbox \ {n}
      /\ UNCHANGED <<mPendingReplies, mUnreadReplies, sent, read, handed, forgotten>>
  BY DEF Answer, maps, history
<1>3. n \in DOMAIN sent /\ n \notin read /\ Malformed \notin DOMAIN sent
  BY <1>2, LenProperties DEF IInv, TypeOK, RepliesOnce, Malformed
<1>4. /\ DOMAIN replies = 1..Len(replies) /\ Len(replies) \in Nat
      /\ DOMAIN replies' = 1..(Len(replies) + 1)
      /\ \A i \in DOMAIN replies' : replies'[i] = IF i <= Len(replies) THEN replies[i] ELSE reply
  <2> DEFINE S == DOMAIN sent \cup {Malformed}
  <2>1. replies \in Seq(S) /\ reply \in S
    BY <1>3 DEF IInv, TypeOK
  <2> HIDE DEF S
  <2>2. QED
    BY <1>1, <2>1, LenProperties
<1>5. \A i \in DOMAIN replies : replies[i] # n
  BY <1>2 DEF IInv, RepliesOnce
<1>6. Malformed \notin outbox' \cup read'
  BY <1>2, <1>3 DEF IInv, TypeOK
<1>7. \A i \in DOMAIN replies' : replies'[i] \notin outbox' \cup read'
  BY <1>2, <1>3, <1>4, <1>6 DEF IInv, RepliesOnce
<1>8. ASSUME NEW i \in DOMAIN replies', NEW j \in DOMAIN replies',
             replies'[i] = replies'[j], replies'[i] # Malformed
      PROVE  i = j
  <2>1. CASE i \in DOMAIN replies /\ j \in DOMAIN replies
    BY <1>4, <1>8, <2>1 DEF IInv, RepliesOnce
  <2>2. CASE i \notin DOMAIN replies /\ j \notin DOMAIN replies
    BY <1>4, <2>2
  <2>3. CASE i \in DOMAIN replies /\ j \notin DOMAIN replies
    BY <1>4, <1>5, <1>8, <2>3
  <2>4. CASE i \notin DOMAIN replies /\ j \in DOMAIN replies
    BY <1>4, <1>5, <1>8, <2>4
  <2>5. QED
    BY <2>1, <2>2, <2>3, <2>4
<1>9. RepliesOnce'
  BY <1>2, <1>7, <1>8 DEF IInv, RepliesOnce
<1>10. CommandsTold' /\ NoReplyDropped'
  BY <1>2 DEF IInv, CommandsTold, NoReplyDropped, Told, Newest, ForgottenIds
<1>11. QED
  BY <1>9, <1>10

\* The maps of a stick that is moved are gone: what was pending is forgotten.
LEMMA MoveReplies ==
  ASSUME IInv, Move
  PROVE  RepliesOnce' /\ CommandsTold' /\ NoReplyDropped'
<1>1. /\ DOMAIN mUnreadReplies' = {} /\ UNCHANGED <<outbox, replies, sent, read, handed>>
      /\ forgotten' = forgotten \cup {Latest(id) : id \in DOMAIN mPendingReplies}
  BY DEF Move, socket
<1>2. ForgottenIds \subseteq ForgottenIds' /\ \A n \in forgotten' : sent[n] \in ForgottenIds'
  BY <1>1 DEF ForgottenIds
<1>3. ASSUME NEW n \in DOMAIN sent
      PROVE  n \in Range(handed) \/ sent[n] \in ForgottenIds'
  <2>1. CASE sent[n] \in DOMAIN mPendingReplies /\ Newest(n)
    <3>1. Latest(sent[n]) = n
      BY <2>1, LatestIsNewest DEF IInv
    <3>2. QED
      BY <1>1, <1>2, <2>1, <3>1
  <2>2. QED
    BY <1>2, <2>1 DEF IInv, CommandsTold, Told
<1>4. CommandsTold'
  BY <1>1, <1>3 DEF CommandsTold, Told
<1>5. NoReplyDropped'
  BY <1>1, <1>3 DEF NoReplyDropped, IInv, TypeOK
<1>6. RepliesOnce'
  BY <1>1 DEF RepliesOnce, IInv
<1>7. QED
  BY <1>4, <1>5, <1>6

LEMMA StepKeepsReplies == IInv /\ [Next]_vars => IInv'
<1> SUFFICES ASSUME IInv, [Next]_vars PROVE RepliesOnce' /\ CommandsTold' /\ NoReplyDropped'
  BY StepKeepsTypes DEF IInv
<1>0. TypeOK' /\ MapsMatch'
  BY StepKeepsTypes DEF IInv
<1>1. CASE UNCHANGED <<mPendingReplies, mUnreadReplies, outbox, replies, sent, read, handed, forgotten>>
  BY <1>1 DEF IInv, RepliesOnce, CommandsTold, NoReplyDropped, Told, Newest, ForgottenIds
<1>2. CASE SetBinding \/ Assign
  <2>1. /\ outbox' = {} /\ DOMAIN replies' = {}
        /\ UNCHANGED <<mPendingReplies, mUnreadReplies, sent, read, handed, forgotten>>
    BY <1>2 DEF SetBinding, Assign, maps, history
  <2>2. QED
    BY <2>1 DEF IInv, RepliesOnce, CommandsTold, NoReplyDropped, Told, Newest, ForgottenIds
<1>3. CASE Move
  BY <1>3, MoveReplies
<1>4. ASSUME NEW id \in AllIds, SendAsync(id) \/ Send(id)
      PROVE  RepliesOnce' /\ CommandsTold' /\ NoReplyDropped'
  BY <1>0, <1>4, DispatchReplies DEF SendAsync, Send
<1>5. CASE CacheReply
  BY <1>5, CacheReplies
<1>6. CASE Returns
  BY <1>0, <1>6, ReturnReplies
<1>7. ASSUME NEW n, Answer(n)
      PROVE  RepliesOnce' /\ CommandsTold' /\ NoReplyDropped'
  BY <1>7, AnswerReplies
<1>8. ASSUME NEW id, GetReplyFromSocket(id)
      PROVE  RepliesOnce' /\ CommandsTold' /\ NoReplyDropped'
  BY <1>1, <1>8 DEF GetReplyFromSocket, maps, socket, history
<1>9. CASE Initialize \/ Tick \/ UNCHANGED vars
  BY <1>1, <1>9 DEF Initialize, Tick, vars, maps, socket, history
<1>10. QED
  BY <1>2, <1>3, <1>4, <1>5, <1>6, <1>7, <1>8, <1>9 DEF Next, AllIds

LEMMA RepliesInOrder == Spec => []IInv
<1>1. ASSUME Init
      PROVE  /\ DOMAIN sent = {} /\ DOMAIN replies = {} /\ DOMAIN handed = {}
             /\ DOMAIN mUnreadReplies = {} /\ outbox = {} /\ read = {}
  BY <1>1 DEF Init
<1>2. Init => IInv
  BY <1>1, InitTypes DEF IInv, RepliesOnce, CommandsTold, NoReplyDropped, Range
<1>3. QED
  BY <1>2, StepKeepsReplies, PTL DEF Spec

\* Replies that were read while another was looked for are handed out or in the cache,
\* unless their id was forgotten, for any number of commands and ids.
THEOREM RepliesAreKept == Spec => []NoReplyDropped
<1>1. IInv => NoReplyDropped
  BY DEF IInv
<1>2. QED
  BY <1>1, RepliesInOrder, PTL

\* Only the end of a call hands out a reply.
LEMMA HandedByReturn == [Next]_vars => Returns \/ handed' = handed
<1> SUFFICES ASSUME [Next]_vars, ~Returns PROVE handed' = handed
  OBVIOUS
<1>1. CASE Initialize \/ SetBinding \/ Move \/ Assign \/ CacheReply \/ Tick \/ UNCHANGED vars
  BY <1>1 DEF Initialize, SetBinding, Move, Assign, CacheReply, Tick, vars, history
<1>2. ASSUME NEW id, SendAsync(id) \/ Send(id) \/ GetReplyFromSocket(id)
      PROVE  handed' = handed
  BY <1>2 DEF SendAsync, Send, GetReplyFromSocket, history
<1>3. ASSUME NEW n, Answer(n)
      PROVE  handed' = handed
  BY <1>3 DEF Answer, history
<1>4. QED
  BY <1>1, <1>2, <1>3 DEF Next

\* A reply is handed out once, and answers the last command under its id unless one
\* was forgotten, whatever the server does and however the stick is moved.
THEOREM RepliesAreOwn == Spec => OwnReply
<1>1. ASSUME IInv, [Next]_vars, NEW n \in DOMAIN sent, handed' = Append(handed, n)
      PROVE  n \notin Range(handed) /\ (n = Latest(sent[n]) \/ sent[n] \in ForgottenIds)
  <2> DEFINE S == DOMAIN sent \cup {Malformed}
  <2>1. handed \in Seq(S)
    <3> DEFINE T == DOMAIN sent
    <3>1. handed \in Seq(T) /\ T \subseteq S
      BY <1>1 DEF IInv, TypeOK
    <3> HIDE DEF S, T
    <3>2. QED
      BY <3>1, SeqMonotonic
  <2>2. \A m \in S : Append(handed, m) # handed /\ (Append(handed, m) = Append(handed, n) => m = n)
    <3>1. n \in S
      OBVIOUS
    <3> HIDE DEF S
    <3>2. QED
      BY <2>1, <3>1
  <2>3. n \in S /\ n # Malformed
    BY <1>1, LenProperties DEF IInv, TypeOK, Malformed
  <2>4. Returns
    BY <1>1, <2>2, <2>3, HandedByReturn
  <2>5. n \notin Range(handed)
    <3>1. ASSUME NEW id \in DOMAIN mUnreadReplies, handed' = Append(handed, mUnreadReplies[id])
          PROVE  n \notin Range(handed)
      <4>1. mUnreadReplies[id] \in S
        BY <1>1 DEF IInv, TypeOK
      <4>2. n = mUnreadReplies[id]
        BY <1>1, <2>2, <3>1, <4>1
      <4>3. QED
        BY <1>1, <4>2 DEF IInv, RepliesOnce
    <3>2. CASE replies # <<>> /\ handed' = Append(handed, Head(replies))
      <4>1. Head(replies) \in S /\ Head(replies) \notin read
        BY <1>1, <3>2, HeadReply
      <4>2. n = Head(replies)
        BY <1>1, <2>2, <3>2, <4>1
      <4>3. QED
        BY <1>1, <4>1, <4>2 DEF IInv, RepliesOnce
    <3>3. handed' # handed
      BY <1>1, <2>2, <2>3
    <3>4. QED
      BY <2>4, <3>1, <3>2, <3>3, WaysToReturn
  <2>6. sent[n] \in ForgottenIds \/ Newest(n)
    BY <1>1, <2>5 DEF IInv, CommandsTold, Told
  <2>7. QED
    BY <1>1, <2>5, <2>6, LatestIsNewest DEF IInv
<1>2. IInv /\ [Next]_vars =>
        [\A n \in DOMAIN sent : handed' = Append(handed, n) =>
           /\ n \notin Range(handed)
           /\ n = Latest(sent[n]) \/ sent[n] \in ForgottenIds]_vars
  BY <1>1
<1>3. QED
  BY <1>2, RepliesInOrder, PTL DEF Spec, OwnReply

\* Whatever is answered and whenever: what was sent stays pending for the whole Period,
\* until it is answered or the stick is moved.
THEOREM PendingIsKept == Spec => KeptForPeriod
<1>1. ASSUME IInv, [Next]_vars, NEW id \in DOMAIN mPendingReplies \ DOMAIN mPendingReplies'
      PROVE  \/ now - mPendingReplies[id] >= Period
             \/ \E n \in DOMAIN sent : sent[n] = id /\ handed' = Append(handed, n)
             \/ Move
  <2>0. mPendingReplies[id] \in Nat /\ now \in Nat /\ Period \in Nat
    BY <1>1, Assumptions DEF IInv, TypeOK
  <2>1. CASE Returns
    <3>1. ASSUME NEW unread, CleanOldPendingData(mPendingReplies, unread)
          PROVE  now - mPendingReplies[id] >= Period
      <4>1. Expired(mPendingReplies[id])
        BY <1>1, <3>1, CleanFacts
      <4>2. QED
        BY <2>0, <4>1 DEF Expired
    <3>2. ASSUME NEW i, NEW unread, CleanOldPendingData(Without(mPendingReplies, i), unread), i # id
          PROVE  now - mPendingReplies[id] >= Period
      <4>1. id \in DOMAIN Without(mPendingReplies, i) /\ Without(mPendingReplies, i)[id] = mPendingReplies[id]
        BY <3>2 DEF Without
      <4>2. Expired(Without(mPendingReplies, i)[id])
        BY <3>2, <4>1, CleanFacts
      <4>3. QED
        BY <2>0, <4>1, <4>2 DEF Expired
    <3>3. \A i \in DOMAIN mUnreadReplies : mUnreadReplies[i] \in DOMAIN sent /\ sent[mUnreadReplies[i]] = i
      BY <1>1 DEF IInv, TypeOK, MapsMatch
    <3>4. replies # <<>> /\ Head(replies) # Malformed => Head(replies) \in DOMAIN sent
      BY <1>1, HeadReply
    <3>5. QED
      BY <2>1, <3>1, <3>2, <3>3, <3>4, WaysToReturn
  <2>2. CASE ~Returns
    <3>1. ASSUME NEW i, SendAsync(i) \/ Send(i)
          PROVE  FALSE
      BY <3>1 DEF SendAsync, Send, Dispatch, Put
    <3>2. ASSUME NEW i, GetReplyFromSocket(i)
          PROVE  FALSE
      BY <3>2 DEF GetReplyFromSocket, maps
    <3>3. ASSUME NEW n, Answer(n)
          PROVE  FALSE
      BY <3>3 DEF Answer, maps
    <3>4. CASE Initialize \/ SetBinding \/ Assign \/ CacheReply \/ Tick \/ UNCHANGED vars
      BY <3>4 DEF Initialize, SetBinding, Assign, CacheReply, Tick, vars, maps
    <3>5. QED
      BY <1>1, <2>2, <3>1, <3>2, <3>3, <3>4 DEF Next
  <2>3. QED
    BY <2>1, <2>2
<1>2. IInv /\ [Next]_vars =>
        [\A id \in DOMAIN mPendingReplies \ DOMAIN mPendingReplies' :
           \/ now - mPendingReplies[id] >= Period
           \/ \E n \in DOMAIN sent : sent[n] = id /\ handed' = Append(handed, n)
           \/ Move]_vars
  BY <1>1
<1>3. QED
  BY <1>2, RepliesInOrder, PTL DEF Spec, KeptForPeriod

-----------------------------------------------------------------------------
(* How long a command stays pending *)

\* What the last collection left is younger than Period was at that time, and what
\* was sent since is younger still; only an assignment can put a collection off.
SentSinceCollection ==
  /\ now \in Nat
  /\ mLastGCTime \in Nat
  /\ mLastGCTime <= now
  /\ \A id \in DOMAIN mPendingReplies :
       /\ mPendingReplies[id] \in Nat
       /\ id \notin putOff => mPendingReplies[id] > mLastGCTime - Period

\* The step that ends a call keeps SentSinceCollection, and leaves nothing that is
\* two periods old.
LEMMA ReturnCleans ==
  ASSUME SentSinceCollection, Returns
  PROVE  /\ SentSinceCollection'
         /\ \A id \in DOMAIN mPendingReplies' \ putOff :
              now - mPendingReplies'[id] <= 2 * (Period - 1)
<1>1. PICK pending, unread :
        /\ CleanOldPendingData(pending, unread)
        /\ DOMAIN pending \subseteq DOMAIN mPendingReplies
        /\ \A id \in DOMAIN pending : pending[id] = mPendingReplies[id]
  <2> DEFINE Smaller(pending) ==
               /\ DOMAIN pending \subseteq DOMAIN mPendingReplies
               /\ \A id \in DOMAIN pending : pending[id] = mPendingReplies[id]
  <2>1. Smaller(mPendingReplies) /\ \A id : Smaller(Without(mPendingReplies, id))
    BY DEF Without
  <2>2. \/ CleanOldPendingData(mPendingReplies, mUnreadReplies)
        \/ \E id, unread : CleanOldPendingData(Without(mPendingReplies, id), unread)
    BY DEF Returns, GetAsyncReplyUnconnected, GetReplyFromCache, FoundInSocket, NothingRead, MalformedRead, SearchFails
  <2> HIDE DEF Smaller
  <2>3. \E pending, unread : CleanOldPendingData(pending, unread) /\ Smaller(pending)
    BY <2>1, <2>2
  <2> USE DEF Smaller
  <2>4. QED
    BY <2>3
<1>2. now' = now /\ putOff' = putOff
  BY DEF Returns, GetAsyncReplyUnconnected, GetReplyFromCache, FoundInSocket, NothingRead, MalformedRead, SearchFails
<1>3. /\ mLastGCTime' = IF Collecting THEN now ELSE mLastGCTime
      /\ \A id \in DOMAIN mPendingReplies' :
           /\ mPendingReplies'[id] = mPendingReplies[id]
           /\ id \in DOMAIN mPendingReplies
           /\ Collecting => ~Expired(mPendingReplies[id])
  BY ZenonT(30), <1>1, CleanFacts
<1>4. Period \in Nat /\ Period >= 1
  BY Assumptions
<1>5. ASSUME NEW id \in DOMAIN mPendingReplies'
      PROVE  /\ mPendingReplies'[id] \in Nat
             /\ id \notin putOff => /\ mPendingReplies'[id] > mLastGCTime' - Period
                                   /\ now - mPendingReplies'[id] <= 2 * (Period - 1)
  <2> DEFINE time == mPendingReplies[id]
  <2>1. /\ time \in Nat /\ mPendingReplies'[id] = time
        /\ id \notin putOff => time > mLastGCTime - Period
        /\ now \in Nat /\ mLastGCTime \in Nat
        /\ Collecting => ~Expired(time)
    BY <1>3 DEF SentSinceCollection
  <2> HIDE DEF time
  <2>2. CASE Collecting
    BY <1>3, <1>4, <2>1, <2>2 DEF Expired
  <2>3. CASE ~Collecting
    BY <1>3, <1>4, <2>1, <2>3 DEF Collecting
  <2>4. QED
    BY <2>2, <2>3
<1>6. mLastGCTime' \in Nat /\ mLastGCTime' <= now'
  BY <1>2, <1>3 DEF SentSinceCollection
<1>7. QED
  BY <1>2, <1>5, <1>6 DEF SentSinceCollection

\* After every call, nothing has been pending for two periods: ten minutes.
THEOREM PendingIsForgotten == Spec => ForgottenInTime
<1>1. Init => SentSinceCollection
  BY DEF Init, SentSinceCollection
<1>2. SentSinceCollection /\ [Next]_vars => SentSinceCollection'
  <2> SUFFICES ASSUME SentSinceCollection, [Next]_vars
               PROVE  SentSinceCollection'
    OBVIOUS
  <2> USE DEF SentSinceCollection
  <2>1. CASE UNCHANGED vars
    BY <2>1 DEF vars, maps, history
  <2>2. CASE Initialize
    BY <2>2 DEF Initialize, maps, history
  <2>3. CASE SetBinding
    BY <2>3 DEF SetBinding, maps, history
  <2>4. CASE Move
    BY <2>4 DEF Move
  <2>12. CASE Assign
    BY <2>12 DEF Assign
  <2>5. ASSUME NEW id, SendAsync(id) \/ Send(id)
        PROVE  SentSinceCollection'
    <3>1. /\ mPendingReplies' = Put(mPendingReplies, id, now)
          /\ putOff' = putOff \ {id}
        /\ UNCHANGED <<mLastGCTime, now>>
      BY <2>5 DEF SendAsync, Send, Dispatch
    <3>2. Period \in Nat /\ Period >= 1
      BY Assumptions
    <3>3. now > mLastGCTime - Period
      BY <3>2
    <3>4. QED
      BY <3>1, <3>3 DEF Put
  <2>6. ASSUME NEW id, GetReplyFromSocket(id)
        PROVE  SentSinceCollection'
    BY <2>6 DEF GetReplyFromSocket, maps, history
  <2>7. CASE CacheReply
    BY <2>7 DEF CacheReply
  <2>8. CASE Returns
    BY <2>8, ReturnCleans
  <2>9. ASSUME NEW n, Answer(n)
        PROVE  SentSinceCollection'
    BY <2>9 DEF Answer, maps, history
  <2>10. CASE Tick
    BY <2>10 DEF Tick, maps, history
  <2>11. QED
    BY <2>1, <2>2, <2>3, <2>4, <2>5, <2>6, <2>7, <2>8, <2>9, <2>10, <2>12 DEF Next
<1>3. SentSinceCollection /\ [Next]_vars =>
        [Returns => \A id \in DOMAIN mPendingReplies' \ putOff :
                      now - mPendingReplies'[id] <= 2 * (Period - 1)]_vars
  BY ReturnCleans
<1>4. QED
  BY <1>1, <1>2, <1>3, PTL DEF Spec, ForgottenInTime
=============================================================================
