----------------------------- MODULE BoomStick -----------------------------
(***************************************************************************)
(* src/src/BoomStick.cpp: a client that sends commands, each under an id,  *)
(* on a DEALER socket to a server it does not wait for, and hands out the  *)
(* replies by id.  It keeps two maps: mPendingReplies says when a command  *)
(* was sent, mUnreadReplies caches replies that were read from the socket  *)
(* while another one was looked for.                                       *)
(*                                                                         *)
(* The object is used by one thread (CHECK on mUtilizedThread); what runs  *)
(* beside it is the server and the clock, which can move between any two   *)
(* polls of GetReplyFromSocket.                                            *)
(*                                                                         *)
(* The n-th command put on the socket is command n, sent under sent[n]; a  *)
(* reply is the number of the command it answers, Malformed if it does not *)
(* have two parts.                                                         *)
(***************************************************************************)
EXTENDS Integers, Sequences, SequencesExt

CONSTANTS
  Ids,        \* ids the caller picks for SendAsync
  Uuids,      \* ids GetUuid generates for Send
  Period,     \* 5 * MINUTES_TO_SECONDS
  SendHWM,    \* mSendHWM
  Faults,     \* which of "rebind", "move", "assign", "malformed", "signal" can occur
  MaxSends,   \* bound: commands
  MaxTime     \* bound: the clock

ASSUME Assumptions ==
  /\ Ids \cap Uuids = {}
  /\ Period \in Nat \ {0}
  /\ SendHWM \in Nat \ {0}
  /\ MaxSends \in Nat
  /\ MaxTime \in Nat

VARIABLES
  connected,        \* mCtx and mChamber are set
  mPendingReplies,  \* id -> time of the send
  mUnreadReplies,   \* id -> reply
  mLastGCTime,
  target,           \* <<id>> while GetReplyFromSocket looks for id, else <<>>
  now,              \* time(NULL)
  outbox,           \* commands the server has not answered
  replies,          \* replies waiting in the socket
  sent,             \* history: the ids of the commands, in the order of sending
  read,             \* history: the replies read from the socket
  handed,           \* history: the replies handed to the caller, in order
  forgotten,        \* history: commands whose pending entry went without a reply
  putOff            \* history: ids that were pending when the stick was assigned to

maps == <<mPendingReplies, mUnreadReplies, mLastGCTime>>
socket == <<connected, outbox, replies>>
history == <<sent, read, handed, forgotten, putOff>>
vars == <<maps, target, now, socket, history>>

AllIds == Ids \cup Uuids
Malformed == 0
Put(f, key, value) == [x \in DOMAIN f \cup {key} |-> IF x = key THEN value ELSE f[x]]
Without(f, key) == [x \in DOMAIN f \ {key} |-> f[x]]
Only(f, keys) == [x \in DOMAIN f \cap keys |-> f[x]]

Init ==
  /\ connected = FALSE
  /\ mPendingReplies = <<>>
  /\ mUnreadReplies = <<>>
  /\ mLastGCTime = 0
  /\ target = <<>>
  /\ now = 0
  /\ outbox = {}
  /\ replies = <<>>
  /\ sent = <<>>
  /\ read = {}
  /\ handed = <<>>
  /\ forgotten = {}
  /\ putOff = {}

-----------------------------------------------------------------------------
(* The connection *)

Initialize ==
  /\ ~connected /\ target = <<>>
  /\ connected' = TRUE
  /\ UNCHANGED <<maps, target, now, outbox, replies, history>>

\* The context goes, and with it what the socket held; the maps stay.
SetBinding ==
  /\ "rebind" \in Faults
  /\ connected /\ target = <<>>
  /\ connected' = FALSE
  /\ outbox' = {}
  /\ replies' = <<>>
  /\ UNCHANGED <<maps, target, now, history>>

\* The newest command sent under id.
Latest(id) == CHOOSE n \in DOMAIN sent :
  sent[n] = id /\ \A m \in DOMAIN sent : sent[m] = id => m <= n

\* The caller goes on with BoomStick(std::move(stick)): Swap takes the socket and
\* mLastGCTime along, but not the two maps.
Move ==
  /\ "move" \in Faults
  /\ target = <<>>
  /\ mPendingReplies' = <<>>
  /\ mUnreadReplies' = <<>>
  /\ forgotten' = forgotten \cup {Latest(id) : id \in DOMAIN mPendingReplies}
  /\ UNCHANGED <<mLastGCTime, target, now, socket, sent, read, handed, putOff>>

\* stick = BoomStick(binding): the context goes, mLastGCTime is that of the new
\* object, and the maps stay.
Assign ==
  /\ "assign" \in Faults
  /\ target = <<>>
  /\ connected' = FALSE
  /\ outbox' = {}
  /\ replies' = <<>>
  /\ mLastGCTime' = now
  /\ putOff' = putOff \cup DOMAIN mPendingReplies
  /\ UNCHANGED <<mPendingReplies, mUnreadReplies, target, now, sent, read, handed, forgotten>>

-----------------------------------------------------------------------------
(* Sending *)

\* SendAsync up to the send.  Under an id that is pending nothing is sent and true
\* is returned; when the socket is not writable at the first poll, the second poll
\* makes no difference and false is returned: neither changes the state.
Dispatch(id) ==
  /\ target = <<>>
  /\ connected
  /\ id \notin DOMAIN mPendingReplies
  /\ Cardinality(outbox) < SendHWM
  /\ Len(sent) < MaxSends
  /\ sent' = Append(sent, id)
  /\ outbox' = outbox \cup {Len(sent) + 1}
  /\ mPendingReplies' = Put(mPendingReplies, id, now)
  /\ putOff' = putOff \ {id}

SendAsync(id) ==
  /\ Dispatch(id)
  /\ UNCHANGED <<mUnreadReplies, mLastGCTime, target, now, connected, replies,
                 read, handed, forgotten>>

\* Send: SendAsync under a new id, then GetAsyncReply, which finds nothing in the
\* cache and goes on to the socket.
Send(id) ==
  /\ id \notin Range(sent)
  /\ Dispatch(id)
  /\ target' = <<id>>
  /\ UNCHANGED <<mUnreadReplies, mLastGCTime, now, connected, replies,
                 read, handed, forgotten>>

-----------------------------------------------------------------------------
(* Receiving *)

\* Mutant of Expired: everything sent so far.
ExpiredTooSoon(time) == time <= now

\* CleanPendingReplies: entries this old go.
Expired(time) == time <= now - Period

\* Mutant of Collecting: milliseconds are taken for seconds.
CollectingLate == now >= mLastGCTime + 1000 * Period

\* CleanPendingReplies does nothing until Period has passed since it last did.
Collecting == now >= mLastGCTime + Period

\* Mutant of CleanOldPendingData: nothing is cleaned.
CleanOldPendingDataKeeps(pending, unread) ==
  /\ mPendingReplies' = pending
  /\ mUnreadReplies' = unread
  /\ UNCHANGED <<mLastGCTime, forgotten>>

\* CleanUnreadReplies drops the replies nobody waits for, then CleanPendingReplies
\* drops what waited too long, its reply included.
CleanOldPendingData(pending, unread) ==
  LET old == IF Collecting THEN {id \in DOMAIN pending : Expired(pending[id])} ELSE {}
      kept == DOMAIN pending \ old
  IN /\ mPendingReplies' = Only(pending, kept)
     /\ mUnreadReplies' = Only(unread, kept)
     /\ mLastGCTime' = IF Collecting THEN now ELSE mLastGCTime
     /\ forgotten' = forgotten \cup {Latest(id) : id \in old}

\* GetAsyncReply without a socket.
GetAsyncReplyUnconnected ==
  /\ target = <<>>
  /\ ~connected
  /\ CleanOldPendingData(mPendingReplies, mUnreadReplies)
  /\ UNCHANGED <<target, now, socket, sent, read, handed, putOff>>

\* Mutant of GetReplyFromCache: neither map is erased from.
GetReplyFromCacheKeeps(id) ==
  /\ target = <<>>
  /\ connected
  /\ id \in DOMAIN mUnreadReplies
  /\ handed' = Append(handed, mUnreadReplies[id])
  /\ CleanOldPendingData(mPendingReplies, mUnreadReplies)
  /\ UNCHANGED <<target, now, socket, sent, read, putOff>>

\* GetAsyncReply finds the reply in the cache.
GetReplyFromCache(id) ==
  /\ target = <<>>
  /\ connected
  /\ id \in DOMAIN mUnreadReplies
  /\ handed' = Append(handed, mUnreadReplies[id])
  /\ CleanOldPendingData(Without(mPendingReplies, id), Without(mUnreadReplies, id))
  /\ UNCHANGED <<target, now, socket, sent, read, putOff>>

\* GetAsyncReply does not, and GetReplyFromSocket starts.
GetReplyFromSocket(id) ==
  /\ target = <<>>
  /\ connected
  /\ id \notin DOMAIN mUnreadReplies
  /\ target' = <<id>>
  /\ UNCHANGED <<maps, now, socket, history>>

\* One turn of GetReplyFromSocket's loop that reads the reply it looks for.
FoundInSocket ==
  /\ target # <<>> /\ replies # <<>>
  /\ Head(replies) # Malformed
  /\ sent[Head(replies)] = Head(target)
  /\ replies' = Tail(replies)
  /\ read' = read \cup {Head(replies)}
  /\ handed' = Append(handed, Head(replies))
  /\ CleanOldPendingData(Without(mPendingReplies, Head(target)), mUnreadReplies)
  /\ target' = <<>>
  /\ UNCHANGED <<now, connected, outbox, sent, putOff>>

\* Mutant of CacheReply: the reply is not put into the cache.
CacheReplyForgets ==
  /\ target # <<>> /\ replies # <<>>
  /\ Head(replies) # Malformed
  /\ sent[Head(replies)] # Head(target)
  /\ replies' = Tail(replies)
  /\ read' = read \cup {Head(replies)}
  /\ UNCHANGED <<maps, target, now, connected, outbox, sent, handed, forgotten, putOff>>

\* One turn that reads another reply.
CacheReply ==
  /\ target # <<>> /\ replies # <<>>
  /\ Head(replies) # Malformed
  /\ sent[Head(replies)] # Head(target)
  /\ replies' = Tail(replies)
  /\ read' = read \cup {Head(replies)}
  /\ mUnreadReplies' = Put(mUnreadReplies, sent[Head(replies)], Head(replies))
  /\ UNCHANGED <<mPendingReplies, mLastGCTime, target, now, connected, outbox,
                 sent, handed, forgotten, putOff>>

\* The call returns without the reply.
SearchFails ==
  /\ target # <<>>
  /\ CleanOldPendingData(mPendingReplies, mUnreadReplies)
  /\ target' = <<>>
  /\ UNCHANGED <<now, connected, outbox, sent, read, handed, putOff>>

\* The poll timed out, or a signal cut it or the receive short.
NothingRead ==
  /\ replies = <<>> \/ "signal" \in Faults
  /\ SearchFails
  /\ UNCHANGED replies

\* The message did not have two parts.
MalformedRead ==
  /\ replies # <<>> /\ Head(replies) = Malformed
  /\ SearchFails
  /\ replies' = Tail(replies)

-----------------------------------------------------------------------------
(* The server and the clock *)

\* The server answers in any order.
Answer(n) ==
  /\ n \in outbox
  /\ outbox' = outbox \ {n}
  /\ \E reply \in {n} \cup (IF "malformed" \in Faults THEN {Malformed} ELSE {}) :
       replies' = Append(replies, reply)
  /\ UNCHANGED <<maps, target, now, connected, history>>

Tick ==
  /\ now < MaxTime
  /\ now' = now + 1
  /\ UNCHANGED <<maps, target, socket, history>>

-----------------------------------------------------------------------------
\* The steps that end a GetAsyncReply or a Send.
Returns ==
  \/ GetAsyncReplyUnconnected
  \/ \E id \in Ids : GetReplyFromCache(id)
  \/ FoundInSocket \/ NothingRead \/ MalformedRead

Next ==
  \/ Initialize \/ SetBinding \/ Move \/ Assign
  \/ \E id \in Ids : SendAsync(id)
  \/ \E id \in Uuids : Send(id)
  \/ \E id \in Ids : GetReplyFromSocket(id)
  \/ CacheReply
  \/ Returns
  \/ \E n \in outbox : Answer(n)
  \/ Tick

Spec == Init /\ [][Next]_vars

\* The server answers, the thread runs, and the caller asks for every id of its own
\* again and again, not only when there is no socket.  A signal does not cut every
\* search short.
Fairness ==
  /\ WF_vars(Initialize) /\ WF_vars(NothingRead)
  /\ SF_vars(CacheReply) /\ SF_vars(FoundInSocket) /\ SF_vars(MalformedRead)
  /\ \A id \in Ids : SF_vars(GetReplyFromCache(id)) /\ SF_vars(GetReplyFromSocket(id))
  /\ \A n \in 1..MaxSends : WF_vars(Answer(n))

FairSpec == Spec /\ Fairness

-----------------------------------------------------------------------------
(* Properties *)

\* Every variable has its type.
TypeOK ==
  /\ connected \in BOOLEAN
  /\ DOMAIN mPendingReplies \subseteq AllIds
  /\ \A id \in DOMAIN mPendingReplies : mPendingReplies[id] \in 0..now
  /\ DOMAIN mUnreadReplies \subseteq AllIds
  /\ \A id \in DOMAIN mUnreadReplies : mUnreadReplies[id] \in DOMAIN sent
  /\ mLastGCTime \in 0..now
  /\ target = <<>> \/ \E id \in AllIds : target = <<id>>
  /\ now \in Nat
  /\ outbox \subseteq DOMAIN sent
  /\ replies \in Seq(DOMAIN sent \cup {Malformed})
  /\ sent \in Seq(AllIds)
  /\ read \subseteq DOMAIN sent
  /\ handed \in Seq(DOMAIN sent)
  /\ forgotten \subseteq DOMAIN sent
  /\ putOff \subseteq AllIds

\* The cache cannot fill up with replies nobody will ask for: between two calls
\* each of them is the reply to a command whose id is pending
\* (CleanUnreadReplies, BoomStick.cpp:566-568).
CacheIsPending ==
  target = <<>> => DOMAIN mUnreadReplies \subseteq DOMAIN mPendingReplies

\* The ids of commands that were forgotten.  When one of them is used again, the
\* late reply to the old command takes the place of the reply to the new one.
ForgottenIds == {sent[n] : n \in forgotten}

\* A reply read while another one was looked for is not lost: it is handed out or
\* in the cache, unless a command under its id was forgotten.
NoReplyDropped ==
  \A n \in read : \/ n \in Range(handed)
                  \/ n \in Range(mUnreadReplies)
                  \/ sent[n] \in ForgottenIds

\* A caller gets the reply to what it sent last under the id, unless a command
\* under that id was forgotten before, and gets every reply at most once.
OwnReply ==
  [][\A n \in DOMAIN sent : handed' = Append(handed, n) =>
       /\ n \notin Range(handed)
       /\ n = Latest(sent[n]) \/ sent[n] \in ForgottenIds]_vars

\* Only a move or five minutes make the stick forget what it waits for.
KeptForPeriod ==
  [][\A id \in DOMAIN mPendingReplies \ DOMAIN mPendingReplies' :
       \/ now - mPendingReplies[id] >= Period
       \/ \E n \in DOMAIN sent : sent[n] = id /\ handed' = Append(handed, n)
       \/ Move]_vars

\* After a call nothing has been pending for ten minutes, to the second: the
\* collection runs at most every five minutes and takes what is five minutes old.  Only
\* the commands that were pending when the stick was assigned to may have to wait longer.
ForgottenInTime ==
  [][Returns => \A id \in DOMAIN mPendingReplies' \ putOff :
                  now - mPendingReplies'[id] <= 2 * (Period - 1)]_vars

\* A caller that keeps asking gets the reply to everything it sent, unless a command
\* under the id was forgotten, or command or reply were lost: the socket was closed
\* with it, or the reply was malformed.
EveryCommandAnswered ==
  \A n \in 1..MaxSends :
    n \in DOMAIN sent /\ sent[n] \in Ids ~>
      \/ n \in Range(handed)
      \/ n \notin outbox \cup Range(replies) \cup read
      \/ n \in DOMAIN sent /\ sent[n] \in ForgottenIds
=============================================================================
