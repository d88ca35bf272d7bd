-------------------------- MODULE NotifierListener --------------------------
(***************************************************************************)
(* src/src/Notifier.cpp and Listener.cpp, with the Shotgun and the Vampire *)
(* of a Notifier and the Alien and the Rifle of each Listener.             *)
(*                                                                         *)
(* Notify fires one message to all Listeners that are subscribed, then     *)
(* counts handshakes until it has as many as it expects or a minute is     *)
(* over.  A handshake does not say what it confirms.  gLock is held all    *)
(* through Notify, so there is one Notify at a time.                       *)
(*                                                                         *)
(* The n-th notification is called n; the queues hold such numbers, and    *)
(* calls[n].messages is what was sent.                                     *)
(***************************************************************************)
EXTENDS Integers, Sequences, SequencesExt, FiniteSets

CONSTANTS
  Listeners,        \* the programs that listen
  gHandshakeCount,
  Messages,         \* the vectors handed to Notify
  Hwm,              \* notifications the PUB socket keeps for one Listener
  HighWater,        \* handshakes the pipe of one Listener holds
  Faults,           \* which of "notifier", "listener" (it goes away) can occur
  MaxNotifies       \* bound: calls of Notify

ASSUME Assumptions ==
  /\ IsFiniteSet(Listeners)
  /\ gHandshakeCount \in Nat
  /\ Messages \subseteq Seq(STRING)
  /\ Hwm \in Nat \ {0}
  /\ HighWater \in Nat \ {0}
  /\ MaxNotifies \in Nat

VARIABLES
  npc,         \* the Notifier: "none", "idle", "waiting" in ReceiveConfirmation
  calls,       \* every Notify [messages, responses, status]
  subscribed,  \* the Listeners the Shotgun sends to
  inbox,       \* notifications on their way to the Alien of each Listener
  handshakes,  \* handshakes on their way from each Listener
  lpc,         \* a Listener: "none", "listening", "handling" a notification
  mMessages,
  seen,        \* history: the notifications each Listener handled, oldest first
  counted      \* history: the handshakes that were counted [call, by, for]

notifier == <<npc, calls, subscribed>>
listener == <<lpc, mMessages, seen>>
vars == <<notifier, inbox, handshakes, listener, counted>>

kNotifyMessage == "notify"

Init ==
  /\ npc = "none"
  /\ calls = <<>>
  /\ subscribed = {}
  /\ inbox = [l \in Listeners |-> <<>>]
  /\ handshakes = [l \in Listeners |-> <<>>]
  /\ lpc = [l \in Listeners |-> "none"]
  /\ mMessages = [l \in Listeners |-> <<>>]
  /\ seen = [l \in Listeners |-> <<>>]
  /\ counted = <<>>

-----------------------------------------------------------------------------
(* The Notifier *)

\* Both sockets are bound; when one cannot be, there is no Notifier.
CreateNotifier ==
  /\ npc = "none"
  /\ npc' = "idle"
  /\ UNCHANGED <<calls, subscribed, inbox, handshakes, listener, counted>>

\* Shotgun::Fire: what does not fit in a Listener's pipe is dropped for it.
Fire(n) ==
  inbox' = [l \in Listeners |->
              IF l \in subscribed /\ Len(inbox[l]) < Hwm THEN Append(inbox[l], n) ELSE inbox[l]]

Notify(messages) ==
  /\ npc = "idle"
  /\ Len(calls) < MaxNotifies
  /\ calls' = Append(calls, [messages |-> messages, responses |-> 0, status |-> "running"])
  /\ Fire(Len(calls) + 1)
  /\ npc' = "waiting"
  /\ UNCHANGED <<subscribed, handshakes, listener, counted>>

This == Len(calls)
responses == calls[This].responses

\* Mutant of GetShot: the handshake stays in the socket.
GetShotPeeks(l) ==
  /\ npc = "waiting"
  /\ responses < gHandshakeCount
  /\ handshakes[l] # <<>>
  /\ calls' = [calls EXCEPT ![This].responses = @ + 1]
  /\ counted' = Append(counted, [call |-> This, by |-> l, for |-> Head(handshakes[l])])
  /\ UNCHANGED <<npc, subscribed, inbox, handshakes, listener>>

\* One turn of ReceiveConfirmation that gets a handshake.
GetShot(l) ==
  /\ npc = "waiting"
  /\ responses < gHandshakeCount
  /\ handshakes[l] # <<>>
  /\ handshakes' = [handshakes EXCEPT ![l] = Tail(@)]
  /\ calls' = [calls EXCEPT ![This].responses = @ + 1]
  /\ counted' = Append(counted, [call |-> This, by |-> l, for |-> Head(handshakes[l])])
  /\ UNCHANGED <<npc, subscribed, inbox, listener>>

Return ==
  /\ npc' = "idle"
  /\ calls' = [calls EXCEPT ![This].status = "returned"]
  /\ UNCHANGED <<subscribed, inbox, handshakes, listener, counted>>

\* ReceiveConfirmation has counted what it expects.
NotifyConfirmed ==
  /\ npc = "waiting"
  /\ responses = gHandshakeCount
  /\ Return

\* gMaxTimeoutInSec is over.  The loop looks at the clock between two handshakes,
\* so more of them may be waiting.
NotifyTimesOut ==
  /\ npc = "waiting"
  /\ responses < gHandshakeCount
  /\ Return

\* The Notifier is destroyed.  Notifications that left it arrive; handshakes still
\* in the Listeners' own pipes wait for the next Notifier.
DestroyNotifier ==
  /\ "notifier" \in Faults
  /\ npc = "idle"
  /\ npc' = "none"
  /\ subscribed' = {}
  /\ \E kept \in [Listeners -> UNION {Prefixes(inbox[l]) : l \in Listeners}] :
       /\ \A l \in Listeners : kept[l] \in Prefixes(inbox[l])
       /\ inbox' = kept
  /\ \E kept \in [Listeners -> UNION {Suffixes(handshakes[l]) : l \in Listeners}] :
       /\ \A l \in Listeners : kept[l] \in Suffixes(handshakes[l])
       /\ handshakes' = kept
  /\ UNCHANGED <<calls, listener, counted>>

-----------------------------------------------------------------------------
(* The Listeners *)

CreateListener(l) ==
  /\ lpc[l] = "none"
  /\ lpc' = [lpc EXCEPT ![l] = "listening"]
  /\ UNCHANGED <<notifier, inbox, handshakes, mMessages, seen, counted>>

\* The subscription of the Alien reaches the Shotgun; what was fired before is
\* never received.
Subscribe(l) ==
  /\ npc # "none" /\ lpc[l] # "none"
  /\ l \notin subscribed
  /\ subscribed' = subscribed \cup {l}
  /\ UNCHANGED <<npc, calls, inbox, handshakes, listener, counted>>

\* The Listener goes away, and its sockets with it; handshakes that left it arrive.
\* A new one starts without messages.
DestroyListener(l) ==
  /\ lpc[l] # "none"
  /\ lpc' = [lpc EXCEPT ![l] = "none"]
  /\ mMessages' = [mMessages EXCEPT ![l] = <<>>]
  /\ inbox' = [inbox EXCEPT ![l] = <<>>]
  /\ \E kept \in Prefixes(handshakes[l]) : handshakes' = [handshakes EXCEPT ![l] = kept]
  /\ subscribed' = subscribed \ {l}
  /\ UNCHANGED <<npc, calls, seen, counted>>

\* Mutant of ClearMessages: the messages of the last notification are left there.
ClearMessagesForgotten(old) == old
ClearMessages(old) == <<>>

\* A notification without a message of its own has nothing to store.
StorePayloadIfNecessary(old, messages) ==
  IF messages # <<>> /\ messages[1] # kNotifyMessage THEN messages ELSE old

\* NotificationReceived with something in the socket.  Its answer is whether the
\* first message is empty; when there is none, that is read behind the end of the
\* vector, and the answer is anything.
NotificationReceived(l, received) ==
  /\ lpc[l] = "listening"
  /\ inbox[l] # <<>>
  /\ LET n == Head(inbox[l])
         messages == calls[n].messages
     IN /\ messages # <<>> => received = (messages[1] # "")
        /\ IF received
             THEN /\ lpc' = [lpc EXCEPT ![l] = "handling"]
                  /\ mMessages' = [mMessages EXCEPT
                                     ![l] = StorePayloadIfNecessary(ClearMessages(@), messages)]
                  /\ seen' = [seen EXCEPT ![l] = Append(@, n)]
             ELSE UNCHANGED listener
  /\ inbox' = [inbox EXCEPT ![l] = Tail(@)]
  /\ UNCHANGED <<notifier, handshakes, counted>>

\* The same read can end the program.
NotificationCrashes(l) ==
  /\ lpc[l] = "listening"
  /\ inbox[l] # <<>>
  /\ calls[Head(inbox[l])].messages = <<>>
  /\ DestroyListener(l)

\* Mutants of SendConfirmation: the handshake is sent twice, or dropped.
SendConfirmationTwice(l) ==
  /\ lpc[l] = "handling"
  /\ lpc' = [lpc EXCEPT ![l] = "listening"]
  /\ handshakes' = [handshakes EXCEPT ![l] = @ \o <<Last(seen[l]), Last(seen[l])>>]
  /\ UNCHANGED <<notifier, inbox, mMessages, seen, counted>>
SendConfirmationDrops(l) ==
  /\ lpc[l] = "handling"
  /\ lpc' = [lpc EXCEPT ![l] = "listening"]
  /\ UNCHANGED <<notifier, inbox, handshakes, mMessages, seen, counted>>

\* The program confirms what it was notified of; when the Rifle's pipe stays full
\* for kBlockForOneMinute (sixty milliseconds), nothing is sent.
SendConfirmation(l) ==
  /\ lpc[l] = "handling"
  /\ lpc' = [lpc EXCEPT ![l] = "listening"]
  /\ handshakes' = IF Len(handshakes[l]) < HighWater
                     THEN [handshakes EXCEPT ![l] = Append(@, Last(seen[l]))]
                     ELSE handshakes
  /\ UNCHANGED <<notifier, inbox, mMessages, seen, counted>>

-----------------------------------------------------------------------------
NotifierStep ==
  \/ CreateNotifier
  \/ \E messages \in Messages : Notify(messages)
  \/ \E l \in Listeners : GetShot(l)
  \/ NotifyConfirmed \/ NotifyTimesOut
  \/ DestroyNotifier

ListenerStep(l) ==
  \/ CreateListener(l) \/ Subscribe(l)
  \/ \E received \in BOOLEAN : NotificationReceived(l, received)
  \/ NotificationCrashes(l)
  \/ SendConfirmation(l)
  \/ "listener" \in Faults /\ DestroyListener(l)

Next == NotifierStep \/ \E l \in Listeners : ListenerStep(l)

Spec == Init /\ [][Next]_vars

\* The threads of the Notifier and of the Listeners run.  Nothing makes the minute
\* pass.
Fairness ==
  /\ WF_vars(NotifyConfirmed)
  /\ \A l \in Listeners :
       /\ WF_vars(GetShot(l))
       /\ WF_vars(\E received \in BOOLEAN : NotificationReceived(l, received))
       /\ WF_vars(SendConfirmation(l))

FairSpec == Spec /\ Fairness

-----------------------------------------------------------------------------
(* Properties *)

\* Every variable has its type.
TypeOK ==
  /\ npc \in {"none", "idle", "waiting"}
  /\ calls \in Seq([messages : Messages, responses : 0..gHandshakeCount,
                    status : {"running", "returned"}])
  /\ npc = "waiting" <=> calls # <<>> /\ Last(calls).status = "running"
  /\ subscribed \subseteq Listeners
  /\ inbox \in [Listeners -> Seq(DOMAIN calls)]
  /\ handshakes \in [Listeners -> Seq(DOMAIN calls)]
  /\ lpc \in [Listeners -> {"none", "listening", "handling"}]
  /\ mMessages \in [Listeners -> Messages \cup {<<>>}]
  /\ seen \in [Listeners -> Seq(DOMAIN calls)]
  /\ counted \in Seq([call : DOMAIN calls, by : Listeners, for : DOMAIN calls])

\* What Listener l may still have confirmed, oldest first: what it confirmed, what
\* it handles and what is on its way to it.
Handling(l) == IF lpc[l] = "handling" THEN <<Last(seen[l])>> ELSE <<>>
ToCount(l) == handshakes[l] \o Handling(l) \o inbox[l]

\* However threads interleave and whoever is restarted, one notification gets at
\* most one handshake from one Listener: what was counted is not still to come,
\* was not counted before, and is not younger than the Notify that counted it.
CountedOnce ==
  /\ \A l \in Listeners : \A i, j \in DOMAIN ToCount(l) : i < j => ToCount(l)[i] < ToCount(l)[j]
  /\ \A c \in DOMAIN counted :
       /\ counted[c].for <= counted[c].call
       /\ \A i \in DOMAIN ToCount(counted[c].by) : counted[c].for < ToCount(counted[c].by)[i]
       /\ \A d \in DOMAIN counted :
            c < d /\ counted[c].by = counted[d].by => counted[c].for < counted[d].for

\* As long as no Notify came short, a success is honest: every Notify that got what
\* it expects was confirmed by that many Listeners, each of which had handled it.
AllConfirmed == \A n \in DOMAIN calls : calls[n].responses = gHandshakeCount \/ n = This
HonestWhileComplete ==
  Cardinality(Listeners) = gHandshakeCount /\ AllConfirmed =>
    \A c \in DOMAIN counted :
      /\ counted[c].for = counted[c].call
      /\ counted[c].for \in Range(seen[counted[c].by])

\* Whoever handles a notification reads its messages with GetMessages and never
\* those of an older one: a notification that brought none of its own leaves none.
MessagesAreCurrent ==
  \A l \in Listeners : lpc[l] = "handling" =>
    LET messages == calls[Last(seen[l])].messages
    IN  /\ messages = <<kNotifyMessage>> => mMessages[l] = <<>>
        /\ Len(messages) > 0 /\ messages[1] # kNotifyMessage => mMessages[l] = messages

\* "A Notification is deemed successful only if every expected Listener responds"
\* (README.md:148): a Notify that returned gHandshakeCount was confirmed by so many.
ConfirmedBy(n) == {counted[c].by : c \in {d \in DOMAIN counted : counted[d].for = n}}
SuccessMeansConfirmed ==
  \A n \in DOMAIN calls :
    calls[n].responses = gHandshakeCount => Cardinality(ConfirmedBy(n)) >= gHandshakeCount

\* A Notify that reached every Listener returns without the help of its timeout,
\* even with handshakes of earlier ones in its way, unless a Listener goes away.
Reached(n) ==
  /\ This = n /\ npc = "waiting"
  /\ calls[n].messages # <<>> /\ calls[n].messages[1] # ""
  /\ \A l \in Listeners : n \in Range(inbox[l])
ReachedIsConfirmed ==
  \A n \in 1..MaxNotifies :
    Reached(n) ~> \/ n \in DOMAIN calls /\ calls[n].status = "returned"
                  \/ \E l \in Listeners : lpc[l] = "none"
=============================================================================
