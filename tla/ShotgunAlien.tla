---------------------------- MODULE ShotgunAlien ----------------------------
(***************************************************************************)
(* src/src/Shotgun.cpp and Alien.cpp, a PUB and a SUB socket: a Shotgun    *)
(* fires at every Alien that is connected, and waits for none of them.     *)
(* The subscription of an Alien takes its time, a pipe that is full drops  *)
(* what does not fit.  Each Alien is in a process of its own.              *)
(*                                                                         *)
(* The n-th shot fired is called n; fired[n] are its bullets.              *)
(***************************************************************************)
EXTENDS Integers, Sequences, SequencesExt, FiniteSets

CONSTANTS
  Aliens,
  Shots,       \* what is fired, sequences of bullets
  Hwm,         \* 32 * 1024 in the code: shots one pipe holds, on either side
  Faults,      \* which of "gun", "alien" (it is destroyed), "signal", "thread" occur
  MaxShots     \* bound: shots fired

ASSUME Assumptions ==
  /\ Hwm \in Nat \ {0} /\ MaxShots \in Nat
  /\ Shots \subseteq Seq(STRING)

VARIABLES
  aimed,        \* there is a Shotgun, bound
  fired,        \* all shots
  prepared,     \* the Aliens that have called PrepareToBeShot
  connected,    \* the Aliens the Shotgun has a pipe to
  out,          \* shots in that pipe
  body,         \* shots an Alien has received and not read
  call,         \* an Alien: "idle", in a "timed" GetShot, in a poll of the "blocking"
                \* one, or "checking" what the poll gave
  bullets,      \* what it gave: [shot, bullets], or nothing
  interrupted,  \* zctx_interrupted of the Alien's process
  asked,        \* Aliens whose thread is to be interrupted
  got,          \* history: what calls returned
  missed        \* history: shots an Alien was not given and will not be

calling == <<call, bullets, interrupted, asked>>
vars == <<aimed, fired, prepared, connected, out, body, calling, got, missed>>

Init ==
  /\ aimed = FALSE /\ fired = <<>>
  /\ prepared = {} /\ connected = {}
  /\ out = [a \in Aliens |-> <<>>]
  /\ body = [a \in Aliens |-> <<>>]
  /\ call = [a \in Aliens |-> "idle"]
  /\ bullets = [a \in Aliens |-> <<>>]
  /\ interrupted = {} /\ asked = {}
  /\ got = [a \in Aliens |-> <<>>]
  /\ missed = [a \in Aliens |-> {}]

-----------------------------------------------------------------------------
(* The Shotgun *)

Aim ==
  /\ ~aimed
  /\ aimed' = TRUE
  /\ UNCHANGED <<fired, prepared, connected, out, body, calling, got, missed>>

Hit(a) == a \in connected /\ Len(out[a]) < Hwm

\* Mutant of Fire: the first pipe that is full keeps it from the others.
FireStops(shot) ==
  /\ Len(fired) < MaxShots
  /\ fired' = Append(fired, shot)
  /\ LET hit(a) == Hit(a) /\ \A b \in connected : Hit(b)
     IN /\ out' = [a \in Aliens |-> IF hit(a) THEN Append(out[a], Len(fired')) ELSE out[a]]
        /\ missed' = [a \in Aliens |-> IF hit(a) THEN missed[a] ELSE missed[a] \cup {Len(fired')}]
  /\ UNCHANGED <<aimed, prepared, connected, body, calling, got>>

\* Fire, of a vector; Fire of a string adds "dummy" in front of it.  A Shotgun that
\* has not aimed is connected to nobody.  A full pipe drops it, and zmsg_send says
\* nothing of that.
Fire(shot) ==
  /\ Len(fired) < MaxShots
  /\ fired' = Append(fired, shot)
  /\ out' = [a \in Aliens |-> IF Hit(a) THEN Append(out[a], Len(fired')) ELSE out[a]]
  /\ missed' = [a \in Aliens |-> IF Hit(a) THEN missed[a] ELSE missed[a] \cup {Len(fired')}]
  /\ UNCHANGED <<aimed, prepared, connected, body, calling, got>>

\* The pipes go with the Shotgun; the Aliens keep what they have received.
DestroyShotgun ==
  /\ "gun" \in Faults
  /\ aimed
  /\ aimed' = FALSE
  /\ connected' = {}
  /\ missed' = [a \in Aliens |-> missed[a] \cup Range(out[a])]
  /\ out' = [a \in Aliens |-> <<>>]
  /\ UNCHANGED <<fired, prepared, body, calling, got>>

-----------------------------------------------------------------------------
(* The network *)

\* The subscription reaches a Shotgun, the first or the next one.
Connect(a) ==
  /\ aimed /\ a \in prepared \ connected
  /\ connected' = connected \cup {a}
  /\ UNCHANGED <<aimed, fired, prepared, out, body, calling, got, missed>>

Transfer(a) ==
  /\ out[a] # <<>> /\ Len(body[a]) < Hwm
  /\ body' = [body EXCEPT ![a] = Append(@, Head(out[a]))]
  /\ out' = [out EXCEPT ![a] = Tail(@)]
  /\ UNCHANGED <<aimed, fired, prepared, connected, calling, got, missed>>

-----------------------------------------------------------------------------
(* The Aliens *)

PrepareToBeShot(a) ==
  /\ a \notin prepared
  /\ prepared' = prepared \cup {a}
  /\ UNCHANGED <<aimed, fired, connected, out, body, calling, got, missed>>

\* GetShot with a timeout.
GetShotTimed(a) ==
  /\ call[a] = "idle"
  /\ call' = [call EXCEPT ![a] = "timed"]
  /\ UNCHANGED <<aimed, fired, prepared, connected, out, body, bullets, interrupted, asked, got, missed>>

\* GetShot without one; after a signal it returns at once.
GetShot(a) ==
  /\ call[a] = "idle" /\ a \notin interrupted
  /\ call' = [call EXCEPT ![a] = "blocking"]
  /\ UNCHANGED <<aimed, fired, prepared, connected, out, body, bullets, interrupted, asked, got, missed>>

\* The poll is over, with what it gave.  The timed call returns that.
PollEnds(a, gave) ==
  /\ call[a] \in {"timed", "blocking"}
  /\ IF call[a] = "timed"
       THEN /\ call' = [call EXCEPT ![a] = "idle"]
            /\ got' = [got EXCEPT ![a] = @ \o gave]
            /\ UNCHANGED bullets
       ELSE /\ call' = [call EXCEPT ![a] = "checking"]
            /\ bullets' = [bullets EXCEPT ![a] = gave]
            /\ UNCHANGED got
  /\ UNCHANGED <<aimed, fired, prepared, connected, out, asked>>

\* The frames of a shot, behind a first one that is empty.
Frames(n) == <<"key">> \o fired[n]

\* Mutant of Receive: the key is handed out with the bullets.
ReceiveKey(a) ==
  /\ body[a] # <<>>
  /\ PollEnds(a, <<[shot |-> Head(body[a]), bullets |-> Frames(Head(body[a]))]>>)
  /\ body' = [body EXCEPT ![a] = Tail(@)]
  /\ UNCHANGED <<interrupted, missed>>

\* There is a shot: it is read, and what is behind its first frame are the bullets.
Receive(a) ==
  /\ body[a] # <<>>
  /\ LET n == Head(body[a])
     IN IF Len(Frames(n)) >= 2
          THEN /\ PollEnds(a, <<[shot |-> n, bullets |-> Tail(Frames(n))]>>)
               /\ UNCHANGED missed
          ELSE /\ PollEnds(a, <<>>)
               /\ missed' = [missed EXCEPT ![a] = @ \cup {n}]
  /\ body' = [body EXCEPT ![a] = Tail(@)]
  /\ UNCHANGED interrupted

\* There is none until the timeout.
TimeOut(a) ==
  /\ body[a] = <<>>
  /\ PollEnds(a, <<>>)
  /\ UNCHANGED <<body, interrupted, missed>>

\* A signal ends a poll, and the flag stays set.
Signal(a) ==
  /\ "signal" \in Faults
  /\ a \notin interrupted
  /\ interrupted' = interrupted \cup {a}
  /\ \/ PollEnds(a, <<>>)
     \/ /\ call[a] \in {"idle", "checking"}
        /\ UNCHANGED <<aimed, fired, prepared, connected, out, call, bullets, asked, got>>
  /\ UNCHANGED <<body, missed>>

\* Another thread calls boost::thread::interrupt.  Between two calls it makes the next
\* one end, as if it came at its start.
Interrupt(a) ==
  /\ "thread" \in Faults
  /\ call[a] \in {"blocking", "checking"} /\ a \notin asked
  /\ asked' = asked \cup {a}
  /\ UNCHANGED <<aimed, fired, prepared, connected, out, body, call, bullets, interrupted, got, missed>>

\* Mutant of InterruptionPoint: the loop does not have one.
InterruptionPointMissing(a) == FALSE /\ UNCHANGED vars

\* The call ends with an exception.  If a shot was just received it is gone with it.
InterruptionPoint(a) ==
  /\ call[a] = "checking" /\ a \in asked
  /\ asked' = asked \ {a}
  /\ call' = [call EXCEPT ![a] = "idle"]
  /\ missed' = [missed EXCEPT ![a] = @ \cup {bullets[a][i].shot : i \in DOMAIN bullets[a]}]
  /\ bullets' = [bullets EXCEPT ![a] = <<>>]
  /\ UNCHANGED <<aimed, fired, prepared, connected, out, body, interrupted, got>>

\* Mutants of Checked: nothing is looked at but the signal, or nothing but the bullets.
CheckedSignal(a) ==
  /\ call[a] = "checking" /\ a \notin asked
  /\ call' = [call EXCEPT ![a] = IF a \in interrupted THEN "idle" ELSE "blocking"]
  /\ got' = [got EXCEPT ![a] = IF a \in interrupted THEN @ \o bullets[a] ELSE @]
  /\ bullets' = [bullets EXCEPT ![a] = <<>>]
  /\ UNCHANGED <<aimed, fired, prepared, connected, out, body, interrupted, asked, missed>>
CheckedBullets(a) ==
  /\ call[a] = "checking" /\ a \notin asked
  /\ call' = [call EXCEPT ![a] = IF bullets[a] # <<>> THEN "idle" ELSE "blocking"]
  /\ got' = [got EXCEPT ![a] = @ \o bullets[a]]
  /\ bullets' = [bullets EXCEPT ![a] = <<>>]
  /\ UNCHANGED <<aimed, fired, prepared, connected, out, body, interrupted, asked, missed>>

\* The loop ends with bullets or after a signal, and what there is is returned; or it
\* goes on.
Checked(a) ==
  /\ call[a] = "checking" /\ a \notin asked
  /\ call' = [call EXCEPT ![a] = IF a \in interrupted \/ bullets[a] # <<>> THEN "idle" ELSE "blocking"]
  /\ got' = [got EXCEPT ![a] = @ \o bullets[a]]
  /\ bullets' = [bullets EXCEPT ![a] = <<>>]
  /\ UNCHANGED <<aimed, fired, prepared, connected, out, body, interrupted, asked, missed>>

\* Between two calls; another Alien can take its place.
DestroyAlien(a) ==
  /\ "alien" \in Faults
  /\ a \in prepared /\ call[a] = "idle"
  /\ prepared' = prepared \ {a}
  /\ connected' = connected \ {a}
  /\ missed' = [missed EXCEPT ![a] = @ \cup Range(out[a]) \cup Range(body[a])]
  /\ out' = [out EXCEPT ![a] = <<>>]
  /\ body' = [body EXCEPT ![a] = <<>>]
  /\ UNCHANGED <<aimed, fired, calling, got>>

-----------------------------------------------------------------------------
AlienStep(a) ==
  \/ PrepareToBeShot(a) \/ Connect(a) \/ Transfer(a) \/ DestroyAlien(a)
  \/ GetShotTimed(a) \/ GetShot(a)
  \/ Receive(a) \/ TimeOut(a) \/ Signal(a)
  \/ Interrupt(a) \/ InterruptionPoint(a) \/ Checked(a)

Next ==
  \/ Aim \/ DestroyShotgun \/ \E shot \in Shots : Fire(shot)
  \/ \E a \in Aliens : AlienStep(a)

Spec == Init /\ [][Next]_vars

\* The network and the threads run and polls end; a caller whose process got no signal
\* keeps asking.
Fairness ==
  \A a \in Aliens :
    /\ WF_vars(Transfer(a))
    /\ WF_vars(Receive(a)) /\ WF_vars(TimeOut(a))
    /\ WF_vars(InterruptionPoint(a)) /\ WF_vars(Checked(a))
    /\ WF_vars(GetShot(a))

FairSpec == Spec /\ Fairness

-----------------------------------------------------------------------------
(* Properties *)

ShotsOf(s) == [i \in DOMAIN s |-> s[i].shot]

\* What an Alien was given, is about to be given and can still be given.
Stream(a) == ShotsOf(got[a]) \o ShotsOf(bullets[a]) \o body[a] \o out[a]

\* Every variable has its type.
Given == [shot : DOMAIN fired, bullets : Shots]
TypeOK ==
  /\ aimed \in BOOLEAN
  /\ fired \in Seq(Shots)
  /\ prepared \subseteq Aliens /\ connected \subseteq prepared
  /\ out \in [Aliens -> Seq(DOMAIN fired)] /\ body \in [Aliens -> Seq(DOMAIN fired)]
  /\ \A a \in Aliens : Len(out[a]) <= Hwm /\ Len(body[a]) <= Hwm
  /\ call \in [Aliens -> {"idle", "timed", "blocking", "checking"}]
  /\ bullets \in [Aliens -> Seq(Given)] /\ got \in [Aliens -> Seq(Given)]
  /\ \A a \in Aliens : call[a] # "checking" => bullets[a] = <<>>
  /\ interrupted \subseteq Aliens /\ asked \subseteq Aliens
  /\ missed \in [Aliens -> SUBSET DOMAIN fired]

\* Why a step can make an Alien miss a shot: it is fired while the Alien is not connected
\* or has no room for it; it has no bullets; it is in the pipe of the Shotgun that is
\* destroyed, or of the Alien; or an exception takes it on its way to the caller.
Excused(a, n) ==
  \/ n = Len(fired) + 1 /\ ~Hit(a)
  \/ n \in Range(body[a]) /\ fired[n] = <<>>
  \/ aimed /\ ~aimed' /\ n \in Range(out[a])
  \/ a \in prepared \ prepared'
  \/ a \in asked \ asked' /\ n \in Range(ShotsOf(bullets[a]))

\* Whatever goes away and whoever is slow: an Alien is given shots in the order they
\* were fired, whole and none twice.  Every other one can still be given, or is missed;
\* and those an Alien was connected for and had room for are given, whatever befalls the
\* others, until its Shotgun or it goes away or its thread is interrupted.
InOrder ==
  \A a \in Aliens :
    /\ \A i, j \in DOMAIN Stream(a) : i < j => Stream(a)[i] < Stream(a)[j]
    /\ missed[a] \cap Range(Stream(a)) = {}
    /\ missed[a] \cup Range(Stream(a)) = DOMAIN fired
    /\ \A i \in DOMAIN got[a] : /\ got[a][i].bullets = fired[got[a][i].shot]
                                /\ got[a][i].bullets # <<>>
NoneMissed == \A a \in Aliens : \A n \in missed'[a] \ missed[a] : Excused(a, n)
ShotsInOrder == []InOrder /\ [][NoneMissed]_vars

\* A blocking GetShot returns when its process got a signal, its thread is to be
\* interrupted or a shot has been received, also behind shots that have no bullets.
GetShotEnds ==
  \A a \in Aliens :
    /\ call[a] \in {"blocking", "checking"}
         /\ \/ a \in interrupted \cup asked
            \/ \E n \in Range(body[a]) : fired[n] # <<>>
       ~> call[a] = "idle"
    /\ \A n \in 1..MaxShots : n \in Range(out[a]) ~> n \notin Range(out[a] \o body[a]) \/ a \in interrupted
=============================================================================
