--------------------------- MODULE CrowbarHeadcrab ---------------------------
(***************************************************************************)
(* src/src/Crowbar.cpp and Headcrab.cpp, a REQ and a REP socket.           *)
(*                                                                         *)
(* Wield and ComeToLife try to connect and to bind again and again, with a *)
(* pause of 100 ms.  After that a Crowbar hits and waits for the answer in *)
(* turns, and the Headcrab takes a hit and answers it in turns.            *)
(*                                                                         *)
(* The n-th hit is called n.                                               *)
(***************************************************************************)
EXTENDS Integers, Sequences, FiniteSets

CONSTANTS
  Crowbars,
  ConnectRetries,  \* 100 in the code
  Faults,          \* which of "signal", "other" (another program binds there),
                   \* "Crowbar", "Headcrab" (it is destroyed) can occur
  MaxHits          \* bound: hits

ASSUME Assumptions ==
  /\ ConnectRetries \in Nat
  /\ MaxHits \in Nat

VARIABLES
  inproc,          \* whether the binding is an inproc one, in a shared context
  holder,          \* who has the address: "free", "other", "face" or "orphan"
  hpc,             \* the Headcrab: "none", "binding", "receive" or "reply"
  bindRetries,     \* connectRetries of GetFace
  theHits,         \* hits in the socket of the Headcrab
  theHit,          \* the hit it is to answer, or 0
  zctx_interrupted,
  mTip,            \* of each Crowbar: "none", "connecting", "connected", "unconnected"
  connectRetries,  \* of GetTip
  hits,            \* who made each hit
  pending,         \* the hit a Crowbar waits for the answer to, or 0
  pipe,            \* hits that have not left their Crowbar
  guts,            \* answers in the socket of each Crowbar
  lost             \* history: hits that went with a Headcrab, or to an orphan

headcrab == <<inproc, holder, hpc, bindRetries, theHit>>
tips == <<mTip, connectRetries>>
vars == <<headcrab, theHits, zctx_interrupted, tips, hits, pending, pipe, guts, lost>>

Init ==
  /\ inproc \in BOOLEAN
  /\ holder = "free" /\ hpc = "none" /\ bindRetries = 0
  /\ theHits = {} /\ theHit = 0
  /\ zctx_interrupted = FALSE
  /\ mTip = [c \in Crowbars |-> "none"]
  /\ connectRetries = [c \in Crowbars |-> 0]
  /\ hits = <<>>
  /\ pending = [c \in Crowbars |-> 0]
  /\ pipe = {}
  /\ guts = [c \in Crowbars |-> {}]
  /\ lost = {}

-----------------------------------------------------------------------------
(* The Headcrab *)

ComeToLife ==
  /\ hpc = "none"
  /\ hpc' = "binding"
  /\ bindRetries' = ConnectRetries
  /\ UNCHANGED <<inproc, holder, theHits, theHit, zctx_interrupted, tips, hits, pending, pipe, guts, lost>>

\* A bind in GetFace succeeds.  If it is the last one, GetFace returns NULL all the
\* same, and the socket stays, bound.
BindSucceeds ==
  /\ hpc = "binding"
  /\ holder = "free"
  /\ IF bindRetries > 0
       THEN hpc' = "receive" /\ holder' = "face"
       ELSE hpc' = "none" /\ holder' = "orphan"
  /\ UNCHANGED <<inproc, bindRetries, theHits, theHit, zctx_interrupted, tips, hits, pending, pipe, guts, lost>>

\* Mutant of BindFails: connectRetries is not counted.
BindFailsForever ==
  /\ hpc = "binding"
  /\ holder # "free"
  /\ hpc' = IF bindRetries > 0 THEN "binding" ELSE "none"
  /\ UNCHANGED <<inproc, holder, bindRetries, theHits, theHit, zctx_interrupted, tips, hits, pending, pipe, guts, lost>>

BindFails ==
  /\ hpc = "binding"
  /\ holder # "free"
  /\ bindRetries' = bindRetries - 1
  /\ hpc' = IF bindRetries > 0 THEN "binding" ELSE "none"
  /\ UNCHANGED <<inproc, holder, theHits, theHit, zctx_interrupted, tips, hits, pending, pipe, guts, lost>>

\* GetHitBlock and GetHitWait with a hit in the socket; a REP socket gives none
\* before the last one is answered.
GetHit(n) ==
  /\ hpc = "receive"
  /\ n \in theHits
  /\ theHits' = theHits \ {n}
  /\ theHit' = n
  /\ hpc' = "reply"
  /\ UNCHANGED <<inproc, holder, bindRetries, zctx_interrupted, tips, hits, pending, pipe, guts, lost>>

\* Mutant of SendSplatter: the answer is not sent.
SendSplatterDrops ==
  /\ hpc = "reply"
  /\ theHit' = 0
  /\ hpc' = "receive"
  /\ UNCHANGED <<inproc, holder, bindRetries, theHits, zctx_interrupted, tips, hits, pending, pipe, guts, lost>>

\* The answer goes to the socket that the hit came from, if that is still there.
SendSplatter ==
  /\ hpc = "reply"
  /\ LET c == hits[theHit]
     IN guts' = IF pending[c] = theHit THEN [guts EXCEPT ![c] = @ \cup {theHit}] ELSE guts
  /\ theHit' = 0
  /\ hpc' = "receive"
  /\ UNCHANGED <<inproc, holder, bindRetries, theHits, zctx_interrupted, tips, hits, pending, pipe, lost>>

\* The Headcrab is destroyed with its context, and all sockets in it; those of inproc
\* Crowbars are in it as well.
DestroyHeadcrab ==
  /\ "Headcrab" \in Faults /\ ~inproc
  /\ hpc # "binding"
  /\ hpc' = "none"
  /\ holder' = IF holder \in {"face", "orphan"} THEN "free" ELSE holder
  /\ lost' = lost \cup theHits \cup ({theHit} \ {0})
  /\ theHits' = {} /\ theHit' = 0
  /\ UNCHANGED <<inproc, bindRetries, zctx_interrupted, tips, hits, pending, pipe, guts>>

-----------------------------------------------------------------------------
(* The Crowbars *)

\* Wield; with a tip it does nothing.
Wield(c) ==
  /\ mTip[c] = "none"
  /\ mTip' = [mTip EXCEPT ![c] = "connecting"]
  /\ connectRetries' = [connectRetries EXCEPT ![c] = ConnectRetries]
  /\ UNCHANGED <<headcrab, theHits, zctx_interrupted, hits, pending, pipe, guts, lost>>

\* zsocket_connect does not wait for a peer, but an inproc one must be bound.
Connectable == inproc => holder \in {"face", "orphan", "other"}

\* A tip that is connected by the last try is destroyed.
ConnectSucceeds(c) ==
  /\ mTip[c] = "connecting"
  /\ Connectable
  /\ mTip' = [mTip EXCEPT ![c] = IF connectRetries[c] > 0 THEN "connected" ELSE "none"]
  /\ UNCHANGED <<headcrab, theHits, zctx_interrupted, connectRetries, hits, pending, pipe, guts, lost>>

\* The loop ends when there are no retries left, and when a signal came.  Only in
\* the former case is the tip destroyed.
ConnectFails(c) ==
  /\ mTip[c] = "connecting"
  /\ ~Connectable
  /\ connectRetries' = [connectRetries EXCEPT ![c] = @ - 1]
  /\ mTip' = [mTip EXCEPT ![c] =
                CASE connectRetries[c] > 0 /\ ~zctx_interrupted -> "connecting"
                  [] connectRetries[c] > 1 /\ zctx_interrupted -> "unconnected"
                  [] OTHER -> "none"]
  /\ UNCHANGED <<headcrab, theHits, zctx_interrupted, hits, pending, pipe, guts, lost>>

\* Mutant of PollForReady: the hit before need not be answered.
PollForReadyAlways(c) == mTip[c] = "connected"

\* A REQ socket is writable when it waits for no answer and has a pipe.
PollForReady(c) == mTip[c] = "connected" /\ pending[c] = 0

\* Flurry, and Swing.
Flurry(c) ==
  /\ PollForReady(c)
  /\ Len(hits) < MaxHits
  /\ hits' = Append(hits, c)
  /\ pending' = [pending EXCEPT ![c] = Len(hits) + 1]
  /\ pipe' = pipe \cup {Len(hits) + 1}
  /\ UNCHANGED <<headcrab, theHits, zctx_interrupted, tips, guts, lost>>

\* The hit arrives.  A socket that nobody reads takes it as well, and for good.
Travel(n) ==
  /\ n \in pipe
  /\ pipe' = pipe \ {n}
  /\ \/ holder = "face" /\ theHits' = theHits \cup {n} /\ UNCHANGED lost
     \/ holder = "orphan" /\ lost' = lost \cup {n} /\ UNCHANGED theHits
  /\ UNCHANGED <<headcrab, zctx_interrupted, tips, hits, pending, guts>>

\* BlockForKill, or WaitForKill, with an answer in the socket.
BlockForKill(c) ==
  /\ pending[c] \in guts[c]
  /\ guts' = [guts EXCEPT ![c] = {}]
  /\ pending' = [pending EXCEPT ![c] = 0]
  /\ UNCHANGED <<headcrab, theHits, zctx_interrupted, tips, hits, pipe, lost>>

\* A Crowbar that owns its context is destroyed with its socket, and a hit in it.  One
\* in the context of the Headcrab leaves its socket there, and the hit still travels.
DestroyCrowbar(c) ==
  /\ "Crowbar" \in Faults
  /\ mTip[c] \in {"connected", "unconnected"}
  /\ mTip' = [mTip EXCEPT ![c] = "none"]
  /\ pending' = [pending EXCEPT ![c] = 0]
  /\ pipe' = IF inproc THEN pipe ELSE pipe \ {pending[c]}
  /\ guts' = [guts EXCEPT ![c] = {}]
  /\ UNCHANGED <<headcrab, theHits, zctx_interrupted, connectRetries, hits, lost>>

-----------------------------------------------------------------------------
(* The environment: a signal, and another program at the address *)

Signal ==
  /\ "signal" \in Faults
  /\ ~zctx_interrupted
  /\ zctx_interrupted' = TRUE
  /\ UNCHANGED <<headcrab, theHits, tips, hits, pending, pipe, guts, lost>>

OtherBinds ==
  /\ "other" \in Faults
  /\ \/ holder = "free" /\ holder' = "other"
     \/ holder = "other" /\ holder' = "free"
  /\ UNCHANGED <<inproc, hpc, bindRetries, theHits, theHit, zctx_interrupted, tips, hits, pending, pipe, guts, lost>>

Next ==
  \/ ComeToLife \/ BindSucceeds \/ BindFails \/ SendSplatter \/ DestroyHeadcrab
  \/ \E n \in DOMAIN hits : GetHit(n) \/ Travel(n)
  \/ \E c \in Crowbars : \/ Wield(c) \/ ConnectSucceeds(c) \/ ConnectFails(c)
                         \/ Flurry(c) \/ BlockForKill(c) \/ DestroyCrowbar(c)
  \/ Signal \/ OtherBinds

Spec == Init /\ [][Next]_vars

\* Threads and the network run; ComeToLife is called until it succeeds, and the
\* Headcrab answers what it gets.
Fairness ==
  /\ WF_vars(ComeToLife) /\ WF_vars(BindSucceeds \/ BindFails) /\ WF_vars(SendSplatter)
  /\ \A n \in 1..MaxHits : SF_vars(GetHit(n)) /\ WF_vars(Travel(n))
  /\ \A c \in Crowbars : WF_vars(ConnectSucceeds(c) \/ ConnectFails(c)) /\ WF_vars(BlockForKill(c))

FairSpec == Spec /\ Fairness

-----------------------------------------------------------------------------
(* Properties *)

\* Every variable has its type.
TypeOK ==
  /\ inproc \in BOOLEAN
  /\ holder \in {"free", "other", "face", "orphan"}
  /\ hpc \in {"none", "binding", "receive", "reply"}
  /\ hpc \in {"receive", "reply"} <=> holder = "face"
  /\ bindRetries \in -1..ConnectRetries
  /\ hits \in Seq(Crowbars)
  /\ theHits \subseteq DOMAIN hits /\ pipe \subseteq DOMAIN hits
  /\ theHit \in 0..Len(hits) /\ (theHit # 0 <=> hpc = "reply")
  /\ zctx_interrupted \in BOOLEAN
  /\ mTip \in [Crowbars -> {"none", "connecting", "connected", "unconnected"}]
  /\ connectRetries \in [Crowbars -> -1..ConnectRetries]
  /\ pending \in [Crowbars -> 0..Len(hits)]
  /\ guts \in [Crowbars -> SUBSET DOMAIN hits]
  /\ lost \subseteq DOMAIN hits

\* Through retries and restarts, a hit is in one place at most, nothing but the hit
\* a Crowbar waits for is answered to it, and nobody gets the answer to the hit of
\* another.  Nothing else is on its way from it either; but for, in a shared context, older
\* hits of a Crowbar that is gone.
InLockstep ==
  /\ pipe \cap theHits = {} /\ theHit \notin pipe \cup theHits
  /\ \A n \in pipe : pending[hits[n]] = n \/ (inproc /\ pending[hits[n]] \notin 1..n)
  /\ \A c \in Crowbars :
       /\ pending[c] # 0 => hits[pending[c]] = c /\ mTip[c] = "connected"
       /\ guts[c] \subseteq {pending[c]}
       /\ guts[c] \cap (pipe \cup theHits \cup {theHit}) = {}

\* Crowbars and Headcrab are callers and one who answers: a hit is answered once, by the
\* Headcrab that took it, also when that, its Crowbar or the address has changed since,
\* and only the Crowbar that made it, and still waits, gets the answer.
Open == pipe \cup theHits \cup ({theHit} \ {0})
Answers == UNION {guts[c] : c \in Crowbars}
Calls == INSTANCE RequestReply WITH
           Callers <- Crowbars, requests <- hits, waiting <- pending,
           open <- Open, answers <- Answers
ImplementsCalls == Calls!Spec

\* Wield and ComeToLife return, whoever has the address and whatever goes away.
TryingEnds ==
  /\ \A c \in Crowbars : mTip[c] = "connecting" ~> mTip[c] # "connecting"
  /\ hpc = "binding" ~> hpc # "binding"

\* A Crowbar gets the answer to its hit, unless there is no Headcrab to take it or
\* the Headcrab that took it goes away.
HitIsAnswered ==
  \A c \in Crowbars : \A n \in 1..MaxHits :
    pending[c] = n ~> pending[c] # n \/ n \in lost \/ hpc \notin {"receive", "reply"}
=============================================================================
