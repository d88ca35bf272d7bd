---------------------------- MODULE RifleVampire ----------------------------
(***************************************************************************)
(* src/src/Rifle.cpp and Vampire.cpp, a PUSH and a PULL socket.  One side  *)
(* is a single object that binds; the objects of the other side connect.   *)
(*                                                                         *)
(* A connecting Rifle can queue bullets as soon as it aims; a bound one    *)
(* only while there is a Vampire.  A message has one frame and is known to *)
(* the Vampire by its size only.                                           *)
(*                                                                         *)
(* The n-th bullet is called n, and calls[n] is the call that fired it.    *)
(***************************************************************************)
EXTENDS Integers, Sequences, FiniteSets, SequencesExt

CONSTANTS
  Rifles, Vampires,
  Owners,       \* the sides that may bind, of "Rifle" and "Vampire"
  Bullets,      \* what is fired: records [op, bytes]; none or NULL has 0 bytes
  Reads,        \* the calls of Vampires, "GetShot", "GetStake", "GetStakes"
  Hwm,          \* what one pipe holds, on either side
  Faults,       \* which of "Rifle", "Vampire" (it is destroyed), "signal" occur
  MaxShots,     \* bound: bullets fired
  MaxAims       \* bound: how often one Rifle is aimed

Pointer == 8    \* sizeof (void*)
Pair == 16      \* sizeof (std::pair<void*, unsigned int>)

ASSUME Assumptions ==
  /\ Rifles # {} /\ Vampires # {}
  /\ Owners \subseteq {"Rifle", "Vampire"}
  /\ Bullets \subseteq [op : {"Fire", "FireZeroCopy", "FireStake", "FireStakes"}, bytes : Nat]
  /\ \A b \in Bullets : /\ b.op = "FireStake" => b.bytes \in {0, Pointer}
                        /\ b.op = "FireStakes" => b.bytes % Pair = 0
  /\ Hwm \in Nat \ {0}
  /\ MaxShots \in Nat /\ MaxAims \in Nat

VARIABLES
  owner,      \* who binds, "Rifle" or "Vampire", from the start to the end
  aimed,      \* the Rifles with a chamber
  prepared,   \* the Vampires with a body
  aims,       \* how often each Rifle was aimed
  pipes,      \* the pairs <<Rifle, Vampire>> whose Rifle has a pipe to the Vampire
  calls,      \* every call of a Rifle [by, aim, bullet, status]
  out,        \* bullets in the pipe of a Rifle to a Vampire
  body,       \* bullets a Vampire has received and not read
  freed,      \* how often each bullet that was not copied was freed
  got,        \* history: what a Vampire's calls returned [bullet, how]
  lost        \* history: bullets dropped by a socket or as invalid

rifle == <<owner, aimed, aims, calls>>
vars == <<rifle, prepared, pipes, out, body, freed, got, lost>>

Init ==
  /\ owner \in Owners
  /\ aimed = {} /\ prepared = {} /\ pipes = {}
  /\ aims = [r \in Rifles |-> 0]
  /\ calls = <<>> /\ freed = <<>>
  /\ out = [p \in Rifles \X Vampires |-> <<>>]
  /\ body = [v \in Vampires |-> {}]
  /\ got = [v \in Vampires |-> <<>>]
  /\ lost = {}

ZeroCopy(n) == calls[n].bullet.op = "FireZeroCopy"
Returned(n) == calls[n].status \in {"true", "false"}
Idle(r) == \A n \in DOMAIN calls : calls[n].by = r => Returned(n)

\* The bullets in `bullets` are not needed any more: FreeFunction is called, or delete.
Free(bullets) == [n \in DOMAIN freed |-> IF n \in bullets /\ ZeroCopy(n) THEN freed[n] + 1 ELSE freed[n]]

\* The side that binds is one object.
Shooters == IF owner = "Rifle" THEN {CHOOSE r \in Rifles : TRUE} ELSE Rifles
Targets == IF owner = "Vampire" THEN {CHOOSE v \in Vampires : TRUE} ELSE Vampires

-----------------------------------------------------------------------------
(* The Rifles *)

Aim(r) ==
  /\ r \in Shooters \ aimed /\ aims[r] < MaxAims
  /\ aimed' = aimed \cup {r}
  /\ aims' = [aims EXCEPT ![r] = @ + 1]
  /\ pipes' = IF owner = "Vampire" THEN pipes \cup ({r} \X Targets) ELSE pipes
  /\ UNCHANGED <<owner, calls, prepared, out, body, freed, got, lost>>

\* A call begins.  Without a chamber, or with nothing to send, it returns at once,
\* and FireZeroCopy frees what it was given.
Fire(r, bullet) ==
  /\ Idle(r)
  /\ Len(calls) < MaxShots
  /\ LET refused == r \notin aimed \/ bullet.bytes = 0
     IN /\ calls' = Append(calls, [by |-> r, aim |-> aims[r], bullet |-> bullet,
                                   status |-> IF refused THEN "false" ELSE "polling"])
        /\ freed' = Append(freed, IF refused /\ bullet.op = "FireZeroCopy" THEN 1 ELSE 0)
  /\ UNCHANGED <<owner, aimed, aims, prepared, pipes, out, body, got, lost>>

Writable(r) == {p \in pipes : p[1] = r /\ Len(out[p]) < Hwm}

PollReady(n) ==
  /\ calls[n].status = "polling"
  /\ Writable(calls[n].by) # {}
  /\ calls' = [calls EXCEPT ![n].status = "ready"]
  /\ UNCHANGED <<owner, aimed, aims, prepared, pipes, out, body, freed, got, lost>>

\* Mutants of Fails: the string is leaked, or sent after all.
FailsLeaking(n) ==
  /\ calls' = [calls EXCEPT ![n].status = "false"]
  /\ UNCHANGED <<owner, aimed, aims, prepared, pipes, out, body, freed, got, lost>>
FailsQueued(n) ==
  /\ calls' = [calls EXCEPT ![n].status = "false"]
  /\ \E p \in pipes : p[1] = calls[n].by /\ out' = [out EXCEPT ![p] = Append(@, n)]
  /\ UNCHANGED <<owner, aimed, aims, prepared, pipes, body, freed, got, lost>>

\* The call returns false.  FireZeroCopy deletes the string itself; the message that
\* may hold it already is not closed, so that FreeFunction is not called.
Fails(n) ==
  /\ calls' = [calls EXCEPT ![n].status = "false"]
  /\ freed' = Free({n})
  /\ UNCHANGED <<owner, aimed, aims, prepared, pipes, out, body, got, lost>>

\* waitToFire is over.
PollFails(n) ==
  /\ calls[n].status = "polling"
  /\ Writable(calls[n].by) = {}
  /\ Fails(n)

\* Mutant of Send: the result of the send is not looked at.
SendDrops(n) ==
  /\ calls[n].status = "ready"
  /\ calls' = [calls EXCEPT ![n].status = "true"]
  /\ UNCHANGED <<owner, aimed, aims, prepared, pipes, out, body, freed, got, lost>>

Send(n) ==
  /\ calls[n].status = "ready"
  /\ \E p \in Writable(calls[n].by) : out' = [out EXCEPT ![p] = Append(@, n)]
  /\ calls' = [calls EXCEPT ![n].status = "true"]
  /\ UNCHANGED <<owner, aimed, aims, prepared, pipes, body, freed, got, lost>>

\* Mutant of SendFails: the send of FireZeroCopy waits for a pipe, too.
SendFailsWaits(n) == FALSE /\ UNCHANGED vars

\* The pipe that the poll found is gone.  FireZeroCopy does not wait for another; the
\* other calls wait, however long it takes.
SendFails(n) ==
  /\ calls[n].status = "ready"
  /\ Writable(calls[n].by) = {}
  /\ ZeroCopy(n)
  /\ Fails(n)

\* A signal ends the poll, or the wait in the send.
Interrupt(n) ==
  /\ "signal" \in Faults
  /\ \/ calls[n].status = "polling"
     \/ calls[n].status = "ready" /\ Writable(calls[n].by) = {}
  /\ Fails(n)

\* Bullets in the pipes are dropped: the context does not linger.
DropPipes(gone) ==
  LET dropped == UNION {Range(out[p]) : p \in gone}
  IN /\ pipes' = pipes \ gone
     /\ out' = [p \in DOMAIN out |-> IF p \in gone THEN <<>> ELSE out[p]]
     /\ lost' = lost \cup dropped
     /\ freed' = Free(dropped)

\* Destroy, by the thread that fires.
DestroyRifle(r) ==
  /\ "Rifle" \in Faults
  /\ r \in aimed /\ Idle(r)
  /\ aimed' = aimed \ {r}
  /\ DropPipes({p \in pipes : p[1] = r})
  /\ UNCHANGED <<owner, aims, calls, prepared, body, got>>

-----------------------------------------------------------------------------
(* The Vampires, and the network *)

PrepareToBeShot(v) ==
  /\ v \in Targets \ prepared
  /\ prepared' = prepared \cup {v}
  /\ UNCHANGED <<rifle, pipes, out, body, freed, got, lost>>

\* A bound Rifle gets a pipe for each Vampire that connects.
Connect(r, v) ==
  /\ owner = "Rifle"
  /\ r \in aimed /\ v \in prepared /\ <<r, v>> \notin pipes
  /\ pipes' = pipes \cup {<<r, v>>}
  /\ UNCHANGED <<rifle, prepared, out, body, freed, got, lost>>

\* Bullets of one connection stay in order.
Connection(n) == <<calls[n].by, calls[n].aim>>
Queued(v, n) == {m \in body[v] : Connection(m) = Connection(n)}

\* A bullet leaves the Rifle's process.
Transfer(r, v) ==
  /\ <<r, v>> \in pipes /\ v \in prepared
  /\ out[r, v] # <<>>
  /\ LET n == Head(out[r, v])
     IN /\ Cardinality(Queued(v, n)) < Hwm
        /\ body' = [body EXCEPT ![v] = @ \cup {n}]
        /\ freed' = Free({n})
  /\ out' = [out EXCEPT ![<<r, v>>] = Tail(@)]
  /\ UNCHANGED <<rifle, prepared, pipes, got, lost>>

\* Mutant of Fits: enough for one pointer, not for a pair.
FitsPointer(how, bytes) ==
  \/ how = "GetShot"
  \/ how = "GetStake" /\ bytes = Pointer
  \/ how = "GetStakes" /\ bytes >= Pointer

\* What GetShot, GetStake and GetStakes take for what they are to return.
Fits(how, bytes) ==
  \/ how = "GetShot"
  \/ how = "GetStake" /\ bytes = Pointer
  \/ how = "GetStakes" /\ bytes >= Pair

\* A call with something in the socket: the message is taken, and dropped when it
\* does not fit.
Get(v, how) ==
  /\ v \in prepared
  /\ \E n \in body[v] :
       /\ \A m \in Queued(v, n) : n <= m
       /\ body' = [body EXCEPT ![v] = @ \ {n}]
       /\ IF Fits(how, calls[n].bullet.bytes)
            THEN got' = [got EXCEPT ![v] = Append(@, [bullet |-> n, how |-> how])] /\ lost' = lost
            ELSE lost' = lost \cup {n} /\ got' = got
  /\ UNCHANGED <<rifle, prepared, pipes, out, freed>>

\* Destroy.  What the Vampire received is gone; a Rifle that connected keeps its
\* pipe for the next one to bind, a bound one does not.
DestroyVampire(v) ==
  /\ "Vampire" \in Faults
  /\ v \in prepared
  /\ prepared' = prepared \ {v}
  /\ LET gone == IF owner = "Rifle" THEN {p \in pipes : p[2] = v} ELSE {}
         dropped == UNION {Range(out[p]) : p \in gone}
     IN /\ pipes' = pipes \ gone
        /\ out' = [p \in DOMAIN out |-> IF p \in gone THEN <<>> ELSE out[p]]
        /\ lost' = lost \cup dropped \cup body[v]
        /\ freed' = Free(dropped)
  /\ body' = [body EXCEPT ![v] = {}]
  /\ UNCHANGED <<rifle, got>>

-----------------------------------------------------------------------------
RifleStep ==
  \/ \E r \in Rifles : Aim(r) \/ DestroyRifle(r) \/ \E b \in Bullets : Fire(r, b)
  \/ \E n \in DOMAIN calls :
       PollReady(n) \/ PollFails(n) \/ Send(n) \/ SendFails(n) \/ Interrupt(n)

VampireStep(v) ==
  \/ PrepareToBeShot(v) \/ DestroyVampire(v)
  \/ \E r \in Rifles : Connect(r, v) \/ Transfer(r, v)
  \/ \E how \in Reads : Get(v, how)

Next == RifleStep \/ \E v \in Vampires : VampireStep(v)

Spec == Init /\ [][Next]_vars

\* The network and the threads run, polls end, and Vampires are made and keep
\* reading.  Nothing makes a signal
\* come, or keeps a Vampire from going away again.
Fairness ==
  /\ \A n \in 1..MaxShots :
       WF_vars(n \in DOMAIN calls /\ (PollReady(n) \/ PollFails(n) \/ Send(n) \/ SendFails(n)))
  /\ \A v \in Vampires :
       /\ WF_vars(PrepareToBeShot(v))
       /\ \A how \in Reads : WF_vars(Get(v, how))
       /\ \A r \in Rifles : WF_vars(Transfer(r, v))

FairSpec == Spec /\ Fairness

-----------------------------------------------------------------------------
(* Properties *)

\* Every variable has its type.
TypeOK ==
  /\ aimed \subseteq Rifles /\ prepared \subseteq Vampires
  /\ aims \in [Rifles -> Nat]
  /\ pipes \subseteq aimed \X Vampires
  /\ calls \in Seq([by : Rifles, aim : Nat, bullet : Bullets, status : {"polling", "ready", "true", "false"}])
  /\ out \in [Rifles \X Vampires -> Seq(DOMAIN calls)]
  /\ \A p \in Rifles \X Vampires : Len(out[p]) <= Hwm
  /\ body \in [Vampires -> SUBSET DOMAIN calls]
  /\ freed \in [DOMAIN calls -> {0, 1}]
  /\ got \in [Vampires -> Seq([bullet : DOMAIN calls, how : Reads])]
  /\ lost \subseteq DOMAIN calls

InRifle == UNION {Range(out[p]) : p \in DOMAIN out}
GotBy(v) == {got[v][i].bullet : i \in DOMAIN got[v]}

\* A string that is not copied is freed once: not while the call that got it runs or
\* the Rifle still has it to send, and right when it fails, is sent or is dropped.
\* Its caller never frees it.
FreedOnce ==
  \A n \in DOMAIN calls :
    freed[n] = IF ZeroCopy(n) /\ Returned(n) /\ n \notin InRifle THEN 1 ELSE 0

\* Whatever is destroyed and whenever: what was fired with success is in one place,
\* in one Rifle, one Vampire, with one reader or lost; what was not, the caller can
\* fire again, nobody has it.
Accounted ==
  \A n \in DOMAIN calls :
    LET toSend == {p \in DOMAIN out : n \in Range(out[p])}
        toRead == {v \in Vampires : n \in body[v]}
        readBy == {v \in Vampires : n \in GotBy(v)}
    IN Cardinality(toSend) + Cardinality(toRead) + Cardinality(readBy) + Cardinality({n} \cap lost)
         = IF calls[n].status = "true" THEN 1 ELSE 0

\* Pointers come out the way they went in: GetStake never gives what FireStakes sent,
\* nor GetStakes what FireStake did.
PointersKeepTheirKind ==
  \A v \in Vampires : \A i \in DOMAIN got[v] :
    LET op == calls[got[v][i].bullet].bullet.op
    IN /\ got[v][i].how = "GetStake" => op # "FireStakes"
       /\ got[v][i].how = "GetStakes" => op # "FireStake"

\* A call returns after its poll, whoever is destroyed meanwhile.  FireZeroCopy never
\* waits again; the others do when the pipe that the poll found went away with its
\* Vampire, for as long as there is no other.
PipesOf(r) == {p \in pipes : p[1] = r}
FireReturns ==
  \A n \in 1..MaxShots :
    n \in DOMAIN calls ~>
      /\ n \in DOMAIN calls
      /\ Returned(n) \/ (calls[n].status = "ready" /\ ~ZeroCopy(n) /\ PipesOf(calls[n].by) = {})

\* A bullet that was fired with success is read, unless the Rifle or the Vampire that
\* has it is destroyed; while there is no Vampire, it may have to wait for one.
BulletArrives ==
  \A n \in 1..MaxShots :
    (n \in DOMAIN calls /\ calls[n].status = "true") ~>
      \/ \E v \in Vampires : n \in GotBy(v)
      \/ n \in lost
      \/ prepared = {}
=============================================================================
