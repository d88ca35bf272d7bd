----------------------------- MODULE ZeroMQPair -----------------------------
(***************************************************************************)
(* src/src/ZeroMQ.cpp: a queue of pointers between two threads, a pair of  *)
(* PAIR sockets in one context.  The object that owns the context is the   *)
(* server and sends; its copies are clients and receive.  One client at a  *)
(* time is there, and others can follow it; whether the server takes one   *)
(* depends on what it has read of the client before.                       *)
(*                                                                         *)
(* The n-th pointer sent is called n.                                      *)
(***************************************************************************)
EXTENDS Integers, Sequences, SequencesExt, FiniteSets

CONSTANTS
  HighWater,     \* messages the pipe holds, each way: 2048 at each socket in the code
  Closing,       \* which of "server", "client" are destroyed
  MaxPointers,   \* bound: pointers sent
  MaxReady       \* bound: ready messages sent

ASSUME Assumptions ==
  /\ HighWater \in Nat \ {0}
  /\ MaxPointers \in Nat /\ MaxReady \in Nat

VARIABLES
  server,    \* "none", "open", "waiting" in WaitForClient, "sending" in SendPointer,
             \* "closing" in its destructor, "gone"
  client,    \* "none", "open", "ready" in SendClientReady
  pipe,      \* the server's pipe: "none", "live" to the client there is, "closed" by one
             \* that is gone, which the server does not know, "old" once it does
  sent,      \* pointers sent
  pointers,  \* pointers on their way
  readies,   \* ready messages on their way
  readied,   \* history: ready messages sent
  got,       \* history: what GetPointer returned
  lost       \* history: pointers nobody can receive any more

down == <<sent, pointers, got, lost>>
up == <<readies, readied>>
vars == <<server, client, pipe, down, up>>

Init ==
  /\ server = "none" /\ client = "none" /\ pipe = "none"
  /\ sent = 0 /\ pointers = <<>> /\ readies = 0
  /\ readied = 0 /\ got = <<>> /\ lost = {}

\* What is on its way to the client when its pipe ends.
LosePointers ==
  /\ lost' = lost \cup Range(pointers)
  /\ pointers' = <<>>
  /\ UNCHANGED <<sent, got>>

-----------------------------------------------------------------------------
(* The server *)

Initialize ==
  /\ server = "none"
  /\ server' = "open"
  /\ UNCHANGED <<client, pipe, down, up>>

WaitForClient ==
  /\ server = "open"
  /\ server' = "waiting"
  /\ UNCHANGED <<client, pipe, down, up>>

\* WaitForClient returns when there is a message, whatever its timeout: it polls
\* with -1.
ClientIsReady ==
  /\ server = "waiting"
  /\ readies > 0
  /\ readies' = readies - 1
  /\ server' = "open"
  /\ UNCHANGED <<client, pipe, down, readied>>

SendPointer ==
  /\ server = "open"
  /\ sent < MaxPointers
  /\ server' = "sending"
  /\ UNCHANGED <<client, pipe, down, up>>

\* Mutant of PointerSent: it does not wait, and its result is not looked at.
PointerSentOver ==
  /\ server = "sending"
  /\ sent < MaxPointers
  /\ sent' = sent + 1
  /\ pointers' = IF pipe \in {"live", "closed"} /\ Len(pointers) < HighWater
                   THEN Append(pointers, sent') ELSE pointers
  /\ server' = "open"
  /\ UNCHANGED <<client, pipe, up, got, lost>>

\* SendPointer waits until there is a client, as far as the server knows, and room.
PointerSent ==
  /\ server = "sending"
  /\ pipe \in {"live", "closed"}
  /\ Len(pointers) < HighWater
  /\ sent' = sent + 1
  /\ pointers' = Append(pointers, sent')
  /\ server' = "open"
  /\ UNCHANGED <<client, pipe, up, got, lost>>

\* libzmq tells the server that its client has closed: nothing more can be sent to it.
\* The pipe stays, for the ready messages in it have not been read.
ClientIsGone ==
  /\ pipe = "closed"
  /\ pipe' = "old"
  /\ LosePointers
  /\ UNCHANGED <<server, client, up>>

\* Where there is nothing left but the mark of its end, the pipe goes when the server
\* polls: zmq_poll looks for messages, too, where it was asked for room.
Polling == server \in {"waiting", "sending"}

PipeEnds ==
  /\ Polling
  /\ pipe = "old" /\ readies = 0
  /\ pipe' = "none"
  /\ UNCHANGED <<server, client, down, up>>

\* ~ZeroMQ of the server: once zmq_term is called nothing can be received, and it
\* returns when the client has closed its socket.
CloseServer ==
  /\ "server" \in Closing
  /\ server = "open"
  /\ server' = "closing"
  /\ pipe' = "none"
  /\ LosePointers
  /\ readies' = 0
  /\ UNCHANGED <<client, readied>>

ServerGone ==
  /\ server = "closing" /\ client = "none"
  /\ server' = "gone"
  /\ UNCHANGED <<client, pipe, down, up>>

-----------------------------------------------------------------------------
(* The client *)

Bound == server \in {"open", "waiting", "sending"}

\* zmq_connect succeeds, but the PAIR socket of the server has one pipe: while it has
\* that of an earlier client it refuses the new one, which is not tried again.
Connect == pipe' = IF pipe = "none" THEN "live" ELSE pipe

Refused == client # "none" /\ Bound /\ pipe # "live"

\* Initialize of a copy; before the server is bound it fails.
ClientInitialize ==
  /\ client = "none" /\ Bound
  /\ client' = "open"
  /\ Connect
  /\ UNCHANGED <<server, down, up>>

\* It initializes a client that is not yet.
SendClientReady ==
  /\ \/ client = "open" /\ UNCHANGED pipe
     \/ client = "none" /\ Bound /\ Connect
  /\ readied < MaxReady
  /\ client' = "ready"
  /\ UNCHANGED <<server, down, up>>

\* There is room, or there is no context any more and the call fails.
ReadySent ==
  /\ client = "ready"
  /\ client' = "open"
  /\ \/ pipe = "live" /\ readies < HighWater /\ readies' = readies + 1 /\ readied' = readied + 1
     \/ ~Bound /\ UNCHANGED up
  /\ UNCHANGED <<server, pipe, down>>

\* Until the refusal has come to it, a client's ready messages go into the refused pipe,
\* and with it; from then on it waits for room.
ReadyRefused ==
  /\ client = "ready" /\ Refused
  /\ client' = "open"
  /\ readied' = readied + 1
  /\ UNCHANGED <<server, pipe, down, readies>>


\* GetPointer with something to receive, now or at the end of its poll.
GetPointer ==
  /\ client = "open" /\ pipe = "live"
  /\ pointers # <<>>
  /\ got' = Append(got, Head(pointers))
  /\ pointers' = Tail(pointers)
  /\ UNCHANGED <<server, client, pipe, up, sent, lost>>

\* ~ZeroMQ of the client.  Its ready messages stay in the pipe, until the server has
\* read them.
CloseClient ==
  /\ "client" \in Closing
  /\ client = "open"
  /\ client' = "none"
  /\ pipe' = IF pipe = "live" THEN "closed" ELSE pipe
  /\ UNCHANGED <<server, down, up>>

-----------------------------------------------------------------------------
ServerStep ==
  \/ Initialize \/ WaitForClient \/ ClientIsReady
  \/ SendPointer \/ PointerSent \/ ClientIsGone \/ PipeEnds \/ CloseServer \/ ServerGone

ClientStep ==
  \/ ClientInitialize \/ SendClientReady \/ ReadySent \/ ReadyRefused
  \/ GetPointer \/ CloseClient

Next == ServerStep \/ ClientStep

Spec == Init /\ [][Next]_vars

\* Both threads run, the client keeps asking for pointers, and a server that polls is told
\* what became of its client.
Fairness ==
  /\ WF_vars(ClientIsReady) /\ WF_vars(PointerSent) /\ WF_vars(ReadySent) /\ WF_vars(ServerGone)
  /\ WF_vars(Polling /\ ClientIsGone) /\ WF_vars(PipeEnds)
  /\ SF_vars(GetPointer)

FairSpec == Spec /\ Fairness

-----------------------------------------------------------------------------
(* Properties *)

\* Every variable has its type.
TypeOK ==
  /\ server \in {"none", "open", "waiting", "sending", "closing", "gone"}
  /\ client \in {"none", "open", "ready"}
  /\ pipe \in {"none", "live", "closed", "old"}
  /\ sent \in Nat
  /\ pointers \in Seq(1..sent) /\ Len(pointers) <= HighWater
  /\ readies \in 0..HighWater /\ readied \in Nat
  /\ got \in Seq(1..sent)
  /\ lost \subseteq 1..sent
  /\ server = "none" => client = "none"

\* Every pointer that SendPointer took is received once, on its way, or lost with
\* the client or the server it was with; and pointers keep their order.
PointersOnce ==
  /\ \A i, j \in DOMAIN (got \o pointers) : i < j => (got \o pointers)[i] < (got \o pointers)[j]
  /\ lost \cap Range(got \o pointers) = {}
  /\ lost \cup Range(got \o pointers) = 1..sent

\* The two threads share a bounded queue.  It drops what it holds, all of it, in a step in
\* which the server closes or learns that its client has, and in no other step.
Queue == INSTANCE BoundedQueue WITH
           Ends <- {"server", "client"}, Capacity <- HighWater, Lossy <- TRUE,
           ends <- {e \in {"server", "client"} :
                      IF e = "server" THEN Bound ELSE pipe \in {"live", "closed"}},
           put <- sent, inside <- pointers, taken <- got
ImplementsQueue == Queue!Spec

=============================================================================
