----------------------------- MODULE HelloServer -----------------------------
(***************************************************************************)
(* practica1/ServidorMultiHilo: a server that greets, one thread per       *)
(* connection (server.c), and the clients that say hello, wait for one     *)
(* answer and exit (client.c).                                             *)
(*                                                                         *)
(* The main thread keeps NUMBER_OF_THREADS connections at most: with the   *)
(* arrays full it joins every thread, closes every descriptor and starts   *)
(* again at index 0.  A thread is handed the address of its entry of fds,  *)
(* and reads it once it runs.                                              *)
(***************************************************************************)
EXTENDS Integers, Sequences, FiniteSets, FiniteSetsExt

CONSTANTS
    Clients,           \* client processes, one connection each
    Killable,          \* bound: clients that may be killed, at any moment
    NumberOfThreads,   \* NUMBER_OF_THREADS
    Backlog,           \* connections that wait to be accepted (listen)
    NoClient           \* what a free descriptor is connected to

ASSUME HelloAssumption ==
    /\ IsFiniteSet(Clients)
    /\ Killable \subseteq Clients
    /\ NumberOfThreads \in Nat \ {0}
    /\ Backlog \in Nat \ {0}
    /\ NoClient \notin Clients

VARIABLES
    server,          \* "up", "stopped" by Ctrl-C, "failed" by an error
    client,          \* life of every client process
    said,            \* clients whose hello is in the server's receive buffer
    answers,         \* answers sent on every client's connection
    queue,           \* connections the kernel has completed, not accepted
    main,            \* what the main thread is about to do
    turn,            \* i of its loops
    current_thread,
    fds,
    threads,         \* where every thread of the array is
    client_socket,   \* local of every thread
    descriptor       \* the client every descriptor is connected to

clientVars == <<client, said>>
mainVars == <<main, turn, current_thread, fds>>
threadVars == <<threads, client_socket>>
vars == <<server, clientVars, answers, queue, mainVars, threadVars, descriptor>>

Slots == 0 .. NumberOfThreads - 1
Descriptors == 0 .. Cardinality(Clients) - 1   \* enough for all at once
Unset == -1

Init ==
    /\ server = "up"
    /\ client = [c \in Clients |-> "idle"]
    /\ said = {}
    /\ answers = [c \in Clients |-> 0]
    /\ queue = <<>>
    /\ main = "accept"
    /\ turn = 0
    /\ current_thread = 0
    /\ fds = [i \in Slots |-> Unset]
    /\ threads = [i \in Slots |-> "none"]
    /\ client_socket = [i \in Slots |-> Unset]
    /\ descriptor = [fd \in Descriptors |-> NoClient]

----------------------------------------------------------------------------
(* Clients (client.c).                                                     *)

\* connect, tried again and again until the server listens and has room.
Connect(c) ==
    /\ server = "up" /\ client[c] = "idle" /\ Len(queue) < Backlog
    /\ client' = [client EXCEPT ![c] = "connected"]
    /\ queue' = Append(queue, c)
    /\ UNCHANGED <<server, said, answers, mainVars, threadVars, descriptor>>

SendHello(c) ==
    /\ server = "up" /\ client[c] = "connected"
    /\ client' = [client EXCEPT ![c] = "waiting"]
    /\ said' = said \cup {c}
    /\ UNCHANGED <<server, answers, queue, mainVars, threadVars, descriptor>>

\* The only recv, after which the process ends.
ReceiveAnswer(c) ==
    /\ client[c] = "waiting" /\ answers[c] > 0
    /\ client' = [client EXCEPT ![c] = "answered"]
    /\ UNCHANGED <<server, said, answers, queue, mainVars, threadVars, descriptor>>

\* The server is gone: send or recv fails, or recv returns 0; it ends too.
LoseServer(c) ==
    /\ server # "up" /\ client[c] \in {"connected", "waiting"} /\ answers[c] = 0
    /\ client' = [client EXCEPT ![c] = "unanswered"]
    /\ UNCHANGED <<server, said, answers, queue, mainVars, threadVars, descriptor>>

Kill(c) ==
    /\ c \in Killable /\ client[c] \in {"connected", "waiting"}
    /\ client' = [client EXCEPT ![c] = "killed"]
    /\ UNCHANGED <<server, said, answers, queue, mainVars, threadVars, descriptor>>

Closed(c) == client[c] \in {"answered", "unanswered", "killed"}

----------------------------------------------------------------------------
(* The main thread (main of server.c).                                     *)

LowestFree == Min({fd \in Descriptors : descriptor[fd] = NoClient})

\* Mutant: one connection more than there are entries to close.
IsFullAfterOneMore(n) == n > NumberOfThreads
IsFull(n) == n >= NumberOfThreads

\* accept into fds[current_thread], a thread for it, and the next entry.
Accept ==
    /\ server = "up" /\ main = "accept" /\ queue # <<>>
    /\ descriptor' = [descriptor EXCEPT ![LowestFree] = Head(queue)]
    /\ queue' = Tail(queue)
    /\ fds' = [fds EXCEPT ![current_thread] = LowestFree]
    /\ threads' = [threads EXCEPT ![current_thread] = "created"]
    /\ client_socket' = [client_socket EXCEPT ![current_thread] = Unset]
    /\ current_thread' = current_thread + 1
    /\ main' = IF IsFull(current_thread + 1) THEN "join" ELSE "accept"
    /\ UNCHANGED <<server, clientVars, answers, turn>>

\* Mutant: the threads are not joined.
NeedNotEnd(i) == TRUE
HasEnded(i) == threads[i] = "exited"

\* Where a loop over the arrays goes on, and what follows it; mutant: the
\* last entry is left out.
NextTurnShort(loop, after) ==
    IF turn + 2 < NumberOfThreads THEN turn' = turn + 1 /\ main' = loop
    ELSE turn' = 0 /\ main' = after
NextTurn(loop, after) ==
    IF turn + 1 < NumberOfThreads THEN turn' = turn + 1 /\ main' = loop
    ELSE turn' = 0 /\ main' = after

JoinThread ==
    /\ server = "up" /\ main = "join" /\ HasEnded(turn)
    /\ NextTurn("join", "close")
    /\ UNCHANGED <<server, clientVars, answers, queue, current_thread, fds,
                   threadVars, descriptor>>

\* close(fds[i]); after the last one the arrays are free again.
CloseDescriptor ==
    /\ server = "up" /\ main = "close"
    /\ descriptor' = [descriptor EXCEPT ![fds[turn]] = NoClient]
    /\ NextTurn("close", "accept")
    /\ current_thread' = IF main' = "accept" THEN 0 ELSE current_thread
    /\ UNCHANGED <<server, clientVars, answers, queue, fds, threadVars>>

\* Ctrl-C: sighandler closes the socket and ends the process.
Stop ==
    /\ server = "up"
    /\ server' = "stopped"
    /\ UNCHANGED <<clientVars, answers, queue, mainVars, threadVars, descriptor>>

----------------------------------------------------------------------------
(* talk_to_client.                                                         *)

ReadArgument(i) ==
    /\ server = "up" /\ threads[i] = "created"
    /\ client_socket' = [client_socket EXCEPT ![i] = fds[i]]
    /\ threads' = [threads EXCEPT ![i] = "recv"]
    /\ UNCHANGED <<server, clientVars, answers, queue, mainVars, descriptor>>

Peer(i) == descriptor[client_socket[i]]

\* Mutant: the end of the stream is not an end of recv.
HasHello(c) == c \in said

\* recv has something to return: the hello, or 0 because the client closed.
HasInput(c) == c \in said \/ Closed(c)

\* recv on a descriptor that is closed fails, and that ends the server.
Receive(i) ==
    /\ server = "up" /\ threads[i] = "recv"
    /\ \/ /\ Peer(i) # NoClient /\ HasInput(Peer(i))
          /\ threads' = [threads EXCEPT ![i] = "send"]
          /\ UNCHANGED server
       \/ /\ Peer(i) = NoClient
          /\ server' = "failed"
          /\ UNCHANGED threads
    /\ UNCHANGED <<clientVars, answers, queue, mainVars, client_socket, descriptor>>

\* The answers a connection can take: any number while the client is there;
\* after it has closed, the first is accepted by the kernel and refused by
\* the other side, and the next one raises SIGPIPE.
CanTake(c) == ~Closed(c) \/ answers[c] = 0

\* Mutant: the thread goes back to recv.
AfterAnswerAgain == "recv"
AfterAnswer == "exited"

Answer(i) ==
    /\ server = "up" /\ threads[i] = "send"
    /\ IF Peer(i) # NoClient /\ CanTake(Peer(i))
       THEN /\ answers' = [answers EXCEPT ![Peer(i)] = @ + 1]
            /\ threads' = [threads EXCEPT ![i] = AfterAnswer]
            /\ UNCHANGED server
       ELSE server' = "failed" /\ UNCHANGED <<answers, threads>>
    /\ UNCHANGED <<clientVars, queue, mainVars, client_socket, descriptor>>

----------------------------------------------------------------------------
ClientStep(c) == SendHello(c) \/ ReceiveAnswer(c) \/ LoseServer(c)
MainStep == Accept \/ JoinThread \/ CloseDescriptor
ThreadStep(i) == ReadArgument(i) \/ Receive(i) \/ Answer(i)

Next ==
    \/ \E c \in Clients : Connect(c) \/ Kill(c) \/ ClientStep(c)
    \/ MainStep \/ Stop
    \/ \E i \in Slots : ThreadStep(i)

Spec == Init /\ [][Next]_vars

\* The system runs every thread and every process that can move.  Clients
\* start, and users kill and stop, when they like.
FairSpec ==
    /\ Spec
    /\ \A c \in Clients : WF_vars(ClientStep(c))
    /\ WF_vars(MainStep)
    /\ \A i \in Slots : WF_vars(ThreadStep(i))

----------------------------------------------------------------------------
(* Properties.                                                             *)

TypeOK ==
    /\ server \in {"up", "stopped", "failed"}
    /\ client \in [Clients -> {"idle", "connected", "waiting",
                               "answered", "unanswered", "killed"}]
    /\ said \subseteq Clients
    /\ answers \in [Clients -> Nat]
    /\ queue \in Seq(Clients)
    /\ main \in {"accept", "join", "close"}
    /\ turn \in Slots
    /\ current_thread \in 0 .. NumberOfThreads
    /\ fds \in [Slots -> Descriptors \cup {Unset}]
    /\ threads \in [Slots -> {"none", "created", "recv", "send", "exited"}]
    /\ client_socket \in [Slots -> Descriptors \cup {Unset}]
    /\ descriptor \in [Descriptors -> Clients \cup {NoClient}]

(***************************************************************************)
(* A thread is given the address of an entry of fds that the main thread   *)
(* will write again: no descriptor is closed or given to another client    *)
(* before the thread that uses it has ended, and no two threads work on    *)
(* one connection.                                                         *)
(***************************************************************************)
SocketOf(i) == IF threads[i] = "created" THEN fds[i] ELSE client_socket[i]
Running == {i \in Slots : threads[i] \in {"created", "recv", "send"}}
ConnectionsAreOwn ==
    /\ \A i \in Running : descriptor[SocketOf(i)] # NoClient
    /\ \A i, j \in Running : i # j => SocketOf(i) # SocketOf(j)
    /\ \A c \in Clients : answers[c] + Cardinality({i \in Running : descriptor[SocketOf(i)] = c}) <= 1

(***************************************************************************)
(* Descriptors of connections that are over do not pile up, whatever the   *)
(* number of clients (comment at the test of current_thread): never more   *)
(* than NUMBER_OF_THREADS are open, and with all of them open the server   *)
(* is about to close them.                                                 *)
(***************************************************************************)
OpenDescriptors == {fd \in Descriptors : descriptor[fd] # NoClient}
DescriptorsBounded ==
    /\ Cardinality(OpenDescriptors) <= NumberOfThreads
    /\ main = "accept" => Cardinality(OpenDescriptors) = current_thread

(***************************************************************************)
(* An error of one thread ends the process for everybody; a client that    *)
(* dies, before or after its hello or its answer, never causes one.        *)
(***************************************************************************)
ClientsDoNotStopServer == server # "failed"

(***************************************************************************)
(* The main thread accepts nobody while it joins the threads of a batch,   *)
(* and joins them in order: still every client that has connected gets to  *)
(* its end, answered unless the server was stopped or the client killed.   *)
(***************************************************************************)
EverybodyGetsThrough ==
    \A c \in Clients :
        client[c] \in {"connected", "waiting"} ~>
            \/ client[c] \in {"answered", "killed"}
            \/ client[c] = "unanswered" /\ server = "stopped"
=============================================================================
