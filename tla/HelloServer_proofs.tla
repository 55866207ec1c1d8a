------------------------- MODULE HelloServer_proofs -------------------------
(***************************************************************************)
(* For any number of clients, threads and waiting connections: a thread    *)
(* has its connection to itself until it ends, descriptors are bounded by  *)
(* the entries of fds, and no client makes the server end.                 *)
(***************************************************************************)
EXTENDS HelloServer, FiniteSetTheorems, WellFoundedInduction, TLAPS

\* The entries of fds whose descriptor is open.
OpenEntries == {i \in Slots : /\ main = "accept" => i < current_thread
                              /\ main = "close" => i >= turn}

\* The arrays are full outside the accept loop.
Loops ==
    /\ main = "accept" => turn = 0 /\ current_thread < NumberOfThreads
    /\ main # "accept" => current_thread = NumberOfThreads

\* The open descriptors are those of the open entries, one each.
Entries ==
    /\ \A i \in OpenEntries : fds[i] \in Descriptors /\ descriptor[fds[i]] # NoClient
    /\ \A i, j \in OpenEntries : fds[i] = fds[j] => i = j
    /\ \A fd \in Descriptors : descriptor[fd] # NoClient => \E i \in OpenEntries : fds[i] = fd

\* A thread that runs is of the batch, and uses the descriptor of its entry.
Batch ==
    /\ Running \subseteq OpenEntries
    /\ main = "join" => \A i \in Running : i >= turn
    /\ main = "close" => Running = {}
    /\ \A i \in Slots : threads[i] \in {"recv", "send"} => client_socket[i] = fds[i]

\* A client is in the queue or behind a descriptor, once; not before connect.
Places ==
    /\ \A i \in 1 .. Len(queue) : client[queue[i]] # "idle"
    /\ \A i, j \in 1 .. Len(queue) : queue[i] = queue[j] => i = j
    /\ \A fd \in Descriptors : /\ \A i \in 1 .. Len(queue) : descriptor[fd] # queue[i]
                               /\ \A c \in Clients : descriptor[fd] = c => client[c] # "idle"
    /\ \A f, g \in Descriptors : descriptor[f] = descriptor[g] /\ descriptor[f] # NoClient => f = g

\* The answer of a connection is sent by its thread, the last thing it does.
Answers ==
    /\ \A c \in Clients : client[c] = "idle" => answers[c] = 0
    /\ \A i \in 1 .. Len(queue) : answers[queue[i]] = 0
    /\ \A i \in Running : answers[descriptor[fds[i]]] = 0
    /\ \A c \in Clients : answers[c] <= 1

Inv == TypeOK /\ ClientsDoNotStopServer /\ Loops /\ Entries /\ Batch /\ Places /\ Answers

----------------------------------------------------------------------------
(* A connection that waits finds a free descriptor.                        *)

LEMMA LeastNatural ==
    ASSUME NEW S \in SUBSET Nat, S # {}
    PROVE  Min(S) \in S
<1>1. PICK i \in S : \A j \in S : ~(<<j, i>> \in OpToRel(<, Nat))
  BY NatLessThanWellFounded, WFMin, Zenon
<1>2. \A j \in S : ~(j < i)
  BY <1>1 DEF OpToRel
<1>3. \A j \in S : i <= j
  BY <1>2
<1> QED
  BY <1>3 DEF Min

\* With every descriptor open, each would be a client's that does not wait.
LEMMA WaitingFindsDescriptor ==
    ASSUME TypeOK, Places, queue # <<>>
    PROVE  LowestFree \in Descriptors /\ descriptor[LowestFree] = NoClient
<1> USE HelloAssumption
<1> DEFINE Unused == {fd \in Descriptors : descriptor[fd] = NoClient}
           Others == Clients \ {Head(queue)}
<1>1. Head(queue) = queue[1] /\ 1 \in 1 .. Len(queue) /\ Head(queue) \in Clients
  BY DEF TypeOK
<1>2. Cardinality(Clients) \in Nat /\ IsFiniteSet(Others)
      /\ Cardinality(Others) = Cardinality(Clients) - 1
  BY <1>1, FS_CardinalityType, FS_RemoveElement
<1>3. ASSUME Unused = {} PROVE FALSE
  <2>1. \A fd \in Descriptors : descriptor[fd] \in Others
    BY <1>1, <1>3 DEF TypeOK, Places
  <2>2. descriptor \in [Descriptors -> Others]
    BY <2>1 DEF TypeOK
  <2>3. \A f, g \in Descriptors : descriptor[f] = descriptor[g] => f = g
    BY <1>3 DEF Places
  <2>4. descriptor \in Injection(Descriptors, Others)
    BY <2>2, <2>3 DEF Injection, IsInjective
  <2>5. Cardinality(Descriptors) <= Cardinality(Others)
    BY <1>2, <2>4, FS_Injection
  <2>6. Cardinality(Descriptors) = Cardinality(Clients)
    BY <1>1, <1>2, FS_Interval, FS_EmptySet DEF Descriptors
  <2> QED
    BY <1>2, <2>5, <2>6
<1>4. Unused \in SUBSET Nat
  BY <1>2 DEF Descriptors
<1>5. LowestFree \in Unused
  BY <1>3, <1>4, LeastNatural DEF LowestFree
<1> QED
  BY <1>5

----------------------------------------------------------------------------
(* The invariant holds at the start and every step keeps it.               *)

LEMMA InvAtStart == Init => Inv
<1> SUFFICES ASSUME Init PROVE Inv
  OBVIOUS
<1> USE HelloAssumption DEF Init, Slots
<1>1. TypeOK /\ ClientsDoNotStopServer /\ Loops
  BY DEF TypeOK, ClientsDoNotStopServer, Loops
<1>2. Running = {} /\ OpenEntries = {}
  BY DEF Running, OpenEntries
<1>3. Entries /\ Batch /\ Places /\ Answers
  BY <1>2 DEF Entries, Batch, Places, Answers
<1> QED
  BY <1>1, <1>3 DEF Inv

\* Steps of the clients: a client moves on, and is never idle again.
LEMMA ClientSteps ==
    ASSUME Inv, NEW c \in Clients, Connect(c) \/ Kill(c) \/ ClientStep(c)
    PROVE  Inv'
<1> USE DEF Inv
<1>1. UNCHANGED <<server, answers, mainVars, threadVars, descriptor>>
  BY DEF Connect, Kill, ClientStep, SendHello, ReceiveAnswer, LoseServer
<1>2. /\ \A d \in Clients : client[d] # "idle" => client'[d] # "idle"
      /\ client'[c] # "idle"
      /\ \A d \in Clients : client'[d] = "idle" => client[d] = "idle"
  BY DEF TypeOK, Connect, Kill, ClientStep, SendHello, ReceiveAnswer, LoseServer
<1>3. TypeOK'
  <2>1. UNCHANGED <<server, answers, main, turn, current_thread, fds, threads,
                    client_socket, descriptor>>
    BY <1>1 DEF mainVars, threadVars
  <2>2. CASE Connect(c)
    <3>1. queue' \in Seq(Clients)
      BY <2>2 DEF Connect, TypeOK
    <3> QED
      BY <2>1, <2>2, <3>1 DEF TypeOK, Connect, Slots
  <2>3. CASE Kill(c) \/ ClientStep(c)
    BY <2>1, <2>3 DEF TypeOK, Kill, ClientStep, SendHello, ReceiveAnswer, LoseServer, Slots
  <2> QED
    BY <2>2, <2>3
<1>4. OpenEntries' = OpenEntries /\ Running' = Running
  BY <1>1 DEF OpenEntries, Running, mainVars, threadVars
<1>5. ClientsDoNotStopServer' /\ Loops' /\ Entries' /\ Batch'
  BY <1>1, <1>4 DEF ClientsDoNotStopServer, Loops, Entries, Batch, mainVars, threadVars
<1>6. \/ queue' = queue
      \/ client[c] = "idle" /\ queue' = Append(queue, c)
  BY DEF Connect, Kill, ClientStep, SendHello, ReceiveAnswer, LoseServer
<1>7. \A i \in 1 .. Len(queue') :
          \/ i \in 1 .. Len(queue) /\ queue'[i] = queue[i]
          \/ client[c] = "idle" /\ i = Len(queue') /\ queue'[i] = c
  BY <1>6 DEF TypeOK
<1>8. \A i \in 1 .. Len(queue) : queue[i] \in Clients /\ (client[c] = "idle" => queue[i] # c)
  BY DEF TypeOK, Places
<1>9. Places'
  BY <1>1, <1>2, <1>7, <1>8 DEF Places
<1>10. Answers'
  BY <1>1, <1>2, <1>4, <1>7 DEF Answers, mainVars
<1> QED
  BY <1>3, <1>5, <1>9, <1>10

LEMMA AcceptStep == ASSUME Inv, Accept PROVE Inv'
<1> USE HelloAssumption DEF Inv
<1> DEFINE fd == LowestFree
           h == queue[1]
           n == current_thread
<1>1. fd \in Descriptors /\ descriptor[fd] = NoClient
  BY WaitingFindsDescriptor DEF Accept
<1>2. /\ Head(queue) = h /\ h \in Clients /\ h # NoClient /\ 1 \in 1 .. Len(queue)
      /\ queue' = Tail(queue) /\ queue' \in Seq(Clients)
      /\ \A i \in 1 .. Len(queue') : /\ i \in 1 .. Len(queue) /\ i + 1 \in 1 .. Len(queue)
                                     /\ queue'[i] = queue[i + 1]
  BY DEF Accept, TypeOK
<1>3. /\ main = "accept" /\ n \in Slots /\ n < NumberOfThreads /\ turn = 0
      /\ n \in Nat /\ n \notin OpenEntries /\ n \notin Running
  BY DEF Accept, Loops, TypeOK, Slots, OpenEntries, Batch
<1>4. /\ descriptor' = [descriptor EXCEPT ![fd] = h]
      /\ fds' = [fds EXCEPT ![n] = fd]
      /\ threads' = [threads EXCEPT ![n] = "created"]
      /\ client_socket' = [client_socket EXCEPT ![n] = Unset]
      /\ current_thread' = n + 1
      /\ main' = IF n + 1 >= NumberOfThreads THEN "join" ELSE "accept"
      /\ UNCHANGED <<server, client, said, answers, turn>>
  BY <1>2 DEF Accept, clientVars, IsFull
<1> HIDE DEF fd, h, n
<1>5. TypeOK'
  BY <1>1, <1>2, <1>3, <1>4 DEF TypeOK, Slots
<1>6. /\ OpenEntries' = OpenEntries \cup {n}
      /\ Running' = Running \cup {n}
  BY <1>3, <1>4 DEF OpenEntries, Running, TypeOK, Slots, n
<1>7. ClientsDoNotStopServer' /\ Loops'
  BY <1>3, <1>4 DEF ClientsDoNotStopServer, Loops, n
<1>8. /\ \A i \in OpenEntries : fds'[i] = fds[i] /\ fds[i] # fd /\ i \in Slots
      /\ fds'[n] = fd
      /\ \A f \in Descriptors : f # fd => descriptor'[f] = descriptor[f]
      /\ descriptor'[fd] = h
  BY <1>1, <1>3, <1>4 DEF Entries, TypeOK, OpenEntries
<1>9. Entries'
  BY <1>1, <1>2, <1>6, <1>8 DEF Entries
<1>10. \A i \in Slots : i # n => threads'[i] = threads[i] /\ fds'[i] = fds[i]
                                 /\ client_socket'[i] = client_socket[i]
  BY <1>4 DEF TypeOK
<1>11. Batch'
  <2>1. \A i \in Slots : threads'[i] \in {"recv", "send"} => client_socket'[i] = fds'[i]
    BY <1>3, <1>4, <1>10 DEF Batch, TypeOK
  <2>2. \A i \in Running' : i >= turn'
    BY <1>3, <1>4 DEF Running, Slots
  <2>3. main' # "close"
    BY <1>4
  <2> QED
    BY <1>6, <2>1, <2>2, <2>3 DEF Batch
<1>12. \A i \in 1 .. Len(queue) : queue[i] = h => i = 1
  BY <1>2 DEF Places, h
<1>13. \A i \in 1 .. Len(queue') : queue'[i] # h
  BY <1>2, <1>12
<1>14. client[h] # "idle" /\ answers[h] = 0 /\ \A f \in Descriptors : descriptor[f] # h
  BY <1>2 DEF Places, Answers, h
<1>15. Places'
  <2>1. \A i, j \in 1 .. Len(queue') : queue'[i] = queue'[j] => i = j
    BY <1>2 DEF Places
  <2>2. \A i \in 1 .. Len(queue') : client'[queue'[i]] # "idle"
    BY <1>2, <1>4 DEF Places
  <2>3. \A f \in Descriptors :
            /\ \A i \in 1 .. Len(queue') : descriptor'[f] # queue'[i]
            /\ \A c \in Clients : descriptor'[f] = c => client'[c] # "idle"
    BY <1>2, <1>4, <1>8, <1>13, <1>14 DEF Places
  <2>4. \A f, g \in Descriptors : descriptor'[f] = descriptor'[g] /\ descriptor'[f] # NoClient => f = g
    BY <1>8, <1>14 DEF Places
  <2> QED
    BY <2>1, <2>2, <2>3, <2>4 DEF Places
<1>16. Answers'
  <2>1. \A i \in Running : fds'[i] = fds[i] /\ fds[i] \in Descriptors /\ fds[i] # fd
    BY <1>8 DEF Batch, Entries
  <2> QED
    BY <1>2, <1>4, <1>6, <1>8, <1>14, <2>1 DEF Answers
<1> QED
  BY <1>5, <1>7, <1>9, <1>11, <1>15, <1>16

LEMMA JoinStep == ASSUME Inv, JoinThread PROVE Inv'
<1> USE HelloAssumption DEF Inv
<1>1. /\ main = "join" /\ threads[turn] = "exited" /\ turn \in Slots /\ turn \in Nat
      /\ UNCHANGED <<server, client, said, answers, queue, current_thread, fds, threads,
                     client_socket, descriptor>>
      /\ IF turn + 1 < NumberOfThreads THEN turn' = turn + 1 /\ main' = "join"
         ELSE turn' = 0 /\ main' = "close"
  BY DEF JoinThread, HasEnded, NextTurn, clientVars, threadVars, TypeOK, Slots
<1>2. TypeOK'
  BY <1>1 DEF TypeOK, Slots
<1>3. OpenEntries' = OpenEntries /\ Running' = Running
  BY <1>1 DEF OpenEntries, Running, Slots
<1>4. \A i \in Running : i > turn /\ i \in Slots
  BY <1>1 DEF Batch, Running, Slots
<1>5. main' = "close" => Running = {}
  BY <1>1, <1>4 DEF Slots
<1>6. main' = "join" => \A i \in Running : i >= turn'
  BY <1>1, <1>4 DEF Slots
<1>7. Batch'
  BY <1>1, <1>3, <1>5, <1>6 DEF Batch
<1>8. ClientsDoNotStopServer' /\ Loops' /\ Entries' /\ Places' /\ Answers'
  BY <1>1, <1>3 DEF ClientsDoNotStopServer, Loops, Entries, Places, Answers
<1> QED
  BY <1>2, <1>7, <1>8

LEMMA CloseStep == ASSUME Inv, CloseDescriptor PROVE Inv'
<1> USE HelloAssumption DEF Inv
<1>1. /\ main = "close" /\ turn \in Slots /\ turn \in Nat
      /\ descriptor' = [descriptor EXCEPT ![fds[turn]] = NoClient]
      /\ UNCHANGED <<server, client, said, answers, queue, fds, threads, client_socket>>
      /\ IF turn + 1 < NumberOfThreads
         THEN turn' = turn + 1 /\ main' = "close" /\ current_thread' = current_thread
         ELSE turn' = 0 /\ main' = "accept" /\ current_thread' = 0
  BY DEF CloseDescriptor, NextTurn, clientVars, threadVars, TypeOK, Slots
<1>2. /\ turn \in OpenEntries /\ fds[turn] \in Descriptors
      /\ OpenEntries' = OpenEntries \ {turn} /\ Running = {} /\ Running' = {}
  BY <1>1 DEF OpenEntries, Entries, Batch, Running, Slots
<1>3. TypeOK'
  BY <1>1, <1>2 DEF TypeOK, Slots
<1>4. /\ \A i \in OpenEntries' : i \in OpenEntries /\ fds[i] # fds[turn]
      /\ \A f \in Descriptors : f # fds[turn] => descriptor'[f] = descriptor[f]
      /\ descriptor'[fds[turn]] = NoClient
  BY <1>1, <1>2 DEF Entries, TypeOK
<1>5. Entries'
  BY <1>1, <1>2, <1>4 DEF Entries
<1>6. ClientsDoNotStopServer' /\ Loops' /\ Batch'
  BY <1>1, <1>2 DEF ClientsDoNotStopServer, Loops, Batch, Slots
<1>7. Places' 
  <2>1. \A i \in 1 .. Len(queue) : queue[i] # NoClient
    BY DEF TypeOK
  <2> QED
    BY <1>1, <1>2, <1>4, <2>1 DEF Places
<1>8. Answers'
  BY <1>1, <1>2 DEF Answers
<1> QED
  BY <1>3, <1>5, <1>6, <1>7, <1>8

\* What the main thread and the others see while threads work.
LEMMA ThreadSteps == ASSUME Inv, NEW k \in Slots, ThreadStep(k) PROVE Inv'
<1> USE HelloAssumption DEF Inv
<1>1. /\ k \in Running /\ k \in OpenEntries
      /\ fds[k] \in Descriptors /\ descriptor[fds[k]] \in Clients
      /\ descriptor[fds[k]] # NoClient /\ answers[descriptor[fds[k]]] = 0
  BY DEF ThreadStep, ReadArgument, Receive, Answer, Running, Batch, Entries, Answers, TypeOK
<1>2. UNCHANGED <<client, said, queue, main, turn, current_thread, fds, descriptor>>
  BY DEF ThreadStep, ReadArgument, Receive, Answer, clientVars, mainVars
<1>3. OpenEntries' = OpenEntries
  BY <1>2 DEF OpenEntries
<1>4. threads[k] \in {"recv", "send"} => Peer(k) = descriptor[fds[k]]
  BY DEF Batch, Peer
<1>5. /\ server' = server
      /\ \A i \in Slots : i # k => threads'[i] = threads[i] /\ client_socket'[i] = client_socket[i]
      /\ \/ /\ threads' = [threads EXCEPT ![k] = "recv"]
            /\ client_socket' = [client_socket EXCEPT ![k] = fds[k]]
            /\ answers' = answers
         \/ /\ threads' = [threads EXCEPT ![k] = "send"]
            /\ threads[k] = "recv" /\ client_socket' = client_socket /\ answers' = answers
         \/ /\ threads' = [threads EXCEPT ![k] = "exited"]
            /\ client_socket' = client_socket
            /\ answers' = [answers EXCEPT ![descriptor[fds[k]]] = @ + 1]
  <2>1. CASE ReadArgument(k)
    BY <2>1 DEF ReadArgument, TypeOK
  <2>2. CASE Receive(k)
    BY <1>1, <1>4, <2>2 DEF Receive, TypeOK
  <2>3. CASE Answer(k)
    BY <1>1, <1>4, <2>3 DEF Answer, CanTake, AfterAnswer, TypeOK
  <2> QED
    BY <2>1, <2>2, <2>3 DEF ThreadStep
<1>6. TypeOK'
  <2>1. threads' \in [Slots -> {"none", "created", "recv", "send", "exited"}]
    BY <1>5 DEF TypeOK
  <2>2. client_socket' \in [Slots -> Descriptors \cup {Unset}]
    BY <1>1, <1>5 DEF TypeOK
  <2>3. answers' \in [Clients -> Nat]
    BY <1>1, <1>5 DEF TypeOK
  <2> QED
    BY <1>2, <1>5, <2>1, <2>2, <2>3 DEF TypeOK
<1>7. Running' \subseteq Running
  BY <1>1, <1>5 DEF Running, TypeOK
<1>8. Batch'
  <2>1. \A i \in Slots : threads'[i] \in {"recv", "send"} => client_socket'[i] = fds'[i]
    BY <1>2, <1>5 DEF Batch, TypeOK
  <2> QED
    BY <1>2, <1>3, <1>7, <2>1 DEF Batch
<1>9. ClientsDoNotStopServer' /\ Loops' /\ Entries' /\ Places'
  BY <1>2, <1>3, <1>5 DEF ClientsDoNotStopServer, Loops, Entries, Places
<1>10. Answers'
  <2>1. CASE answers' = answers
    BY <1>2, <1>7, <2>1 DEF Answers
  <2>2. CASE /\ threads' = [threads EXCEPT ![k] = "exited"]
             /\ answers' = [answers EXCEPT ![descriptor[fds[k]]] = @ + 1]
    <3>1. k \notin Running'
      BY <2>2 DEF Running, TypeOK
    <3>2. \A i \in Running' : descriptor[fds[i]] # descriptor[fds[k]]
      BY <1>1, <1>7, <3>1 DEF Batch, Entries, Places
    <3>3. \A c \in Clients : answers'[c] = IF c = descriptor[fds[k]] THEN 1 ELSE answers[c]
      BY <1>1, <2>2 DEF TypeOK
    <3>4. \A i \in Running' : descriptor[fds[i]] \in Clients
      BY <1>7 DEF Batch, Entries, TypeOK
    <3>5. /\ client[descriptor[fds[k]]] # "idle"
          /\ \A i \in 1 .. Len(queue) : queue[i] # descriptor[fds[k]] /\ queue[i] \in Clients
      BY <1>1 DEF Places, TypeOK
    <3> QED
      BY <1>2, <1>7, <3>2, <3>3, <3>4, <3>5 DEF Answers
  <2> QED
    BY <1>5, <2>1, <2>2
<1> QED
  BY <1>6, <1>8, <1>9, <1>10

LEMMA StopStep == ASSUME Inv, Stop PROVE Inv'
<1>1. server' = "stopped" /\ UNCHANGED <<client, said, answers, queue, main, turn, current_thread,
                                         fds, threads, client_socket, descriptor>>
  BY DEF Stop, clientVars, mainVars, threadVars
<1> QED
  BY <1>1 DEF Inv, TypeOK, ClientsDoNotStopServer, Loops, Entries, Batch, Places, Answers,
              OpenEntries, Running

LEMMA InvStep == Inv /\ [Next]_vars => Inv'
<1> SUFFICES ASSUME Inv, [Next]_vars PROVE Inv'
  OBVIOUS
<1>1. CASE Next
  BY <1>1, ClientSteps, AcceptStep, JoinStep, CloseStep, StopStep, ThreadSteps DEF Next, MainStep
<1>2. CASE UNCHANGED vars
  BY <1>2 DEF vars, clientVars, mainVars, threadVars, Inv, TypeOK, ClientsDoNotStopServer,
              Loops, Entries, Batch, Places, Answers, OpenEntries, Running
<1> QED
  BY <1>1, <1>2

LEMMA Invariance == Spec => []Inv
BY InvAtStart, InvStep, PTL DEF Spec

----------------------------------------------------------------------------
(* The results.                                                            *)

(***************************************************************************)
(* The entries of fds, the indices of both loops and the descriptors in    *)
(* the threads keep their ranges: no entry past NUMBER_OF_THREADS - 1 of   *)
(* the arrays is written.                                                  *)
(***************************************************************************)
THEOREM TypesAreKept == Spec => []TypeOK
BY Invariance, PTL DEF Inv

(***************************************************************************)
(* No client that is slow, dies or closes makes a thread fail, and with it *)
(* the server.                                                             *)
(***************************************************************************)
THEOREM NoClientEndsServer == Spec => []ClientsDoNotStopServer
BY Invariance, PTL DEF Inv

(***************************************************************************)
(* The descriptor a thread reads from the array is its own client's until  *)
(* the thread has ended, although the main thread fills the array again,   *)
(* and a client has one answer at most.                                    *)
(***************************************************************************)
THEOREM ThreadsKeepTheirConnection == Spec => []ConnectionsAreOwn
<1> USE HelloAssumption
<1> SUFFICES ASSUME Inv PROVE ConnectionsAreOwn
  BY Invariance, PTL
<1> USE DEF Inv
<1>1. \A i \in Running : SocketOf(i) = fds[i]
  BY DEF Batch, SocketOf, Running
<1>2. \A i \in Running : descriptor[fds[i]] # NoClient /\ fds[i] \in Descriptors
  BY DEF Batch, Entries
<1>3. \A i, j \in Running : i # j => fds[i] # fds[j]
  BY DEF Batch, Entries
<1>4. ASSUME NEW c \in Clients
      PROVE  answers[c] + Cardinality({i \in Running : descriptor[SocketOf(i)] = c}) <= 1
  <2> DEFINE Mine == {i \in Running : descriptor[SocketOf(i)] = c}
  <2>1. CASE Mine = {}
    <3>1. answers[c] \in Nat /\ answers[c] <= 1
      BY DEF Answers, TypeOK
    <3> HIDE DEF Mine
    <3>2. Cardinality(Mine) = 0
      BY <2>1, FS_EmptySet
    <3> QED
      BY <3>1, <3>2 DEF Mine
  <2>2. CASE Mine # {}
    <3>1. PICK i \in Mine : TRUE
      BY <2>2
    <3>2. \A j \in Mine : j = i
      BY <1>1, <1>2, <1>3, <3>1 DEF Places
    <3>3. Mine = {i}
      BY <3>1, <3>2
    <3>4. answers[c] = 0
      BY <1>1, <3>1 DEF Answers
    <3> HIDE DEF Mine
    <3>5. Cardinality(Mine) = 1
      BY <3>3, FS_Singleton
    <3> QED
      BY <3>4, <3>5 DEF Mine
  <2> QED
    BY <2>1, <2>2
<1> QED
  BY <1>1, <1>2, <1>3, <1>4 DEF ConnectionsAreOwn

(***************************************************************************)
(* However many clients come and go, no more descriptors are open than fds *)
(* has entries; while the server accepts they are exactly current_thread.  *)
(***************************************************************************)
THEOREM DescriptorsAreBounded == Spec => []DescriptorsBounded
<1> USE HelloAssumption
<1> SUFFICES ASSUME Inv PROVE DescriptorsBounded
  BY Invariance, PTL
<1> USE DEF Inv
<1> DEFINE f == [i \in OpenEntries |-> fds[i]]
<1>1. f \in Injection(OpenEntries, OpenDescriptors) /\ f \in Surjection(OpenEntries, OpenDescriptors)
  BY DEF Entries, OpenDescriptors, Injection, IsInjective, Surjection
<1>2. IsFiniteSet(Slots) /\ Cardinality(Slots) = NumberOfThreads
  BY FS_Interval DEF Slots
<1>3. IsFiniteSet(OpenEntries) /\ Cardinality(OpenEntries) <= NumberOfThreads
  BY <1>2, FS_Subset DEF OpenEntries
<1>4. Cardinality(OpenDescriptors) = Cardinality(OpenEntries)
  BY <1>1, <1>3, FS_Surjection
<1>5. ASSUME main = "accept" PROVE Cardinality(OpenEntries) = current_thread
  <2>1. OpenEntries = 0 .. current_thread - 1 /\ current_thread \in Nat
    BY <1>5 DEF OpenEntries, Slots, Loops, TypeOK
  <2> QED
    BY <2>1, FS_Interval
<1> QED
  BY <1>3, <1>4, <1>5 DEF DescriptorsBounded
=============================================================================
