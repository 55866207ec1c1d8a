----------------------------- MODULE TopicTable -----------------------------
(***************************************************************************)
(* The broker's table of topics (practica4/proxy_broker.c) and the         *)
(* processes that enter and leave it (practica4/proxy_client.c).           *)
(*                                                                         *)
(* Every connection is served by a thread of its own (talk_to_client), so  *)
(* the thread is named by its client.  A registration runs under mutex3;   *)
(* unregister() takes no lock, so its steps (find, copy loop, answer,      *)
(* decrement) interleave with everything.  ++ and -- on the counters are   *)
(* a read and a write, as in the unoptimised code the Makefile builds.     *)
(***************************************************************************)
EXTENDS Integers, Sequences, FiniteSets

CONSTANTS
    Subscribers,     \* subscriber processes
    Publishers,      \* publisher processes
    Topics,          \* topic names
    TopicOf,         \* the --topic argument of every process
    MaxTopics,       \* MAX_TOPICS
    MaxSubscribers,  \* MAX_SUBSCRIBERS
    MaxPublishers,   \* MAX_PUBLISHERS
    Overlap,         \* what users may do at any moment: "join", "leave", both, none
    Quitters,        \* bound: processes whose user may press Ctrl-C
    Crashers,        \* bound: processes that may die without unregistering
    NoSocket,        \* what an fd nobody set refers to
    NoOne            \* owner of a free mutex, name of an unused topic

Clients == Subscribers \cup Publishers

ASSUME ConstantsAssumption ==
    /\ Subscribers \cap Publishers = {}
    /\ TopicOf \in [Clients -> Topics]
    /\ MaxTopics \in Nat \ {0}
    /\ MaxSubscribers \in Nat \ {0}
    /\ MaxPublishers \in Nat \ {0}
    /\ Overlap \subseteq {"join", "leave"}
    /\ Quitters \subseteq Clients
    /\ Crashers \subseteq Clients
    /\ NoSocket \notin Clients
    /\ NoOne \notin Clients
    /\ NoOne \notin Topics

VARIABLES
    broker,         \* "up", or "down" after exit(1) or SIGPIPE
    client,         \* life of every client process
    client_id,      \* client_id of proxy_client.c
    bye,            \* id in the UNREGISTER a client has sent, NotSent before
    inbox,          \* responses the broker has sent and the client not read
    pc,             \* where the broker's thread for a client is
    mutex3,         \* owner of mutex3
    current_topics,
    topic_name,     \* all_topics[k].name
    cell,           \* all_topics[k].subscribers, then all_topics[k].publishers
    num,            \* num_subscribers and num_publishers
    next_id,        \* next_subscriber_id and next_publisher_id
    at,             \* index local to a thread: slot to fill, or loop counter
    val,            \* register of a thread between the read and the write
    fd_to_del       \* local of shift_client_list

tableVars == <<mutex3, current_topics, topic_name, cell, num, next_id>>
threadVars == <<pc, at, val, fd_to_del>>
clientVars == <<client, client_id, bye, inbox>>
registryVars == <<broker, clientVars, threadVars, tableVars>>

NotSent == -1
TopicIds == 0 .. MaxTopics - 1
Kinds == {"sub", "pub"}
Kind(c) == IF c \in Subscribers THEN "sub" ELSE "pub"

(***************************************************************************)
(* struct topic lays subscribers[MAX_SUBSCRIBERS] directly before          *)
(* publishers[MAX_PUBLISHERS]; one function over Cells is both arrays, so  *)
(* an index past the first array lands in the second, as it does in the    *)
(* code.  An entry nobody wrote is zero (create_topic copies it from pages *)
(* of a thread's stack nobody wrote): id 0 and fd 0, which is no socket.   *)
(* A read past both arrays is taken for zero and a write is dropped.       *)
(***************************************************************************)
Cells == 0 .. MaxSubscribers + MaxPublishers - 1
Unwritten == [id |-> 0, fd |-> NoSocket]
Entry == [id : Int, fd : Clients \cup {NoSocket}]
Base(c) == IF c \in Subscribers THEN 0 ELSE MaxSubscribers
Limit(c) == IF c \in Subscribers THEN MaxSubscribers ELSE MaxPublishers

CellAt(k, i) == IF i \in Cells THEN cell[k][i] ELSE Unwritten
WithCell(k, i, e) == IF i \in Cells THEN [cell EXCEPT ![k][i] = e] ELSE cell

\* The first of the current_topics topics with this name, or current_topics.
get_topic_id(name) ==
    IF \E k \in TopicIds : k < current_topics /\ topic_name[k] = name
    THEN CHOOSE k \in TopicIds :
            /\ k < current_topics /\ topic_name[k] = name
            /\ \A j \in TopicIds : j < k => topic_name[j] # name
    ELSE current_topics

\* Mutant: create_topic does not look for the name.
NoTopicExists(name) == FALSE
TopicExists(name) == get_topic_id(name) < current_topics
TopicId(c) == get_topic_id(TopicOf[c])

\* Mutant: an id is taken for a position in the list.
PositionById(c, id) == IF c \in Subscribers THEN id - 1 ELSE id

\* Position in its topic's list of the first entry with this id, or the limit.
PositionOf(c, id) ==
    LET hits == {i \in 0 .. Limit(c) - 1 : cell[TopicId(c)][Base(c) + i].id = id}
    IN  IF hits = {} THEN Limit(c) ELSE CHOOSE i \in hits : \A j \in hits : i <= j

\* Mutant: the slot is read once the list has been shifted.
FdsAtNext(c, pos) == {CellAt(TopicId(c), Base(c) + pos + 1).fd}
\* Mutant: the wrong field of the entry.
IdsAt(c, pos) == {CellAt(TopicId(c), Base(c) + pos).id}

\* What fd_to_del may hold after the search: not found, it is not assigned
\* and may be any socket or none.
FdsAt(c, pos) ==
    IF pos < Limit(c) THEN {CellAt(TopicId(c), Base(c) + pos).fd}
    ELSE {NoSocket} \cup {d \in Clients : client[d] # "idle"}

\* Mutant: the entries are copied the wrong way.
ShiftedRight(k, i) == WithCell(k, i + 1, CellAt(k, i))

\* One turn of the copy loop.
ShiftedLeft(k, i) == WithCell(k, i, CellAt(k, i + 1))

\* Mutant: an id says where in the list its client is (comment in
\* shift_client_list).
IdByPosition(c) == at[c] + 1

NewId(c) == next_id[Kind(c)]

\* Mutant: the last entry is written over.
LastUsed(c) == num[TopicId(c)][Kind(c)] - 1
FirstUnused(c) == num[TopicId(c)][Kind(c)]

\* What a client may read as a response.  Its connection is one stream: it
\* may find published data there ("DATA"), which has none of the three.
Response == [status : {"OK", "LIMIT", "ERROR", "DATA"}, id : Int]
OK(id) == [status |-> "OK", id |-> id]
Refusal(status) == [status |-> status, id |-> -1]

Registering == {"enlist", "respond", "count_read", "count_write"}
Unregistering == {"shift", "uncount_read", "uncount_write"}
Publishing == {"publish", "spawn"}   \* used by Broker, which extends this module
ThreadStates == {"idle", "recv_register", "serving", "gone"}
                \cup Registering \cup Unregistering \cup Publishing
ClientStates == {"idle", "registering", "active", "leaving", "closed"}

Init ==
    /\ broker = "up"
    /\ client = [c \in Clients |-> "idle"]
    /\ client_id = [c \in Clients |-> 0]
    /\ bye = [c \in Clients |-> NotSent]
    /\ inbox = [c \in Clients |-> <<>>]
    /\ pc = [c \in Clients |-> "idle"]
    /\ mutex3 = NoOne
    /\ current_topics = 0
    /\ topic_name = [k \in TopicIds |-> NoOne]
    /\ cell = [k \in TopicIds |-> [i \in Cells |-> Unwritten]]
    /\ num = [k \in TopicIds |-> [kind \in Kinds |-> 0]]
    /\ next_id = [kind \in Kinds |-> IF kind = "sub" THEN 1 ELSE 0]
    /\ at = [c \in Clients |-> 0]
    /\ val = [c \in Clients |-> 0]
    /\ fd_to_del = [c \in Clients |-> NoSocket]

----------------------------------------------------------------------------
(* Users and client processes (proxy_client.c).                            *)

\* A client that has sent UNREGISTER and whose thread has not finished it.
Leaving(c) == bye[c] # NotSent /\ pc[c] # "gone"
Settled(c) == pc[c] \in {"idle", "serving", "gone"} /\ ~Leaving(c)

\* Start of a client: connect, send REGISTER; the broker accepts it and
\* starts its thread.
Connect(c) ==
    /\ broker = "up" /\ client[c] = "idle"
    /\ "leave" \in Overlap \/ \A d \in Clients : ~Leaving(d)
    /\ client' = [client EXCEPT ![c] = "registering"]
    /\ pc' = [pc EXCEPT ![c] = "recv_register"]
    /\ UNCHANGED <<broker, client_id, bye, inbox, at, val, fd_to_del, tableVars>>

\* The client reads the answer to REGISTER; it exits unless it is OK.
HandleResponse(c) ==
    /\ client[c] = "registering" /\ inbox[c] # <<>>
    /\ client_id' = [client_id EXCEPT ![c] = Head(inbox[c]).id]
    /\ client' = [client EXCEPT ![c] =
                    IF Head(inbox[c]).status = "OK" THEN "active" ELSE "closed"]
    /\ inbox' = [inbox EXCEPT ![c] = Tail(@)]
    /\ UNCHANGED <<broker, bye, threadVars, tableVars>>

\* Ctrl-C: sighandler sends UNREGISTER with whatever client_id holds, even
\* before the answer to REGISTER has set it.
Interrupt(c) ==
    /\ c \in Quitters /\ client[c] \in {"registering", "active"}
    /\ "leave" \in Overlap \/ (client[c] = "active" /\ \A d \in Clients : Settled(d))
    /\ client' = [client EXCEPT ![c] = "leaving"]
    /\ bye' = [bye EXCEPT ![c] = client_id[c]]
    /\ UNCHANGED <<broker, client_id, inbox, threadVars, tableVars>>

\* sighandler's loop: any OK ends it and the process; after another answer
\* it sends UNREGISTER again, which the broker's thread never reads.
HandlerReads(c) ==
    /\ client[c] = "leaving" /\ inbox[c] # <<>>
    /\ client' = [client EXCEPT ![c] =
                    IF Head(inbox[c]).status = "OK" THEN "closed" ELSE @]
    /\ inbox' = [inbox EXCEPT ![c] = Tail(@)]
    /\ UNCHANGED <<broker, client_id, bye, threadVars, tableVars>>

\* The process dies and its socket closes without UNREGISTER.
Crash(c) ==
    /\ c \in Crashers /\ client[c] = "active"
    /\ client' = [client EXCEPT ![c] = "closed"]
    /\ UNCHANGED <<broker, client_id, bye, inbox, threadVars, tableVars>>

----------------------------------------------------------------------------
(* talk_to_client: registration, under mutex3.                             *)

\* send() to an open client arrives.  To a process that has closed its socket
\* it is lost, or fails, or raises SIGPIPE; to no socket it fails.  A failed
\* send and SIGPIPE both end the broker.
Open(fd) == fd # NoSocket /\ client[fd] # "closed"
BrokerAfterSend(fd) ==
    IF Open(fd) THEN {"up"} ELSE IF fd = NoSocket THEN {"down"} ELSE {"up", "down"}
SendResponse(fd, response) ==
    /\ broker' \in BrokerAfterSend(fd)
    /\ inbox' = IF Open(fd) THEN [inbox EXCEPT ![fd] = Append(@, response)] ELSE inbox

ReceivesRegister(c) == broker = "up" /\ pc[c] = "recv_register" /\ mutex3 = NoOne

\* create_topic, then the read of num_subscribers that chooses the slot.
\* The test of current_subscribers is absent: the code never changes it.
RegisterSubscriber(c) ==
    /\ c \in Subscribers /\ ReceivesRegister(c)
    /\ current_topics < MaxTopics
    /\ at' = [at EXCEPT ![c] = FirstUnused(c)]
    /\ IF TopicExists(TopicOf[c])
       THEN UNCHANGED <<current_topics, topic_name>>
       ELSE /\ topic_name' = [topic_name EXCEPT ![current_topics] = TopicOf[c]]
            /\ current_topics' = current_topics + 1
    /\ mutex3' = c
    /\ pc' = [pc EXCEPT ![c] = "enlist"]
    /\ UNCHANGED <<broker, clientVars, val, fd_to_del, cell, num, next_id>>

RegisterPublisher(c) ==
    /\ c \in Publishers /\ ReceivesRegister(c)
    /\ TopicExists(TopicOf[c]) /\ next_id["pub"] < MaxPublishers
    /\ at' = [at EXCEPT ![c] = FirstUnused(c)]
    /\ mutex3' = c
    /\ pc' = [pc EXCEPT ![c] = "enlist"]
    /\ UNCHANGED <<broker, clientVars, val, fd_to_del,
                   current_topics, topic_name, cell, num, next_id>>

\* Mutant: the thread exits without unlocking mutex3.
RefuseLocked(c, status) ==
    /\ SendResponse(c, Refusal(status))
    /\ pc' = [pc EXCEPT ![c] = "gone"]
    /\ mutex3' = c
    /\ UNCHANGED <<client, client_id, bye, at, val, fd_to_del,
                   current_topics, topic_name, cell, num, next_id>>

\* A refused client gets its answer, then the thread exits.
Refuse(c, status) ==
    /\ SendResponse(c, Refusal(status))
    /\ pc' = [pc EXCEPT ![c] = "gone"]
    /\ UNCHANGED <<client, client_id, bye, at, val, fd_to_del, tableVars>>

RefuseSubscriber(c) ==
    /\ c \in Subscribers /\ ReceivesRegister(c)
    /\ current_topics >= MaxTopics
    /\ Refuse(c, "ERROR")

RefusePublisher(c) ==
    /\ c \in Publishers /\ ReceivesRegister(c)
    /\ \/ ~TopicExists(TopicOf[c]) /\ Refuse(c, "ERROR")
       \/ TopicExists(TopicOf[c]) /\ next_id["pub"] >= MaxPublishers /\ Refuse(c, "LIMIT")

\* The entry goes into the slot chosen before, with the next id.  From here
\* on a copy loop may move it to where others look, whatever the count says.
Enlist(c) ==
    /\ broker = "up" /\ pc[c] = "enlist"
    /\ cell' = WithCell(TopicId(c), Base(c) + at[c], [id |-> NewId(c), fd |-> c])
    /\ next_id' = [next_id EXCEPT ![Kind(c)] = @ + 1]
    /\ pc' = [pc EXCEPT ![c] = "respond"]
    /\ UNCHANGED <<broker, clientVars, at, val, fd_to_del,
                   mutex3, current_topics, topic_name, num>>

\* The client is told its id, the last one given out.
Respond(c) ==
    /\ broker = "up" /\ pc[c] = "respond"
    /\ SendResponse(c, OK(next_id[Kind(c)] - 1))
    /\ pc' = [pc EXCEPT ![c] = "count_read"]
    /\ UNCHANGED <<client, client_id, bye, at, val, fd_to_del, tableVars>>

ReadCount(c, from, to) ==
    /\ broker = "up" /\ pc[c] = from
    /\ val' = [val EXCEPT ![c] = num[TopicId(c)][Kind(c)]]
    /\ pc' = [pc EXCEPT ![c] = to]
    /\ UNCHANGED <<broker, clientVars, at, fd_to_del, tableVars>>

CountRead(c) == ReadCount(c, "count_read", "count_write")

\* The new count is stored and mutex3 released; the locals are dead.
CountWrite(c) ==
    /\ broker = "up" /\ pc[c] = "count_write"
    /\ num' = [num EXCEPT ![TopicId(c)][Kind(c)] = val[c] + 1]
    /\ mutex3' = NoOne
    /\ pc' = [pc EXCEPT ![c] = "serving"]
    /\ at' = [at EXCEPT ![c] = 0]
    /\ val' = [val EXCEPT ![c] = 0]
    /\ UNCHANGED <<broker, clientVars, fd_to_del,
                   current_topics, topic_name, cell, next_id>>

----------------------------------------------------------------------------
(* unregister and shift_client_list: no lock.                              *)

\* UNREGISTER is read; the list is searched for its id.
FindClient(c) ==
    /\ broker = "up" /\ pc[c] = "serving" /\ bye[c] # NotSent
    /\ LET pos == PositionOf(c, bye[c]) IN
       /\ at' = [at EXCEPT ![c] = pos]
       /\ \E fd \in FdsAt(c, pos) : fd_to_del' = [fd_to_del EXCEPT ![c] = fd]
    /\ pc' = [pc EXCEPT ![c] = "shift"]
    /\ UNCHANGED <<broker, clientVars, val, tableVars>>

\* One turn of the copy loop; the last one reads past the array.
ShiftClient(c) ==
    /\ broker = "up" /\ pc[c] = "shift" /\ at[c] < Limit(c)
    /\ cell' = ShiftedLeft(TopicId(c), Base(c) + at[c])
    /\ at' = [at EXCEPT ![c] = @ + 1]
    /\ UNCHANGED <<broker, clientVars, pc, val, fd_to_del,
                   mutex3, current_topics, topic_name, num, next_id>>

\* The OK goes to fd_to_del.
AnswerUnregister(c) ==
    /\ broker = "up" /\ pc[c] = "shift" /\ at[c] >= Limit(c)
    /\ SendResponse(fd_to_del[c], OK(bye[c]))
    /\ pc' = [pc EXCEPT ![c] = "uncount_read"]
    /\ UNCHANGED <<client, client_id, bye, at, val, fd_to_del, tableVars>>

UncountRead(c) == ReadCount(c, "uncount_read", "uncount_write")

\* The count is stored and the thread exits; its locals are gone with it.
UncountWrite(c) ==
    /\ broker = "up" /\ pc[c] = "uncount_write"
    /\ num' = [num EXCEPT ![TopicId(c)][Kind(c)] = val[c] - 1]
    /\ pc' = [pc EXCEPT ![c] = "gone"]
    /\ at' = [at EXCEPT ![c] = 0]
    /\ val' = [val EXCEPT ![c] = 0]
    /\ fd_to_del' = [fd_to_del EXCEPT ![c] = NoSocket]
    /\ UNCHANGED <<broker, clientVars,
                   mutex3, current_topics, topic_name, cell, next_id>>

\* talk_to_subscriber gets end of file from a dead subscriber: no UNREGISTER
\* was read, so the thread exits and the entry stays.
EndOfFile(c) ==
    /\ broker = "up" /\ c \in Subscribers /\ pc[c] = "serving"
    /\ client[c] = "closed" /\ bye[c] = NotSent
    /\ pc' = [pc EXCEPT ![c] = "gone"]
    /\ UNCHANGED <<broker, clientVars, at, val, fd_to_del, tableVars>>

----------------------------------------------------------------------------
\* What users decide: nothing obliges them to.
User(c) == Connect(c) \/ Interrupt(c) \/ Crash(c)

\* What runs by itself: the broker's thread and the client's own reads.
ThreadStep(c) ==
    \/ RegisterSubscriber(c) \/ RegisterPublisher(c)
    \/ RefuseSubscriber(c) \/ RefusePublisher(c)
    \/ Enlist(c) \/ Respond(c) \/ CountRead(c) \/ CountWrite(c)
    \/ FindClient(c) \/ ShiftClient(c) \/ AnswerUnregister(c)
    \/ UncountRead(c) \/ UncountWrite(c) \/ EndOfFile(c)
ClientStep(c) == HandleResponse(c) \/ HandlerReads(c)

Next == \E c \in Clients : User(c) \/ ThreadStep(c) \/ ClientStep(c)

Spec == Init /\ [][Next]_registryVars

\* The operating system runs every thread and every process that can move.
Fairness == \A c \in Clients : WF_registryVars(ThreadStep(c)) /\ WF_registryVars(ClientStep(c))
FairSpec == Spec /\ Fairness

----------------------------------------------------------------------------
(* Properties.                                                             *)

TypeOK ==
    /\ broker \in {"up", "down"}
    /\ client \in [Clients -> ClientStates]
    /\ client_id \in [Clients -> Int]
    /\ bye \in [Clients -> Int]
    /\ inbox \in [Clients -> Seq(Response)]
    /\ pc \in [Clients -> ThreadStates]
    /\ mutex3 \in Clients \cup {NoOne}
    /\ current_topics \in 0 .. MaxTopics
    /\ topic_name \in [TopicIds -> Topics \cup {NoOne}]
    /\ cell \in [TopicIds -> [Cells -> Entry]]
    /\ num \in [TopicIds -> [Kinds -> Int]]
    /\ next_id \in [Kinds -> Nat]
    /\ at \in [Clients -> Int]
    /\ val \in [Clients -> Int]
    /\ fd_to_del \in [Clients -> Clients \cup {NoSocket}]

(***************************************************************************)
(* Whatever registrations and unregistrations interleave (unregister takes *)
(* no lock), the table keeps topics apart: a name has one slot, and a      *)
(* socket found in a slot's lists is that of a client of that topic.       *)
(***************************************************************************)
NamesDistinct ==
    \A j, k \in TopicIds : j < k /\ k < current_topics => topic_name[j] # topic_name[k]
SocketsInTheirTopic ==
    \A k \in TopicIds, i \in Cells :
        cell[k][i].fd # NoSocket => k < current_topics /\ topic_name[k] = TopicOf[cell[k][i].fd]
TopicIsolation == NamesDistinct /\ SocketsInTheirTopic

(***************************************************************************)
(* unregister() names its client by id alone and takes the socket from the *)
(* entry.  Wherever overlapping copy loops have left copies of entries, in *)
(* either array, and whoever has registered since: of two entries of       *)
(* clients of a kind, the ids agree exactly when the sockets do.           *)
(***************************************************************************)
IdsNameOneClient ==
    \A k, l \in TopicIds, i, j \in Cells :
        LET e == cell[k][i]
            f == cell[l][j]
        IN  /\ e.fd # NoSocket /\ f.fd # NoSocket /\ Kind(e.fd) = Kind(f.fd)
            => (e.id = f.id <=> e.fd = f.fd)

(***************************************************************************)
(* When clients leave one at a time, the lists are right whenever no       *)
(* thread is at work on them: the first num entries of a list are exactly  *)
(* the clients being served on that topic, and the dead ones that never    *)
(* left it, in order of registration, with the ids they were told.         *)
(***************************************************************************)
DiedRegistered(c) ==
    pc[c] = "gone" /\ client[c] = "closed" /\ bye[c] = NotSent /\ client_id[c] # -1
ListIsExact(k, kind) ==
    LET base == IF kind = "sub" THEN 0 ELSE MaxSubscribers
        listed == {cell[k][base + i] : i \in 0 .. num[k][kind] - 1}
        served == {c \in Clients : /\ Kind(c) = kind /\ TopicOf[c] = topic_name[k]
                                   /\ \/ pc[c] \in {"serving"} \cup Publishing
                                      \/ DiedRegistered(c)}
    IN  /\ num[k][kind] = Cardinality(served)
        /\ {e.fd : e \in listed} = served
        /\ \A e \in listed : client[e.fd] = "active" => client_id[e.fd] = e.id
        /\ \A i \in 1 .. num[k][kind] - 1 : cell[k][base + i - 1].id < cell[k][base + i].id
TableMatchesClients ==
    (mutex3 = NoOne /\ \A c \in Clients : ~Leaving(c)) =>
        \A k \in 0 .. current_topics - 1, kind \in Kinds : ListIsExact(k, kind)

(***************************************************************************)
(* When clients leave one at a time, the answer to UNREGISTER reaches the  *)
(* client that asked, so nobody else's process ends, and the broker never  *)
(* writes to a socket that is closed or none.                              *)
(***************************************************************************)
ByesReachTheirSender ==
    /\ broker = "up"
    /\ \A c \in Clients :
        \A i \in 1 .. Len(inbox[c]) :
            client[c] \in {"active", "leaving"} => bye[c] = inbox[c][i].id

(***************************************************************************)
(* Every registration is answered, and every Ctrl-C of a registered client *)
(* ends its process: sighandler's loop terminates.  A process connects and *)
(* is interrupted once, so in the end nobody is registering or leaving.    *)
(***************************************************************************)
RegistrationIsAnswered == <>[](\A c \in Clients : client[c] # "registering")
LeavingEnds == <>[](\A c \in Clients : client[c] # "leaving")
=============================================================================
