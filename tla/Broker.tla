------------------------------- MODULE Broker -------------------------------
(***************************************************************************)
(* The whole broker (practica4/proxy_broker.c): the table of topics of     *)
(* TopicTable, and what talk_to_publisher does with every PUBLISH_DATA in  *)
(* the three modes.                                                        *)
(*   secuencial: the publisher's own thread sends to the list, entry by    *)
(*               entry (send_sequential);                                  *)
(*   paralelo:   one detached thread per entry (send_parallel);            *)
(*   justo:      one thread per entry, which all wait for each other at a  *)
(*               barrier before they send (send_just); mutex2 is held from *)
(*               the first thread's creation until all are joined.         *)
(* The list is read without mutex3.  A publisher's connection is FIFO and  *)
(* read by one thread, so a message appears when that thread receives it.  *)
(***************************************************************************)
EXTENDS TopicTable

CONSTANTS
    Modes,            \* what --mode may be: "secuencial", "paralelo", "justo"
    Undisturbed,      \* modes in which nobody joins while a publish is under way
    Parties,          \* bound: sets of processes that may be started together, by mode
    MaxMessages,      \* bound: calls of publish_msg by one publisher's thread
    SpuriousWakeups   \* may pthread_cond_wait return without a signal?

ASSUME BrokerAssumption ==
    /\ Modes \subseteq {"secuencial", "paralelo", "justo"}
    /\ Undisturbed \subseteq Modes
    /\ Parties \in [Modes -> SUBSET SUBSET Clients]
    /\ MaxMessages \in Nat
    /\ SpuriousWakeups \in BOOLEAN

VARIABLES
    mode,
    sent,           \* number of the last message each publisher has sent
    calls,          \* calls of publish_msg by each publisher's thread
    total,          \* num_subscribers as publish_msg read it
    next,           \* loop index of the publisher's thread
    senders,        \* sender threads that have not sent yet
    mutex2,         \* owner of mutex2
    just_threads,
    delivered       \* messages in every client's stream, in order

deliveryVars == <<mode, sent, calls, total, next, senders, mutex2, just_threads, delivered>>
jobVars == <<mode, sent, calls, total>>
vars == <<registryVars, deliveryVars>>

BrokerInit ==
    /\ Init
    /\ mode \in Modes
    /\ sent = [p \in Publishers |-> 0]
    /\ calls = [p \in Publishers |-> 0]
    /\ total = [p \in Publishers |-> 0]
    /\ next = [p \in Publishers |-> 0]
    /\ senders = {}
    /\ mutex2 = NoOne
    /\ just_threads = 0
    /\ delivered = [c \in Clients |-> <<>>]

----------------------------------------------------------------------------
JoinAnyTime == "join" \in Overlap /\ mode \notin Undisturbed
InAParty(c) ==
    \E party \in Parties[mode] : {d \in Clients : client[d] # "idle"} \cup {c} \subseteq party
NoPublishUnderWay == senders = {} /\ \A p \in Publishers : pc[p] \notin Publishing

\* recv of PUBLISH_DATA and publish_msg's read of num_subscribers.  In justo
\* mode the count is read before mutex2 is asked for.
StartPublish(p, seq) ==
    /\ broker = "up" /\ pc[p] = "serving" /\ calls[p] < MaxMessages
    /\ sent' = [sent EXCEPT ![p] = seq]
    /\ calls' = [calls EXCEPT ![p] = @ + 1]
    /\ total' = [total EXCEPT ![p] = num[TopicId(p)]["sub"]]
    /\ next' = [next EXCEPT ![p] = 0]
    /\ pc' = [pc EXCEPT ![p] = "publish"]
    /\ UNCHANGED <<broker, clientVars, at, val, fd_to_del, tableVars, mode,
                   senders, mutex2, just_threads, delivered>>

ReceivePublish(p) ==
    /\ client[p] = "active"
    /\ JoinAnyTime \/ \A d \in Clients : pc[d] \notin {"recv_register"} \cup Registering
    /\ "leave" \in Overlap \/ \A d \in Clients : ~Leaving(d)
    /\ StartPublish(p, sent[p] + 1)

\* The publisher is dead: recv returns 0, message still holds the last one.
ReceiveNothing(p) ==
    /\ client[p] = "closed" /\ bye[p] = NotSent /\ sent[p] > 0
    /\ StartPublish(p, sent[p])

\* send() of a message to an fd: it enters the stream of an open client.  If
\* it is the first thing there, the client takes it for the answer to
\* REGISTER (the id it finds are the high bits of a time, which are zero).
\* sighandler's loop reads past data, 8 bytes of its 120 at a time.
Misread(fd) == Open(fd) /\ client[fd] = "registering" /\ inbox[fd] = <<>>
SendTo(fd, m) ==
    /\ broker' \in BrokerAfterSend(fd)
    /\ delivered' = IF Open(fd) THEN [delivered EXCEPT ![fd] = Append(@, m)] ELSE delivered
    /\ inbox' = IF Misread(fd)
                THEN [inbox EXCEPT ![fd] = <<[status |-> "DATA", id |-> 0]>>]
                ELSE inbox

LastMessage(p) == [pub |-> p, seq |-> sent[p]]
\* Mutants: off by one; one struct shared by all threads; the first topic's
\* list.
NextFdOffByOne(p) == CellAt(TopicId(p), next[p] + 1).fd
NextFdShared(p) == CellAt(TopicId(p), 0).fd
NextFdFirstTopic(p) == CellAt(0, next[p]).fd
NextFd(p) == CellAt(TopicId(p), next[p]).fd

\* One turn of send_sequential's loop: the entry is read when it is its turn.
SendSequential(p) ==
    /\ mode = "secuencial" /\ broker = "up"
    /\ pc[p] = "publish" /\ next[p] < total[p]
    /\ SendTo(NextFd(p), LastMessage(p))
    /\ next' = [next EXCEPT ![p] = @ + 1]
    /\ UNCHANGED <<client, client_id, bye, threadVars, tableVars, jobVars,
                   senders, mutex2, just_threads>>

\* justo: mutex2 is taken before the first thread is created.
LockRound(p) ==
    /\ mode = "justo" /\ broker = "up"
    /\ pc[p] = "publish" /\ mutex2 = NoOne
    /\ mutex2' = p
    /\ pc' = [pc EXCEPT ![p] = "spawn"]
    /\ UNCHANGED <<broker, clientVars, at, val, fd_to_del, tableVars, jobVars, next,
                   senders, just_threads, delivered>>

\* paralelo and justo: one thread is created with the entry's fd.
SpawnSender(p) ==
    /\ broker = "up" /\ next[p] < total[p]
    /\ \/ mode = "paralelo" /\ pc[p] = "publish"
       \/ mode = "justo" /\ pc[p] = "spawn"
    /\ senders' = senders \cup
          {[msg |-> LastMessage(p), call |-> calls[p], index |-> next[p], fd |-> NextFd(p),
            st |-> IF mode = "justo" THEN "spawned" ELSE "sending"]}
    /\ next' = [next EXCEPT ![p] = @ + 1]
    /\ UNCHANGED <<broker, clientVars, threadVars, tableVars, jobVars,
                   mutex2, just_threads, delivered>>

\* Mutant: the threads are not joined.
NothingToJoin(p) == TRUE
AllJoined(p) == \A t \in senders : t.msg.pub # p

\* publish_msg returns; in justo mode after every thread has been joined.
FinishPublish(p) ==
    /\ broker = "up" /\ next[p] >= total[p]
    /\ \/ mode # "justo" /\ pc[p] = "publish" /\ UNCHANGED mutex2
       \/ /\ mode = "justo" /\ pc[p] = "spawn"
          /\ AllJoined(p)
          /\ mutex2' = NoOne
    /\ pc' = [pc EXCEPT ![p] = "serving"]
    /\ UNCHANGED <<broker, clientVars, at, val, fd_to_del, tableVars, jobVars, next,
                   senders, just_threads, delivered>>

----------------------------------------------------------------------------
(* send_just's barrier.  Each critical section of mutex is one step.       *)

\* Mutant: no broadcast.
NobodyMoved(S, from, to) == S
Moved(S, from, to) == {IF t.st = from THEN [t EXCEPT !.st = to] ELSE t : t \in S}

\* Mutant: no just_threads--.
PassWithoutLeaving(t, threads) ==
    /\ just_threads' = threads
    /\ senders' = Moved(senders \ {t}, "waiting", "woken") \cup {[t EXCEPT !.st = "sending"]}

\* just_threads--, broadcast, unlock.
PassBarrier(t, threads) ==
    /\ just_threads' = threads - 1
    /\ senders' = Moved(senders \ {t}, "waiting", "woken") \cup {[t EXCEPT !.st = "sending"]}

\* How many threads a round waits for; mutant: one less.
OneLess(t) == num[TopicId(t.msg.pub)]["sub"] - 1
Expected(t) == num[TopicId(t.msg.pub)]["sub"]

\* just_threads++; the thread waits unless it is the last the topic calls for.
EnterBarrier(t) ==
    /\ broker = "up" /\ t.st = "spawned"
    /\ IF just_threads + 1 < Expected(t)
       THEN /\ just_threads' = just_threads + 1
            /\ senders' = (senders \ {t}) \cup {[t EXCEPT !.st = "waiting"]}
       ELSE PassBarrier(t, just_threads + 1)
    /\ UNCHANGED <<registryVars, jobVars, next, mutex2, delivered>>

LeaveBarrier(t) ==
    /\ broker = "up" /\ t.st = "woken"
    /\ PassBarrier(t, just_threads)
    /\ UNCHANGED <<registryVars, jobVars, next, mutex2, delivered>>

SpuriousWakeup(t) ==
    /\ SpuriousWakeups /\ broker = "up" /\ t.st = "waiting"
    /\ senders' = (senders \ {t}) \cup {[t EXCEPT !.st = "woken"]}
    /\ UNCHANGED <<registryVars, jobVars, next, mutex2, just_threads, delivered>>

\* The thread's only send, after which it exits.
SendParallel(t) ==
    /\ broker = "up" /\ t.st = "sending"
    /\ SendTo(t.fd, t.msg)
    /\ senders' = senders \ {t}
    /\ UNCHANGED <<client, client_id, bye, threadVars, tableVars, jobVars,
                   next, mutex2, just_threads>>

----------------------------------------------------------------------------
PublisherStep(p) ==
    \/ SendSequential(p) \/ LockRound(p) \/ SpawnSender(p) \/ FinishPublish(p)
SenderStep == \E t \in senders : EnterBarrier(t) \/ LeaveBarrier(t) \/ SendParallel(t)

\* A step of TopicTable; users who do not overlap wait for a publish to end.
RegistryStep ==
    /\ \E c \in Clients :
          \/ Connect(c) /\ InAParty(c) /\ (JoinAnyTime \/ NoPublishUnderWay)
          \/ Interrupt(c) /\ ("leave" \in Overlap \/ NoPublishUnderWay)
          \/ Crash(c) \/ ThreadStep(c) \/ ClientStep(c)
    /\ UNCHANGED deliveryVars

BrokerNext ==
    \/ RegistryStep
    \/ \E p \in Publishers : ReceivePublish(p) \/ ReceiveNothing(p) \/ PublisherStep(p)
    \/ SenderStep
    \/ \E t \in senders : SpuriousWakeup(t)

BrokerSpec == BrokerInit /\ [][BrokerNext]_vars

(***************************************************************************)
(* The system does not stop while some thread can move; users decide       *)
(* freely, and nobody obliges a condition variable to wake a thread        *)
(* without a signal.  One weak fairness over all threads asks less than    *)
(* one for each, and is enough: what users start takes each thread a       *)
(* bounded number of steps.                                                *)
(***************************************************************************)
SystemStep ==
    \/ SenderStep
    \/ \E p \in Publishers : PublisherStep(p)
    \/ (\E c \in Clients : ClientStep(c) \/ ThreadStep(c)) /\ UNCHANGED deliveryVars
BrokerFairness == WF_vars(SystemStep)
BrokerFairSpec == BrokerSpec /\ BrokerFairness

----------------------------------------------------------------------------
(* Properties.                                                             *)

(***************************************************************************)
(* Whoever joins, leaves or dies while messages are being sent, a message  *)
(* never reaches a client of another topic, nor is about to.               *)
(***************************************************************************)
DeliveredInTopic ==
    /\ \A t \in senders : t.fd # NoSocket => TopicOf[t.fd] = TopicOf[t.msg.pub]
    /\ \A c \in Clients : \A i \in 1 .. Len(delivered[c]) :
          TopicOf[delivered[c][i].pub] = TopicOf[c]

(***************************************************************************)
(* The comments on just_threads: it counts the threads that wait, whatever *)
(* wakes them, and mutex2 keeps the threads of two calls of publish_msg    *)
(* apart.                                                                  *)
(***************************************************************************)
AtBarrier == {t \in senders : t.st \in {"waiting", "woken"}}
JustThreadsExact == just_threads = Cardinality(AtBarrier)
OneRoundAtATime ==
    mode = "justo" => \A t \in senders : mutex2 = t.msg.pub /\ t.call = calls[t.msg.pub]

(***************************************************************************)
(* secuencial and justo finish a message before the same publisher's next  *)
(* one: no stream ever goes back, not even when lists change under a send. *)
(***************************************************************************)
StreamsInOrder ==
    mode # "paralelo" =>
        \A c \in Clients : \A i, j \in 1 .. Len(delivered[c]) :
            i < j /\ delivered[c][i].pub = delivered[c][j].pub
                => delivered[c][i].seq <= delivered[c][j].seq

(***************************************************************************)
(* justo, when no client joins or leaves during a publish: no subscriber   *)
(* has a message while another thread of its round is not at the barrier.  *)
(***************************************************************************)
RoundIncomplete(p) ==
    /\ mode = "justo" /\ pc[p] = "spawn"
    /\ next[p] < total[p] \/ \E t \in senders : t.msg.pub = p /\ t.st = "spawned"
NobodyIsFirst ==
    \A p \in Publishers : RoundIncomplete(p) =>
        /\ \A t \in senders : t.msg.pub = p => t.st # "sending"
        /\ \A s \in Subscribers : \A i \in 1 .. Len(delivered[s]) :
              delivered[s][i] # LastMessage(p)

(***************************************************************************)
(* An entry is in the list before its client is answered, and publishers   *)
(* take no lock: still, as long as nobody leaves meanwhile, a message does *)
(* not come before the answer, which the client would take it for.         *)
(***************************************************************************)
AnswerComesFirst ==
    \A s \in Subscribers :
        delivered[s] # <<>> => pc[s] \notin {"recv_register", "enlist", "respond"}

(***************************************************************************)
(* justo: subscribers agree on the order of the messages of all the        *)
(* publishers of their topic.                                              *)
(***************************************************************************)
Before(m, n, stream) ==
    \E i, j \in 1 .. Len(stream) : i < j /\ stream[i] = m /\ stream[j] = n
SubscribersAgree ==
    mode = "justo" =>
        \A r, s \in Subscribers :
            \A i, j \in 1 .. Len(delivered[r]) :
                i < j => ~Before(delivered[r][j], delivered[r][i], delivered[s])

(***************************************************************************)
(* Every call of publish_msg returns: in justo the last thread wakes the   *)
(* rest (comment in send_just), and mutex2 is free again.  A publisher     *)
(* makes a bounded number of calls, so in the end none is under way.       *)
(***************************************************************************)
PublishEnds == <>[](\A p \in Publishers : pc[p] \notin Publishing)

(***************************************************************************)
(* While clients leave only between messages, the broker is the publish /  *)
(* subscribe service of PubSub: whoever is served when the thread of a     *)
(* publisher reads num_subscribers is owed the message, and gets it once.  *)
(***************************************************************************)
Owed(s) ==
    {LastMessage(p) : p \in {q \in Publishers :
        pc[q] \in Publishing /\
        \E i \in next[q] .. total[q] - 1 : CellAt(TopicId(q), i).fd = s}}
    \cup {t.msg : t \in {u \in senders : u.fd = s}}

Service == INSTANCE PubSub WITH
    members <- {s \in Subscribers : pc[s] = "serving" /\ bye[s] = NotSent},
    posted <- sent,
    owed <- [s \in Subscribers |-> Owed(s)],
    got <- [s \in Subscribers |-> delivered[s]]
ImplementsPubSub == Service!FairSpec
=============================================================================
