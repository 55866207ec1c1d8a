---------------------------- MODULE Broker_proofs ----------------------------
(***************************************************************************)
(* For any clients, topics, limits and modes.  With clients that join,     *)
(* leave and die at any moment: messages stay in their topic, streams do   *)
(* not go back, justo runs one round at a time and counts its threads.     *)
(* With clients that leave only between messages: answers come first,      *)
(* lists stay exact, the subscribers of justo agree on an order and nobody *)
(* hears first, and the broker is the service of PubSub.                   *)
(***************************************************************************)
EXTENDS Broker, TopicTable_proofs, FiniteSetTheorems

Message == [pub : Publishers, seq : Nat]
Sender == [msg : Message, call : Nat, index : Nat, fd : Clients \cup {NoSocket},
           st : {"spawned", "waiting", "woken", "sending"}]

DeliveryTypes ==
    /\ mode \in Modes
    /\ sent \in [Publishers -> Nat]
    /\ calls \in [Publishers -> Nat]
    /\ total \in [Publishers -> Int]
    /\ next \in [Publishers -> Nat]
    /\ senders \subseteq Sender /\ IsFiniteSet(senders)
    /\ mutex2 \in Publishers \cup {NoOne}
    /\ just_threads \in Int
    /\ delivered \in [Clients -> Seq(Message)]

\* In justo mode a round is that of the publisher with mutex2; secuencial has
\* no sender threads.
Rounds ==
    /\ mode = "justo" =>
          /\ \A p \in Publishers : pc[p] = "spawn" <=> mutex2 = p
          /\ \A t \in senders : /\ t.msg.pub = mutex2
                                /\ t.call = calls[t.msg.pub]
                                /\ t.msg = LastMessage(t.msg.pub)
    /\ mode = "secuencial" => senders = {}

\* A sender thread is known by its publisher, the call and the list index.
SameSender(t, u) == t.msg.pub = u.msg.pub /\ t.call = u.call /\ t.index = u.index
UniqueIn(S) == \A t, u \in S : SameSender(t, u) => t = u
Keys ==
    /\ \A t \in senders :
          /\ t.msg.seq <= sent[t.msg.pub]
          /\ t.call <= calls[t.msg.pub]
          /\ t.call = calls[t.msg.pub] => t.index < next[t.msg.pub]
    /\ UniqueIn(senders)
Threads == Rounds /\ Keys /\ JustThreadsExact

\* Nothing is delivered before it is sent.
SentBefore ==
    \A c \in Clients : \A i \in 1 .. Len(delivered[c]) :
        delivered[c][i].seq <= sent[delivered[c][i].pub]
Streams == SentBefore /\ DeliveredInTopic /\ StreamsInOrder

DInv == IdsInv /\ DeliveryTypes /\ Threads /\ Streams

----------------------------------------------------------------------------
(* Steps and what they leave alone.                                        *)

\* The table's steps never begin or end a publish.
LEMMA RegistryFrame ==
    ASSUME IdsInv, RegistryStep
    PROVE  /\ Next /\ UNCHANGED deliveryVars
           /\ \A p \in Publishers : pc'[p] # pc[p] => pc[p] \notin Publishing /\ pc'[p] \notin Publishing
<1>1. PICK c \in Clients : User(c) \/ ThreadStep(c) \/ ClientStep(c)
  BY DEF RegistryStep, User
<1>2. \/ UNCHANGED pc
      \/ \E x : x \notin Publishing /\ pc[c] \notin Publishing /\ pc' = [pc EXCEPT ![c] = x]
  <2>1. CASE User(c) \/ ClientStep(c)
    <3>1. UNCHANGED pc \/ (pc[c] = "idle" /\ pc' = [pc EXCEPT ![c] = "recv_register"])
      BY <2>1 DEF User, ClientStep, Connect, Interrupt, Crash, HandleResponse, HandlerReads,
                  threadVars, IdsInv, IdsTaken
    <3> QED
      BY <3>1 DEF Publishing
  <2>2. CASE ThreadStep(c)
    BY <2>2 DEF ThreadStep, RegisterSubscriber, RegisterPublisher, ReceivesRegister, RefuseSubscriber,
           RefusePublisher, Refuse, Enlist, Respond, CountRead, ReadCount, CountWrite, FindClient,
           ShiftClient, AnswerUnregister, UncountRead, UncountWrite, EndOfFile, Publishing
  <2> QED
    BY <1>1, <2>1, <2>2
<1>3. Next /\ UNCHANGED deliveryVars
  BY <1>1 DEF RegistryStep, Next
<1> QED
  BY <1>2, <1>3 DEF IdsInv, Inv, TypeOK, Clients

\* A publish begins at either of the two reads of the connection.
Starts(p) == \E seq \in {sent[p], sent[p] + 1} : StartPublish(p, seq)

\* The steps of the broker, by what they are about.
LEMMA BrokerSteps ==
    ASSUME [BrokerNext]_vars
    PROVE  \/ RegistryStep
           \/ \E p \in Publishers : \/ Starts(p) \/ SendSequential(p) \/ LockRound(p)
                                    \/ SpawnSender(p) \/ FinishPublish(p)
           \/ \E t \in senders : \/ EnterBarrier(t) \/ LeaveBarrier(t)
                                 \/ SpuriousWakeup(t) \/ SendParallel(t)
           \/ UNCHANGED vars
BY DEF BrokerNext, ReceivePublish, ReceiveNothing, PublisherStep, SenderStep, Starts

\* A send to a subscriber's entry keeps the types it touches.
LEMMA TypeOfSendTo ==
    ASSUME TypeOK, delivered \in [Clients -> Seq(Message)],
           NEW fd \in Clients \cup {NoSocket}, NEW m \in Message, SendTo(fd, m)
    PROVE  /\ broker' \in {"up", "down"}
           /\ inbox' \in [Clients -> Seq(Response)]
           /\ delivered' \in [Clients -> Seq(Message)]
           /\ \/ delivered' = delivered
              \/ fd \in Clients /\ delivered' = [delivered EXCEPT ![fd] = Append(@, m)]
<1>1. broker' \in {"up", "down"}
  BY DEF SendTo, BrokerAfterSend
<1>2. inbox' \in [Clients -> Seq(Response)]
  <2>1. <<[status |-> "DATA", id |-> 0]>> \in Seq(Response)
    BY DEF Response
  <2> QED
    BY <2>1 DEF TypeOK, SendTo
<1>3. \/ delivered' = delivered
      \/ fd \in Clients /\ delivered' = [delivered EXCEPT ![fd] = Append(@, m)]
  BY DEF SendTo, Open
<1>4. \A c \in Clients : Append(delivered[c], m) \in Seq(Message)
  OBVIOUS
<1> QED
  BY <1>1, <1>2, <1>3, <1>4

\* Delivery changes nothing in the table, and moves a publisher's thread only
\* among the places of a registered client.
LEMMA TableUnderDelivery ==
    ASSUME IdsInv, UNCHANGED <<client, client_id, bye, at, val, fd_to_del, tableVars>>,
           broker' \in {"up", "down"}, inbox' \in [Clients -> Seq(Response)],
           \/ pc' = pc
           \/ \E p \in Publishers, x \in {"serving"} \cup Publishing :
                 pc[p] \in {"serving"} \cup Publishing /\ pc' = [pc EXCEPT ![p] = x]
    PROVE  IdsInv'
<1>1. pc' \in [Clients -> ThreadStates]
  BY DEF IdsInv, Inv, TypeOK, ThreadStates, Publishing
<1>2. \A c \in Clients : pc'[c] # pc[c] =>
          pc[c] \in {"serving"} \cup Publishing /\ pc'[c] \in {"serving"} \cup Publishing
  BY DEF IdsInv, Inv, TypeOK, Clients
<1>3. TypeOK'
  BY <1>1 DEF IdsInv, Inv, TypeOK, tableVars
<1>4. Table'
  BY <1>2 DEF IdsInv, Inv, Table, NamesDistinct, Placed, SocketsInTheirTopic, Exists, tableVars,
              Registered, Publishing
<1>5. \A k \in TopicIds, i \in Cells : cell[k][i].fd # NoSocket => cell[k][i].fd \in Clients
  BY DEF IdsInv, Inv, TypeOK, Entry
<1>6. \A c \in Clients : /\ pc[c] = "idle" => pc'[c] = "idle"
                         /\ pc[c] \notin NotEnlisted => pc'[c] \notin NotEnlisted
  BY <1>2 DEF NotEnlisted, Publishing
<1>7. IdsTaken' /\ IdsNameOneClient'
  BY <1>5, <1>6 DEF IdsInv, IdsTaken, IdsNameOneClient, tableVars, Kind
<1> QED
  BY <1>3, <1>4, <1>7 DEF IdsInv, Inv

LEMMA NextFdIsAnFd ==
    ASSUME IdsInv, NEW p \in Publishers, pc[p] \in Publishing
    PROVE  /\ NextFd(p) \in Clients \cup {NoSocket}
           /\ NextFd(p) # NoSocket => TopicOf[NextFd(p)] = TopicOf[p]
<1>1. TopicId(p) \in TopicIds /\ topic_name[TopicId(p)] = TopicOf[p]
  BY TopicOfThread DEF IdsInv, Inv, Registered, Clients
<1>2. CellAt(TopicId(p), next[p]) \in Entry
  BY <1>1, Entries DEF IdsInv, Inv, TypeOK
<1>3. NextFd(p) # NoSocket => TopicOf[NextFd(p)] = TopicOf[p]
  BY <1>1, CopiesOfEntries DEF IdsInv, Inv, Table, SocketsInTheirTopic, NextFd
<1> QED
  BY <1>2, <1>3 DEF NextFd, Entry

\* The table's invariant holds of the whole broker.
LEMMA TableHolds == ASSUME IdsInv, DeliveryTypes, [BrokerNext]_vars PROVE IdsInv'
<1>1. CASE RegistryStep
  BY <1>1, RegistryFrame, IdsStep
<1>2. ASSUME NEW p \in Publishers, Starts(p) \/ LockRound(p) \/ SpawnSender(p) \/ FinishPublish(p)
      PROVE  IdsInv'
  BY <1>2, TableUnderDelivery
     DEF Starts, StartPublish, LockRound, SpawnSender, FinishPublish, IdsInv, Inv, TypeOK, clientVars, threadVars, Publishing
<1>3. ASSUME NEW p \in Publishers, SendSequential(p) PROVE IdsInv'
  <2>1. NextFd(p) \in Clients \cup {NoSocket} /\ LastMessage(p) \in Message
    BY <1>3, NextFdIsAnFd DEF SendSequential, Publishing, DeliveryTypes, LastMessage, Message
  <2>2. broker' \in {"up", "down"} /\ inbox' \in [Clients -> Seq(Response)]
    BY <1>3, <2>1, TypeOfSendTo DEF SendSequential, IdsInv, Inv, DeliveryTypes
  <2> QED
    BY <1>3, <2>2, TableUnderDelivery DEF SendSequential, threadVars
<1>4. ASSUME NEW t \in senders, SendParallel(t) PROVE IdsInv'
  <2>1. t.fd \in Clients \cup {NoSocket} /\ t.msg \in Message
    BY DEF DeliveryTypes, Sender
  <2>2. broker' \in {"up", "down"} /\ inbox' \in [Clients -> Seq(Response)]
    BY <1>4, <2>1, TypeOfSendTo DEF SendParallel, IdsInv, Inv, DeliveryTypes
  <2> QED
    BY <1>4, <2>2, TableUnderDelivery DEF SendParallel, threadVars
<1>5. ASSUME NEW t \in senders, EnterBarrier(t) \/ LeaveBarrier(t) \/ SpuriousWakeup(t)
      PROVE  IdsInv'
  BY <1>5, IdsStep DEF EnterBarrier, LeaveBarrier, SpuriousWakeup
<1>6. CASE UNCHANGED vars
  BY <1>6, IdsStep DEF vars
<1> QED
  BY <1>1, <1>2, <1>3, <1>4, <1>5, <1>6, BrokerSteps

----------------------------------------------------------------------------
(* Sets of sender threads.                                                 *)
SameJob(t, u) == t.msg = u.msg /\ t.call = u.call /\ t.index = u.index /\ t.fd = u.fd
Barrier(S) == {t \in S : t.st \in {"waiting", "woken"}}
\* T is a set of sender threads with jobs of S.
Heirs(S, T) ==
    /\ T \subseteq Sender /\ IsFiniteSet(T) /\ UniqueIn(T)
    /\ \A u \in T : \E v \in S : SameJob(v, u)

\* A broadcast moves the threads that wait, and loses none.
LEMMA MovedSenders ==
    ASSUME NEW S, S \subseteq Sender, IsFiniteSet(S), UniqueIn(S),
           NEW T, T = Moved(S, "waiting", "woken")
    PROVE  Heirs(S, T) /\ Cardinality(Barrier(T)) = Cardinality(Barrier(S))
<1> DEFINE m(t) == IF t.st = "waiting" THEN [t EXCEPT !.st = "woken"] ELSE t
           f == [t \in S |-> m(t)]
           g == [t \in Barrier(S) |-> m(t)]
<1>1. T = {m(t) : t \in S}
  BY DEF Moved
<1>2. \A t \in Sender : /\ m(t) \in Sender /\ SameJob(t, m(t))
                        /\ m(t).st \in {"waiting", "woken"} <=> t.st \in {"waiting", "woken"}
  BY DEF Sender, SameJob
<1>3. f \in Surjection(S, T)
  <2>1. f \in [S -> T] /\ \A u \in T : \E t \in S : f[t] = u
    BY <1>1
  <2> QED
    BY <2>1, Zenon DEF Surjection
<1>4. IsFiniteSet(T)
  BY <1>3, FS_Surjection
<1>5. \A t, u \in S : SameSender(m(t), m(u)) => t = u
  <2>1. \A t, u \in S : SameSender(m(t), m(u)) => SameSender(t, u)
    BY DEF SameSender, Sender
  <2> QED
    BY <2>1 DEF UniqueIn
<1>6. UniqueIn(T)
  <2> HIDE DEF m
  <2> QED
    BY <1>1, <1>5 DEF UniqueIn
<1>7. Barrier(T) = {m(t) : t \in Barrier(S)}
  <2> HIDE DEF m
  <2> QED
    BY <1>1, <1>2 DEF Barrier
<1>8. g \in Bijection(Barrier(S), Barrier(T))
  <2> HIDE DEF m
  <2>1. g \in [Barrier(S) -> Barrier(T)] /\ \A u \in Barrier(T) : \E t \in Barrier(S) : g[t] = u
    BY <1>7
  <2>2. \A t, u \in Barrier(S) : g[t] = g[u] => t = u
    BY <1>5 DEF Barrier, SameSender
  <2> QED
    BY <2>1, <2>2, Zenon DEF Bijection, Injection, IsInjective, Surjection
<1>9. Cardinality(Barrier(T)) = Cardinality(Barrier(S))
  <2>1. IsFiniteSet(Barrier(S))
    BY FS_Subset DEF Barrier
  <2> QED
    BY <1>8, <2>1, FS_Bijection DEF ExistsBijection
<1> QED
  <2> HIDE DEF m
  <2> QED
    BY <1>1, <1>2, <1>4, <1>6, <1>9 DEF Heirs

\* One thread of S goes to another place, while the rest become T.
LEMMA ReplacedSender ==
    ASSUME NEW S, S \subseteq Sender, UniqueIn(S), NEW t \in S,
           NEW T, Heirs(S \ {t}, T),
           NEW x \in {"spawned", "waiting", "woken", "sending"},
           NEW U, U = T \cup {[t EXCEPT !.st = x]}
    PROVE  Heirs(S, U)
<1> USE DEF Heirs
<1> DEFINE w == [t EXCEPT !.st = x]
<1>1. w \in Sender /\ SameJob(t, w) /\ w.st = x
  BY DEF Sender, SameJob
<1> HIDE DEF w
<1>2. U = T \cup {w}
  BY DEF w
<1>3. \A u \in T : ~SameSender(u, w)
  <2>1. \A v \in S \ {t} : ~SameSender(v, t)
    BY DEF UniqueIn
  <2> QED
    BY <1>1, <2>1 DEF SameSender, SameJob
<1>4. UniqueIn(U)
  BY <1>2, <1>3 DEF UniqueIn, SameSender
<1>5. IsFiniteSet(U)
  BY <1>2, FS_AddElement
<1> QED
  BY <1>1, <1>2, <1>4, <1>5

\* The rest of the threads, when one is taken away.
LEMMA OtherSenders ==
    ASSUME NEW S, S \subseteq Sender, IsFiniteSet(S), UniqueIn(S), NEW t \in S,
           NEW T, T = S \ {t}
    PROVE  /\ IsFiniteSet(T) /\ UniqueIn(T) /\ Heirs(T, T)
           /\ Cardinality(Barrier(T)) = Cardinality(Barrier(S))
                                        - (IF t.st \in {"waiting", "woken"} THEN 1 ELSE 0)
<1>1. IsFiniteSet(T) /\ IsFiniteSet(Barrier(S)) /\ Cardinality(Barrier(S)) \in Nat
  <2>1. IsFiniteSet(Barrier(S))
    BY FS_Subset DEF Barrier
  <2>2. Cardinality(Barrier(S)) \in Nat
    BY <2>1, FS_CardinalityType
  <2>3. IsFiniteSet(T)
    BY FS_RemoveElement
  <2> QED
    BY <2>1, <2>2, <2>3
<1>2. UniqueIn(T)
  BY DEF UniqueIn
<1>3. Barrier(T) = Barrier(S) \ {t}
  BY DEF Barrier
<1>4. t \in Barrier(S) <=> t.st \in {"waiting", "woken"}
  BY DEF Barrier
<1>5. Cardinality(Barrier(T)) = IF t \in Barrier(S) THEN Cardinality(Barrier(S)) - 1
                                ELSE Cardinality(Barrier(S))
  BY <1>1, <1>3, FS_RemoveElement
<1> QED
  BY <1>1, <1>2, <1>4, <1>5 DEF Heirs, SameJob

\* What every step of a sender thread does to the threads and their count.
SendersKept == Heirs(senders, senders') /\ just_threads' \in Int /\ JustThreadsExact'

LEMMA SenderSteps ==
    ASSUME DeliveryTypes, UniqueIn(senders), JustThreadsExact, NEW t \in senders,
           EnterBarrier(t) \/ LeaveBarrier(t) \/ SpuriousWakeup(t) \/ SendParallel(t)
    PROVE  SendersKept
<1> DEFINE rest == senders \ {t}
           n == Cardinality(Barrier(senders))
           moved == Moved(rest, "waiting", "woken")
<1>1. /\ senders \subseteq Sender /\ IsFiniteSet(senders)
      /\ just_threads = n /\ just_threads \in Int
      /\ (JustThreadsExact' <=> just_threads' = Cardinality(Barrier(senders')))
  BY DEF DeliveryTypes, JustThreadsExact, AtBarrier, Barrier
<1>2. /\ rest \subseteq Sender /\ IsFiniteSet(rest) /\ UniqueIn(rest) /\ Heirs(rest, rest)
      /\ Cardinality(Barrier(rest)) = n - (IF t.st \in {"waiting", "woken"} THEN 1 ELSE 0)
  BY <1>1, OtherSenders
<1>3. Heirs(rest, moved) /\ Cardinality(Barrier(moved)) = Cardinality(Barrier(rest))
  <2> HIDE DEF rest
  <2> QED
    BY <1>2, MovedSenders
<1>4. ASSUME NEW threads \in Int, PassBarrier(t, threads),
             threads = n + (IF t.st \in {"waiting", "woken"} THEN 0 ELSE 1)
      PROVE  SendersKept
  <2>1. senders' = moved \cup {[t EXCEPT !.st = "sending"]} /\ just_threads' = threads - 1
    BY <1>4 DEF PassBarrier
  <2> HIDE DEF moved
  <2>2. Heirs(senders, senders')
    BY <1>1, <1>3, <2>1, ReplacedSender
  <2>3. Barrier(senders') = Barrier(moved)
    BY <1>1, <2>1 DEF Barrier, Sender
  <2> QED
    BY <1>1, <1>2, <1>3, <1>4, <2>1, <2>2, <2>3 DEF SendersKept
<1>5. ASSUME NEW x \in {"waiting", "woken"}, senders' = rest \cup {[t EXCEPT !.st = x]}
      PROVE  /\ Heirs(senders, senders')
             /\ Cardinality(Barrier(senders')) = Cardinality(Barrier(rest)) + 1
  <2>1. Heirs(senders, senders')
    BY <1>1, <1>2, <1>5, ReplacedSender
  <2> DEFINE w == [t EXCEPT !.st = x]
  <2>2. w \notin rest
    BY <1>1 DEF UniqueIn, SameSender, Sender
  <2>3. Barrier(senders') = Barrier(rest) \cup {w} /\ w \notin Barrier(rest)
    BY <1>1, <1>5, <2>2 DEF Barrier, Sender
  <2>4. IsFiniteSet(Barrier(rest))
    BY <1>2, FS_Subset DEF Barrier
  <2>5. Cardinality(Barrier(senders')) = Cardinality(Barrier(rest)) + 1
    BY <2>3, <2>4, FS_AddElement
  <2> QED
    BY <2>1, <2>5
<1>6. CASE EnterBarrier(t)
  <2>1. t.st = "spawned"
    BY <1>6 DEF EnterBarrier
  <2>2. CASE just_threads + 1 < Expected(t)
    <3>1. senders' = rest \cup {[t EXCEPT !.st = "waiting"]} /\ just_threads' = just_threads + 1
      BY <1>6, <2>2 DEF EnterBarrier
    <3> QED
      BY <1>1, <1>2, <1>5, <2>1, <3>1 DEF SendersKept
  <2>3. CASE ~(just_threads + 1 < Expected(t))
    BY <1>1, <1>4, <1>6, <2>1, <2>3 DEF EnterBarrier
  <2> QED
    BY <2>2, <2>3
<1>7. CASE LeaveBarrier(t)
  BY <1>1, <1>4, <1>7 DEF LeaveBarrier
<1>8. CASE SpuriousWakeup(t)
  <2>1. /\ senders' = rest \cup {[t EXCEPT !.st = "woken"]} /\ just_threads' = just_threads
        /\ t.st = "waiting"
    BY <1>8 DEF SpuriousWakeup
  <2> QED
    BY <1>1, <1>2, <1>5, <2>1 DEF SendersKept
<1>9. CASE SendParallel(t)
  <2>1. senders' = rest /\ just_threads' = just_threads /\ t.st = "sending"
    BY <1>9 DEF SendParallel
  <2>2. Heirs(senders, senders')
    BY <1>2, <2>1 DEF Heirs
  <2> HIDE DEF rest
  <2> QED
    BY <1>1, <1>2, <2>1, <2>2 DEF SendersKept
<1> QED
  BY <1>6, <1>7, <1>8, <1>9

----------------------------------------------------------------------------
\* The variables of delivery keep their types.
LEMMA DeliveryTypesStep ==
    ASSUME IdsInv, DeliveryTypes, UniqueIn(senders), JustThreadsExact, [BrokerNext]_vars
    PROVE  DeliveryTypes'
<1>1. CASE RegistryStep
  BY <1>1, RegistryFrame DEF DeliveryTypes, deliveryVars
<1>2. ASSUME NEW p \in Publishers, Starts(p) PROVE DeliveryTypes'
  <2>1. TopicId(p) \in TopicIds
    BY <1>2, TopicOfThread DEF Starts, StartPublish, IdsInv, Inv, Registered, Clients
  <2>2. num[TopicId(p)]["sub"] \in Int
    BY <2>1 DEF IdsInv, Inv, TypeOK, Kinds
  <2>3. sent' \in [Publishers -> Nat] /\ calls' \in [Publishers -> Nat] /\ next' \in [Publishers -> Nat]
    BY <1>2 DEF Starts, StartPublish, DeliveryTypes
  <2>4. total' \in [Publishers -> Int]
    BY <1>2, <2>2 DEF Starts, StartPublish, DeliveryTypes
  <2> QED
    BY <1>2, <2>3, <2>4 DEF Starts, StartPublish, DeliveryTypes
<1>3. ASSUME NEW p \in Publishers, SendSequential(p) PROVE DeliveryTypes'
  <2>1. NextFd(p) \in Clients \cup {NoSocket} /\ LastMessage(p) \in Message
    BY <1>3, NextFdIsAnFd DEF SendSequential, Publishing, DeliveryTypes, LastMessage, Message
  <2>2. delivered' \in [Clients -> Seq(Message)]
    BY <1>3, <2>1, TypeOfSendTo DEF SendSequential, IdsInv, Inv, DeliveryTypes
  <2>3. next' \in [Publishers -> Nat]
    BY <1>3 DEF SendSequential, DeliveryTypes
  <2> QED
    BY <1>3, <2>2, <2>3 DEF SendSequential, jobVars, DeliveryTypes
<1>4. ASSUME NEW p \in Publishers, LockRound(p) \/ FinishPublish(p) PROVE DeliveryTypes'
  BY <1>4 DEF LockRound, FinishPublish, jobVars, DeliveryTypes
<1>5. ASSUME NEW p \in Publishers, SpawnSender(p) PROVE DeliveryTypes'
  <2> DEFINE new == [msg |-> LastMessage(p), call |-> calls[p], index |-> next[p], fd |-> NextFd(p),
                     st |-> IF mode = "justo" THEN "spawned" ELSE "sending"]
  <2>1. NextFd(p) \in Clients \cup {NoSocket}
    BY <1>5, NextFdIsAnFd DEF SpawnSender, Publishing
  <2>2. new \in Sender
    BY <2>1 DEF Sender, Message, LastMessage, DeliveryTypes
  <2>3. senders' = senders \cup {new}
    BY <1>5 DEF SpawnSender
  <2>4. next' \in [Publishers -> Nat]
    BY <1>5 DEF SpawnSender, DeliveryTypes
  <2> HIDE DEF new
  <2>5. senders' \subseteq Sender /\ IsFiniteSet(senders')
    BY <2>2, <2>3, FS_AddElement DEF DeliveryTypes
  <2> QED
    BY <1>5, <2>4, <2>5 DEF SpawnSender, jobVars, DeliveryTypes
<1>6. ASSUME NEW t \in senders,
             EnterBarrier(t) \/ LeaveBarrier(t) \/ SpuriousWakeup(t) \/ SendParallel(t)
      PROVE  DeliveryTypes'
  <2>1. senders' \subseteq Sender /\ IsFiniteSet(senders') /\ just_threads' \in Int
    BY <1>6, SenderSteps DEF SendersKept, Heirs
  <2>2. UNCHANGED <<mode, sent, calls, total, next, mutex2>>
    BY <1>6 DEF EnterBarrier, LeaveBarrier, SpuriousWakeup, SendParallel, jobVars
  <2>3. delivered' \in [Clients -> Seq(Message)]
    <3>1. t.fd \in Clients \cup {NoSocket} /\ t.msg \in Message
      BY DEF DeliveryTypes, Sender
    <3>2. UNCHANGED delivered \/ SendTo(t.fd, t.msg)
      BY <1>6 DEF EnterBarrier, LeaveBarrier, SpuriousWakeup, SendParallel
    <3> QED
      BY <3>1, <3>2, TypeOfSendTo DEF IdsInv, Inv, DeliveryTypes
  <2> QED
    BY <2>1, <2>2, <2>3 DEF DeliveryTypes
<1>7. CASE UNCHANGED vars
  BY <1>7 DEF vars, deliveryVars, DeliveryTypes
<1> QED
  BY <1>1, <1>2, <1>3, <1>4, <1>5, <1>6, <1>7, BrokerSteps

\* Rounds, jobs and the count of the barrier.
LEMMA ThreadsStep ==
    ASSUME IdsInv, DeliveryTypes, Threads, [BrokerNext]_vars
    PROVE  Threads'
<1> USE ConstantsAssumption
<1>0. /\ \A t \in senders : t.msg.pub \in Publishers /\ t.msg.seq \in Nat /\ t.call \in Nat /\ t.index \in Nat
      /\ \A p \in Publishers : p # NoOne /\ p \in Clients
      /\ pc \in [Clients -> ThreadStates]
  BY DEF DeliveryTypes, Sender, Message, Clients, IdsInv, Inv, TypeOK
<1>1. CASE RegistryStep
  <2>1. /\ UNCHANGED deliveryVars
        /\ \A p \in Publishers : pc'[p] = "spawn" <=> pc[p] = "spawn"
    BY <1>1, RegistryFrame DEF Publishing
  <2> QED
    BY <2>1 DEF deliveryVars, Threads, Rounds, Keys, UniqueIn, JustThreadsExact, AtBarrier, LastMessage
<1>2. ASSUME NEW p \in Publishers, Starts(p) PROVE Threads'
  <2>1. PICK seq \in {sent[p], sent[p] + 1} : StartPublish(p, seq)
    BY <1>2 DEF Starts
  <2>2. /\ UNCHANGED <<senders, mutex2, just_threads, mode>>
        /\ pc[p] = "serving" /\ pc' = [pc EXCEPT ![p] = "publish"]
        /\ sent' = [sent EXCEPT ![p] = seq] /\ sent[p] <= seq
        /\ calls' = [calls EXCEPT ![p] = @ + 1]
        /\ next' = [next EXCEPT ![p] = 0]
    BY <2>1 DEF StartPublish, DeliveryTypes
  <2>3. mode = "justo" => \A t \in senders : t.msg.pub # p
    BY <1>0, <2>2 DEF Threads, Rounds
  <2>4. Rounds'
    BY <1>0, <2>2, <2>3 DEF DeliveryTypes, Threads, Rounds, LastMessage
  <2>5. Keys'
    <3>1. ASSUME NEW t \in senders
          PROVE  /\ t.msg.seq <= sent'[t.msg.pub]
                 /\ t.call <= calls'[t.msg.pub]
                 /\ t.call = calls'[t.msg.pub] => t.index < next'[t.msg.pub]
      BY <1>0, <2>2 DEF DeliveryTypes, Threads, Keys
    <3> QED
      BY <2>2, <3>1 DEF Threads, Keys, UniqueIn
  <2> QED
    BY <2>2, <2>4, <2>5 DEF Threads, JustThreadsExact, AtBarrier
<1>3. ASSUME NEW p \in Publishers, SendSequential(p) PROVE Threads'
  <2>1. /\ UNCHANGED <<pc, senders, mutex2, just_threads, mode, sent, calls>>
        /\ next' = [next EXCEPT ![p] = @ + 1] /\ senders = {}
    BY <1>3 DEF SendSequential, threadVars, jobVars, Threads, Rounds
  <2> QED
    BY <2>1 DEF Threads, Rounds, Keys, UniqueIn, JustThreadsExact, AtBarrier, LastMessage
<1>4. ASSUME NEW p \in Publishers, LockRound(p) PROVE Threads'
  <2>1. /\ UNCHANGED <<senders, just_threads, mode, sent, calls, next>>
        /\ mode = "justo" /\ mutex2 = NoOne /\ mutex2' = p
        /\ pc' = [pc EXCEPT ![p] = "spawn"]
    BY <1>4 DEF LockRound, jobVars
  <2>2. senders = {}
    BY <1>0, <2>1 DEF Threads, Rounds
  <2> QED
    BY <1>0, <2>1, <2>2 DEF Threads, Rounds, Keys, UniqueIn, JustThreadsExact, AtBarrier
<1>5. ASSUME NEW p \in Publishers, SpawnSender(p) PROVE Threads'
  <2> DEFINE new == [msg |-> LastMessage(p), call |-> calls[p], index |-> next[p], fd |-> NextFd(p),
                     st |-> IF mode = "justo" THEN "spawned" ELSE "sending"]
  <2>1. /\ UNCHANGED <<pc, mutex2, just_threads, mode, sent, calls>>
        /\ next' = [next EXCEPT ![p] = @ + 1]
        /\ senders' = senders \cup {new}
        /\ \/ mode = "paralelo"
           \/ mode = "justo" /\ pc[p] = "spawn"
    BY <1>5 DEF SpawnSender, threadVars, jobVars
  <2>2. /\ new.msg = LastMessage(p) /\ new.msg.pub = p /\ new.msg.seq = sent[p]
        /\ new.call = calls[p] /\ new.index = next[p] /\ new.st \in {"spawned", "sending"}
        /\ LastMessage(p)' = LastMessage(p)
    BY <2>1 DEF LastMessage
  <2> HIDE DEF new
  <2>3. \A t \in senders : ~SameSender(t, new) /\ ~SameSender(new, t)
    BY <1>0, <2>2 DEF Threads, Keys, SameSender, DeliveryTypes
  <2>4. Keys'
    <3>1. UniqueIn(senders')
      BY <2>1, <2>3 DEF Threads, Keys, UniqueIn
    <3> QED
      BY <1>0, <2>1, <2>2, <3>1 DEF Threads, Keys, DeliveryTypes
  <2>5. Rounds'
    BY <1>0, <2>1, <2>2 DEF Threads, Rounds, LastMessage
  <2>6. AtBarrier' = AtBarrier
    BY <2>1, <2>2 DEF AtBarrier
  <2> QED
    BY <2>1, <2>4, <2>5, <2>6 DEF Threads, JustThreadsExact
<1>6. ASSUME NEW p \in Publishers, FinishPublish(p) PROVE Threads'
  <2>1. /\ UNCHANGED <<senders, just_threads, mode, sent, calls, next>>
        /\ pc' = [pc EXCEPT ![p] = "serving"]
        /\ \/ mode # "justo"
           \/ pc[p] = "spawn" /\ AllJoined(p) /\ mutex2' = NoOne
    BY <1>6 DEF FinishPublish, jobVars
  <2>2. mode = "justo" => senders = {}
    BY <1>0, <2>1 DEF Threads, Rounds, AllJoined
  <2> QED
    BY <1>0, <2>1, <2>2 DEF Threads, Rounds, Keys, UniqueIn, JustThreadsExact, AtBarrier
<1>7. ASSUME NEW t \in senders,
             EnterBarrier(t) \/ LeaveBarrier(t) \/ SpuriousWakeup(t) \/ SendParallel(t)
      PROVE  Threads'
  <2>1. /\ Heirs(senders, senders') /\ JustThreadsExact'
    BY <1>7, SenderSteps DEF SendersKept, Threads, Keys
  <2>2. UNCHANGED <<pc, mode, sent, calls, next, mutex2>>
    BY <1>7 DEF EnterBarrier, LeaveBarrier, SpuriousWakeup, SendParallel, jobVars, registryVars, threadVars
  <2>3. Rounds'
    BY <1>0, <2>1, <2>2 DEF Threads, Rounds, Heirs, SameJob, LastMessage
  <2>4. Keys'
    BY <1>0, <2>1, <2>2 DEF Threads, Keys, Heirs, SameJob
  <2> QED
    BY <2>1, <2>3, <2>4 DEF Threads
<1>8. CASE UNCHANGED vars
  BY <1>8 DEF vars, registryVars, threadVars, deliveryVars, Threads, Rounds, Keys, UniqueIn,
              JustThreadsExact, AtBarrier, LastMessage
<1> QED
  BY <1>1, <1>2, <1>3, <1>4, <1>5, <1>6, <1>7, <1>8, BrokerSteps

----------------------------------------------------------------------------
(* Streams.                                                                *)

\* A send adds its message at the end of one stream, or is lost.
LEMMA AfterSend ==
    ASSUME DeliveryTypes, NEW fd \in Clients \cup {NoSocket}, NEW m \in Message, SendTo(fd, m)
    PROVE  \A c \in Clients : \A i \in 1 .. Len(delivered'[c]) :
               \/ i \in 1 .. Len(delivered[c]) /\ delivered'[c][i] = delivered[c][i]
               \/ /\ c = fd /\ delivered'[c][i] = m
                  /\ i = Len(delivered[c]) + 1
<1>1. CASE delivered' = delivered
  BY <1>1
<1>2. CASE fd \in Clients /\ delivered' = [delivered EXCEPT ![fd] = Append(@, m)]
  <2>1. ASSUME NEW c \in Clients, NEW i \in 1 .. Len(delivered'[c])
        PROVE  \/ i \in 1 .. Len(delivered[c]) /\ delivered'[c][i] = delivered[c][i]
               \/ /\ c = fd /\ delivered'[c][i] = m
                  /\ i = Len(delivered[c]) + 1
    <3>1. delivered[c] \in Seq(Message) /\ Len(delivered[c]) \in Nat
      BY DEF DeliveryTypes
    <3>2. CASE c = fd
      <4>1. delivered'[c] = Append(delivered[c], m)
        BY <1>2, <3>2 DEF DeliveryTypes
      <4> QED
        BY <3>1, <3>2, <4>1
    <3>3. CASE c # fd
      BY <1>2, <3>3 DEF DeliveryTypes
    <3> QED
      BY <3>2, <3>3
  <2> QED
    BY <2>1
<1> QED
  BY <1>1, <1>2 DEF SendTo, Open

LEMMA MessagesInStreams ==
    ASSUME DeliveryTypes
    PROVE  \A c \in Clients : \A i \in 1 .. Len(delivered[c]) :
               delivered[c][i].pub \in Publishers /\ delivered[c][i].seq \in Nat
<1>1. \A c \in Clients : \A i \in 1 .. Len(delivered[c]) : delivered[c][i] \in Message
  BY DEF DeliveryTypes
<1> QED
  BY <1>1 DEF Message

\* A message that is the last its publisher has sent, to an entry of its
\* topic, breaks nothing.
LEMMA StreamsAfterSend ==
    ASSUME IdsInv, DeliveryTypes, Streams, UNCHANGED <<mode, sent>>,
           senders' \subseteq senders,
           NEW fd \in Clients \cup {NoSocket}, NEW m \in Message, SendTo(fd, m),
           fd # NoSocket => TopicOf[fd] = TopicOf[m.pub],
           m.seq <= sent[m.pub],
           mode # "paralelo" => m.seq = sent[m.pub]
    PROVE  Streams'
<1> DEFINE old(c, k) == k \in 1 .. Len(delivered[c]) /\ delivered'[c][k] = delivered[c][k]
           new(c, k) == c = fd /\ delivered'[c][k] = m /\ k = Len(delivered[c]) + 1
<1>0. \A c \in Clients : \A k \in 1 .. Len(delivered'[c]) : old(c, k) \/ new(c, k)
  BY AfterSend
<1>1. \A c \in Clients : \A i \in 1 .. Len(delivered[c]) :
          delivered[c][i].pub \in Publishers /\ delivered[c][i].seq \in Nat
  BY MessagesInStreams
<1>2. m.pub \in Publishers /\ m.seq \in Nat /\ \A p \in Publishers : sent[p] \in Nat
  BY DEF Message, DeliveryTypes
<1>3. SentBefore'
  <2>1. ASSUME NEW c \in Clients, NEW i \in 1 .. Len(delivered'[c])
        PROVE  delivered'[c][i].seq <= sent[delivered'[c][i].pub]
    <3>1. CASE old(c, i)
      <4>1. delivered[c][i].seq <= sent[delivered[c][i].pub]
        BY <3>1 DEF Streams, SentBefore
      <4> QED
        BY <3>1, <4>1
    <3>2. CASE new(c, i)
      BY <3>2
    <3> QED
      BY <1>0, <3>1, <3>2
  <2> QED
    BY <2>1 DEF SentBefore
<1>4. DeliveredInTopic'
  BY <1>0, ConstantsAssumption DEF Streams, DeliveredInTopic
<1>5. StreamsInOrder'
  <2>1. SUFFICES ASSUME mode # "paralelo", NEW c \in Clients,
                        NEW i \in 1 .. Len(delivered'[c]), NEW j \in 1 .. Len(delivered'[c]),
                        i < j, delivered'[c][i].pub = delivered'[c][j].pub
                 PROVE  delivered'[c][i].seq <= delivered'[c][j].seq
    BY DEF StreamsInOrder
  <2>2. Len(delivered[c]) \in Nat
    BY DEF DeliveryTypes
  <2>3. old(c, i)
    BY <1>0, <2>1, <2>2
  <2>4. CASE old(c, j)
    BY <2>1, <2>3, <2>4 DEF Streams, StreamsInOrder
  <2>5. CASE new(c, j)
    <3>1. delivered[c][i].seq <= sent[delivered[c][i].pub]
      BY <2>3 DEF Streams, SentBefore
    <3> QED
      BY <2>1, <2>3, <2>5, <3>1
  <2> QED
    BY <1>0, <2>4, <2>5
<1> QED
  BY <1>3, <1>4, <1>5 DEF Streams

\* Streams stay as they are when nothing is sent.
LEMMA StreamsUnsent ==
    ASSUME IdsInv, DeliveryTypes, Streams, UNCHANGED <<mode, delivered>>,
           \A p \in Publishers : sent'[p] \in Nat /\ sent[p] <= sent'[p],
           \A u \in senders' : u.fd # NoSocket => TopicOf[u.fd] = TopicOf[u.msg.pub]
    PROVE  Streams'
<1>1. \A c \in Clients : \A i \in 1 .. Len(delivered[c]) :
          delivered[c][i].pub \in Publishers /\ delivered[c][i].seq \in Nat
  BY MessagesInStreams
<1>2. SentBefore'
  <2>1. ASSUME NEW c \in Clients, NEW i \in 1 .. Len(delivered[c])
        PROVE  delivered[c][i].seq <= sent'[delivered[c][i].pub]
    <3> DEFINE q == delivered[c][i].pub
    <3>1. q \in Publishers /\ delivered[c][i].seq \in Nat /\ delivered[c][i].seq <= sent[q]
      BY <1>1 DEF Streams, SentBefore
    <3>2. sent[q] \in Nat /\ sent'[q] \in Nat /\ sent[q] <= sent'[q]
      BY <3>1 DEF DeliveryTypes
    <3> HIDE DEF q
    <3>3. delivered[c][i].seq <= sent'[q]
      BY <3>1, <3>2
    <3> QED
      BY <3>3 DEF q
  <2> QED
    BY <2>1 DEF SentBefore
<1> QED
  BY <1>2 DEF Streams, DeliveredInTopic, StreamsInOrder

LEMMA StreamsStep ==
    ASSUME IdsInv, DeliveryTypes, Threads, Streams, [BrokerNext]_vars
    PROVE  Streams'
<1>0. /\ \A t \in senders : /\ t.msg \in Message /\ t.msg.pub \in Publishers
                            /\ t.fd \in Clients \cup {NoSocket}
                            /\ t.fd # NoSocket => TopicOf[t.fd] = TopicOf[t.msg.pub]
      /\ \A p \in Publishers : sent[p] \in Nat
      /\ mode \in {"secuencial", "paralelo", "justo"}
  BY BrokerAssumption DEF DeliveryTypes, Sender, Message, Streams, DeliveredInTopic
<1>1. CASE RegistryStep
  BY <1>0, <1>1, RegistryFrame, StreamsUnsent DEF deliveryVars
<1>2. ASSUME NEW p \in Publishers, Starts(p) \/ LockRound(p) \/ FinishPublish(p) PROVE Streams'
  <2>1. /\ UNCHANGED <<mode, delivered, senders>>
        /\ \A q \in Publishers : sent'[q] \in Nat /\ sent[q] <= sent'[q]
    <3>1. CASE Starts(p)
      <4>1. PICK seq \in {sent[p], sent[p] + 1} : StartPublish(p, seq)
        BY <3>1 DEF Starts
      <4>2. UNCHANGED <<mode, delivered, senders>> /\ sent' = [sent EXCEPT ![p] = seq]
        BY <4>1 DEF StartPublish
      <4> QED
        BY <1>0, <4>1, <4>2 DEF DeliveryTypes
    <3>2. CASE LockRound(p) \/ FinishPublish(p)
      BY <1>0, <3>2 DEF LockRound, FinishPublish, jobVars
    <3> QED
      BY <1>2, <3>1, <3>2
  <2> QED
    BY <1>0, <2>1, StreamsUnsent
<1>3. ASSUME NEW p \in Publishers, SendSequential(p) PROVE Streams'
  <2>1. /\ NextFd(p) \in Clients \cup {NoSocket} /\ LastMessage(p) \in Message
        /\ NextFd(p) # NoSocket => TopicOf[NextFd(p)] = TopicOf[p]
        /\ LastMessage(p).pub = p /\ LastMessage(p).seq = sent[p]
    BY <1>3, NextFdIsAnFd DEF SendSequential, Publishing, DeliveryTypes, LastMessage, Message
  <2>2. UNCHANGED <<mode, sent, senders>> /\ SendTo(NextFd(p), LastMessage(p))
    BY <1>3 DEF SendSequential, jobVars
  <2> HIDE DEF LastMessage
  <2> QED
    BY <1>0, <2>1, <2>2, StreamsAfterSend
<1>4. ASSUME NEW p \in Publishers, SpawnSender(p) PROVE Streams'
  <2>1. /\ UNCHANGED <<mode, delivered, sent>>
        /\ \A u \in senders' : u \in senders \/ (u.fd = NextFd(p) /\ u.msg.pub = p)
    BY <1>4 DEF SpawnSender, jobVars, LastMessage
  <2>2. NextFd(p) # NoSocket => TopicOf[NextFd(p)] = TopicOf[p]
    BY <1>4, NextFdIsAnFd DEF SpawnSender, Publishing
  <2> QED
    BY <1>0, <2>1, <2>2, StreamsUnsent
<1>5. ASSUME NEW t \in senders, EnterBarrier(t) \/ LeaveBarrier(t) \/ SpuriousWakeup(t)
      PROVE  Streams'
  <2>1. Heirs(senders, senders')
    BY <1>5, SenderSteps DEF SendersKept, Threads, Keys
  <2>2. UNCHANGED <<mode, delivered, sent>>
    BY <1>5 DEF EnterBarrier, LeaveBarrier, SpuriousWakeup, jobVars
  <2>3. \A u \in senders' : u.fd # NoSocket => TopicOf[u.fd] = TopicOf[u.msg.pub]
    BY <1>0, <2>1 DEF Heirs, SameJob
  <2> QED
    BY <1>0, <2>2, <2>3, StreamsUnsent
<1>6. ASSUME NEW t \in senders, SendParallel(t) PROVE Streams'
  <2>1. UNCHANGED <<mode, sent>> /\ senders' \subseteq senders /\ SendTo(t.fd, t.msg)
    BY <1>6 DEF SendParallel, jobVars
  <2>2. t.msg.seq <= sent[t.msg.pub]
    BY DEF Threads, Keys
  <2>3. mode # "paralelo" => t.msg.seq = sent[t.msg.pub]
    <3>1. mode = "justo" => t.msg = LastMessage(t.msg.pub)
      BY DEF Threads, Rounds
    <3>2. mode # "secuencial"
      BY DEF Threads, Rounds
    <3>3. LastMessage(t.msg.pub).seq = sent[t.msg.pub]
      BY DEF LastMessage
    <3> QED
      BY <1>0, <3>1, <3>2, <3>3
  <2> QED
    BY <1>0, <2>1, <2>2, <2>3, StreamsAfterSend
<1>7. CASE UNCHANGED vars
  BY <1>0, <1>7, StreamsUnsent DEF vars, deliveryVars
<1> QED
  BY <1>1, <1>2, <1>3, <1>4, <1>5, <1>6, <1>7, BrokerSteps

----------------------------------------------------------------------------
LEMMA DInvAtStart == BrokerInit => DInv
<1> SUFFICES ASSUME BrokerInit PROVE DInv
  OBVIOUS
<1>1. IdsInv
  BY InvAtStart DEF BrokerInit, Init, IdsInv, IdsTaken, IdsNameOneClient, Unwritten
<1>2. senders = {} /\ IsFiniteSet(senders) /\ just_threads = 0 /\ mutex2 = NoOne
  BY FS_EmptySet DEF BrokerInit
<1>3. \A c \in Clients : delivered[c] = <<>>
  BY DEF BrokerInit
<1>4. DeliveryTypes
  BY <1>2 DEF BrokerInit, DeliveryTypes
<1>5. Threads
  <2>1. AtBarrier = {}
    BY <1>2 DEF AtBarrier
  <2>2. JustThreadsExact
    BY <1>2, <2>1, FS_EmptySet DEF JustThreadsExact
  <2>3. \A p \in Publishers : pc[p] # "spawn" /\ mutex2 # p
    BY <1>2, ConstantsAssumption DEF BrokerInit, Init, Clients
  <2> QED
    BY <1>2, <2>2, <2>3 DEF Threads, Rounds, Keys, UniqueIn
<1>6. Streams
  BY <1>2, <1>3 DEF Streams, SentBefore, DeliveredInTopic, StreamsInOrder
<1> QED
  BY <1>1, <1>4, <1>5, <1>6 DEF DInv

LEMMA DInvStep == DInv /\ [BrokerNext]_vars => DInv'
<1> SUFFICES ASSUME DInv, [BrokerNext]_vars PROVE DInv'
  OBVIOUS
<1>1. UniqueIn(senders) /\ JustThreadsExact
  BY DEF DInv, Threads, Keys
<1> QED
  BY <1>1, TableHolds, DeliveryTypesStep, ThreadsStep, StreamsStep DEF DInv

(***************************************************************************)
(* Whoever registers, leaves or dies while a list is read without mutex3,  *)
(* no thread ever sends a message to the socket of another topic's client. *)
(***************************************************************************)
THEOREM MessagesStayInTheirTopic == BrokerSpec => []DeliveredInTopic
<1>1. DInv => DeliveredInTopic
  BY DEF DInv, Streams
<1> QED
  BY <1>1, DInvAtStart, DInvStep, PTL DEF BrokerSpec

(***************************************************************************)
(* mutex2 separates the rounds of justo: every thread at work in send_just *)
(* belongs to the call of publish_msg whose thread holds it, whatever the  *)
(* lists do meanwhile.                                                     *)
(***************************************************************************)
THEOREM RoundsAreSeparate == BrokerSpec => []OneRoundAtATime
<1>1. DInv => OneRoundAtATime
  BY DEF DInv, Threads, Rounds, OneRoundAtATime
<1> QED
  BY <1>1, DInvAtStart, DInvStep, PTL DEF BrokerSpec

(***************************************************************************)
(* just_threads counts exactly the threads that wait at the barrier, with  *)
(* or without spurious wakeups.                                            *)
(***************************************************************************)
THEOREM BarrierCountIsExact == BrokerSpec => []JustThreadsExact
<1>1. DInv => JustThreadsExact
  BY DEF DInv, Threads
<1> QED
  BY <1>1, DInvAtStart, DInvStep, PTL DEF BrokerSpec

(***************************************************************************)
(* In secuencial and justo no subscriber sees a publisher's messages go    *)
(* back, not even when copy loops move its entry while it is sent to.      *)
(***************************************************************************)
THEOREM StreamsDoNotGoBack == BrokerSpec => []StreamsInOrder
<1>1. DInv => StreamsInOrder
  BY DEF DInv, Streams
<1> QED
  BY <1>1, DInvAtStart, DInvStep, PTL DEF BrokerSpec

(***************************************************************************)
(* What TopicTable promises of its tables and ids is true of the broker    *)
(* that publishes from them.                                               *)
(***************************************************************************)
THEOREM TableStaysRight == BrokerSpec => [](TypeOK /\ TopicIsolation /\ IdsNameOneClient)
<1>1. DInv => TypeOK /\ TopicIsolation /\ IdsNameOneClient
  BY DEF DInv, IdsInv, Inv, Table, TopicIsolation
<1> QED
  BY <1>1, DInvAtStart, DInvStep, PTL DEF BrokerSpec

----------------------------------------------------------------------------
(* Clients that leave only between messages, and publishers that do not    *)
(* die: the lists that are read without mutex3 stay right meanwhile.       *)

PublishersStay == Crashers \cap Publishers = {}
LeavingBetween == OneAtATime /\ RoomForSubscribers /\ PublishersStay

\* The thread of a client has sent the answer to REGISTER.
Answered(c) == pc[c] \notin {"idle"} \cup Asking

Listed(p) == num[TopicId(p)]["sub"]
\* The socket of the entry that a publisher's thread reads for its i-th send.
FdOf(p, i) == CellAt(TopicId(p), i).fd

\* Nobody leaves while a publish is under way.  A process that ends without
\* UNREGISTER has died or was refused.
Departures ==
    /\ ~NoPublishUnderWay => \A c \in Clients : ~Leaving(c)
    /\ \A c \in Clients \ Crashers :
          client[c] = "closed" /\ bye[c] = NotSent => pc[c] = "gone" /\ client_id[c] = -1

\* An entry that is not counted yet is behind the counted ones.
NewIsLast ==
    \A c \in Clients : pc[c] \in Entered =>
        EntryAt(TopicId(c), Kind(c), num[TopicId(c)][Kind(c)]).fd = c

\* A publish goes through entries that are counted, and each thread has the
\* socket of its own.
Targets ==
    /\ \A s \in Subscribers : pc[s] \notin Publishing
    /\ \A p \in Publishers : pc[p] \in Publishing => next[p] <= total[p] /\ total[p] <= Listed(p)
    /\ \A t \in senders : /\ pc[t.msg.pub] \in Serving
                          /\ t.index < Listed(t.msg.pub) /\ t.fd = FdOf(t.msg.pub, t.index)
    /\ \A c \in Clients : delivered[c] # <<>> => Answered(c)

\* Every call of publish_msg is for a message of its own.
Calls ==
    /\ sent = calls
    /\ \A t \in senders : t.msg.seq = t.call

Calm == Orderly /\ Departures /\ NewIsLast /\ Targets /\ Calls

\* An index below num_subscribers is a position of the list.
LEMMA CountedPlace ==
    ASSUME IdsInv, Orderly, NEW p \in Publishers, pc[p] \in Serving, NEW k, k = TopicId(p)
    PROVE  /\ k \in TopicIds /\ k < current_topics /\ topic_name[k] = TopicOf[p]
           /\ ListRight(k, "sub") /\ Listed(p) \in 0 .. MaxSubscribers
           /\ \A i \in Nat : i < Listed(p) =>
                 /\ i \in 0 .. LimitOf("sub") - 1 /\ i \in Positions
                 /\ FdOf(p, i) = EntryAt(k, "sub", i).fd
<1>1. k \in TopicIds /\ k < current_topics /\ topic_name[k] = TopicOf[p]
  BY TopicOfThread DEF IdsInv, Inv, Serving, Registered, Clients
<1>2. ListRight(k, "sub")
  BY <1>1 DEF Orderly, Lists, Kinds
<1>3. Listed(p) \in 0 .. MaxSubscribers
  BY <1>2 DEF ListRight, Listed, LimitOf
<1>4. ASSUME NEW i \in Nat, i < Listed(p)
      PROVE  /\ i \in 0 .. LimitOf("sub") - 1 /\ i \in Positions
             /\ FdOf(p, i) = EntryAt(k, "sub", i).fd
  <2>1. i \in 0 .. LimitOf("sub") - 1 /\ i \in Positions /\ i \in Cells
    BY <1>3, <1>4, ConstantsAssumption DEF LimitOf, Positions, Cells
  <2>2. BaseOf("sub") + i = i
    BY <2>1 DEF BaseOf
  <2> QED
    BY <2>1, <2>2 DEF FdOf, CellAt, EntryAt
<1> QED
  BY <1>1, <1>2, <1>3, <1>4

TopicsFound ==
    TypeOK /\ Table => \A c \in Clients, k \in TopicIds :
        k < current_topics /\ topic_name[k] = TopicOf[c] => TopicId(c) = k
LEMMA TopicsFoundNow == TopicsFound
BY OnOneList DEF TopicsFound
LEMMA TopicsFoundAfter == TopicsFound'
BY TopicsFoundNow, PTL

\* While nobody leaves, lists grow only, at their end.
LEMMA CountedEntriesStay ==
    ASSUME IdsInv, IdsInv', OneAtATime, Orderly, \A d \in Clients : ~Leaving(d),
           NEW c \in Clients, User(c) \/ ThreadStep(c) \/ ClientStep(c),
           NEW p \in Publishers, pc[p] \in Serving, NEW k, k = TopicId(p)
    PROVE  /\ TopicId(p)' = k
           /\ Listed(p) <= Listed(p)' /\ (Listed(p)' # Listed(p) => CountWrite(c))
           /\ \A i \in Nat : i < Listed(p) => FdOf(p, i)' = FdOf(p, i)
<1> USE ConstantsAssumption DEF IdsInv, Inv
<1>1. /\ k \in TopicIds /\ k < current_topics /\ topic_name[k] = TopicOf[p]
      /\ Listed(p) \in 0 .. MaxSubscribers /\ num[k]["sub"] \in Int
      /\ \A i \in Nat : i < Listed(p) =>
            i \in 0 .. LimitOf("sub") - 1 /\ i \in Cells /\ FdOf(p, i) = EntryAt(k, "sub", i).fd
  <2>1. /\ k \in TopicIds /\ k < current_topics /\ topic_name[k] = TopicOf[p]
        /\ Listed(p) \in 0 .. MaxSubscribers
        /\ \A i \in Nat : i < Listed(p) =>
              i \in 0 .. LimitOf("sub") - 1 /\ FdOf(p, i) = EntryAt(k, "sub", i).fd
    BY CountedPlace
  <2>2. num[k]["sub"] \in Int
    BY <2>1 DEF TypeOK, Kinds
  <2>3. 0 .. LimitOf("sub") - 1 \subseteq Cells
    BY DEF LimitOf, Cells
  <2> QED
    BY <2>1, <2>2, <2>3
<1>2. pc[c] \notin Unregistering /\ ~FindClient(c)
  BY DEF Orderly, Phases, Leaving, Unregistering, FindClient
<1>3. ~ShiftClient(c) /\ ~UncountWrite(c)
  BY <1>2 DEF ShiftClient, UncountWrite, Unregistering
<1>4. k < current_topics' /\ topic_name'[k] = topic_name[k]
  <2>1. CASE RegisterSubscriber(c)
    BY <1>1, <2>1 DEF TypeOK, RegisterSubscriber, TopicIds
  <2>2. CASE ~RegisterSubscriber(c)
    BY <1>1, <1>2, <1>3, <2>2, QuietSteps DEF Orderly, Quiet, Moves, Enlist, CountWrite
  <2> QED
    BY <2>1, <2>2
<1>5. TopicId(p)' = k
  BY <1>1, <1>4, TopicsFoundAfter DEF TopicsFound, Clients
<1>6. Listed(p)' = num'[k]["sub"] /\ Listed(p) = num[k]["sub"]
  BY <1>5 DEF Listed
<1>7. Listed(p) <= Listed(p)' /\ (Listed(p)' # Listed(p) => CountWrite(c))
  <2>1. CASE CountWrite(c)
    <3>1. num' = [num EXCEPT ![TopicId(c)][Kind(c)] = val[c] + 1] /\ pc[c] = "count_write"
      BY <2>1 DEF CountWrite
    <3>2. TopicId(c) \in TopicIds /\ TopicId(c) < current_topics /\ topic_name[TopicId(c)] = TopicOf[c]
      BY <3>1, TopicOfThread DEF Registered, Registering
    <3>3. val[c] = num[TopicId(c)][Kind(c)]
      BY <3>1, <3>2 DEF Orderly, AtWork, Remembers
    <3>4. num'[k]["sub"] = IF k = TopicId(c) /\ Kind(c) = "sub" THEN val[c] + 1 ELSE num[k]["sub"]
      <4>1. num \in [TopicIds -> [Kinds -> Int]] /\ Kind(c) \in Kinds /\ "sub" \in Kinds
        BY KindOf DEF TypeOK, Kinds
      <4>2. ASSUME NEW l \in TopicIds, NEW kind \in Kinds, num' = [num EXCEPT ![l][kind] = val[c] + 1]
            PROVE  num'[k]["sub"] = IF k = l /\ kind = "sub" THEN val[c] + 1 ELSE num[k]["sub"]
        BY <1>1, <4>1, <4>2
      <4> QED
        BY <3>1, <3>2, <4>1, <4>2
    <3>5. num'[k]["sub"] = num[k]["sub"] \/ num'[k]["sub"] = num[k]["sub"] + 1
      BY <3>3, <3>4
    <3> QED
      BY <1>1, <1>6, <2>1, <3>5
  <2>2. CASE ~CountWrite(c)
    <3>1. UNCHANGED num
      BY <1>2, <1>3, <2>2, QuietSteps DEF Orderly, Quiet, Moves, Enlist, RegisterSubscriber
    <3> QED
      BY <1>1, <1>6, <3>1
  <2> QED
    BY <2>1, <2>2
<1>8. ASSUME NEW i \in Nat, i < Listed(p) PROVE FdOf(p, i)' = FdOf(p, i)
  <2>1. i \in 0 .. LimitOf("sub") - 1 /\ i \in Cells /\ FdOf(p, i) = EntryAt(k, "sub", i).fd
    BY <1>1, <1>8
  <2>2. FdOf(p, i)' = EntryAt(k, "sub", i)'.fd
    <3>1. BaseOf("sub") + i = i
      BY DEF BaseOf
    <3> QED
      BY <1>5, <2>1, <3>1 DEF FdOf, CellAt, EntryAt, BaseOf
  <2>3. EntryAt(k, "sub", i)' = EntryAt(k, "sub", i)
    <3>1. CASE Enlist(c)
      <4>1. /\ pc[c] = "enlist" /\ cell' = WithCell(TopicId(c), Base(c) + at[c], [id |-> NewId(c), fd |-> c])
        BY <3>1 DEF Enlist
      <4>2. TopicId(c) \in TopicIds /\ TopicId(c) < current_topics /\ topic_name[TopicId(c)] = TopicOf[c]
        BY <4>1, TopicOfThread DEF Registered, Registering
      <4>3. at[c] = num[TopicId(c)][Kind(c)] /\ at[c] < LimitOf(Kind(c))
        BY <4>1, <4>2 DEF Orderly, AtWork, Remembers
      <4>4. ListRight(TopicId(c), Kind(c))
        BY <4>2, KindOf DEF Orderly, Lists
      <4>5. at[c] \in 0 .. Limit(c) - 1
        BY <4>3, <4>4, KindOf DEF ListRight
      <4>6. EntryAt(k, "sub", i)' = IF k = TopicId(c) /\ "sub" = Kind(c) /\ i = at[c]
                                    THEN [id |-> NewId(c), fd |-> c] ELSE EntryAt(k, "sub", i)
        <5>1. \A l \in TopicIds, kind \in Kinds : \A j \in 0 .. LimitOf(kind) - 1 :
                 EntryAt(l, kind, j)' = IF l = TopicId(c) /\ kind = Kind(c) /\ j = at[c]
                                        THEN [id |-> NewId(c), fd |-> c] ELSE EntryAt(l, kind, j)
          BY <4>1, <4>2, <4>5, OneEntryWritten
        <5> QED
          BY <1>1, <2>1, <5>1 DEF Kinds
      <4> QED
        BY <1>6, <1>8, <4>3, <4>6
    <3>2. CASE ~Enlist(c)
      <4>1. UNCHANGED cell
        BY <1>2, <1>3, <3>2, QuietSteps DEF Orderly, Quiet, Moves, CountWrite, RegisterSubscriber
      <4> QED
        BY <4>1 DEF EntryAt, BaseOf
    <3> QED
      BY <3>1, <3>2
  <2> QED
    BY <2>1, <2>2, <2>3
<1> QED
  BY <1>5, <1>7, <1>8

\* Delivery leaves the table alone, and moves a publisher's thread only while
\* nobody leaves.
DeliveryMoves ==
    \/ pc' = pc
    \/ /\ \A c \in Clients : ~Leaving(c)
       /\ \E p \in Publishers, x \in Serving : pc[p] \in Serving /\ pc' = [pc EXCEPT ![p] = x]
LEMMA OrderlyUnderDelivery ==
    ASSUME IdsInv, Orderly, DeliveryMoves,
           UNCHANGED <<clientVars, at, val, fd_to_del, tableVars>>
    PROVE  Orderly'
<1> USE DEF Orderly, clientVars, tableVars
<1>1. \A c \in Clients : \/ pc'[c] = pc[c]
                         \/ pc[c] \in Serving /\ pc'[c] \in Serving /\ \A d \in Clients : ~Leaving(d)
  BY DEF DeliveryMoves, IdsInv, Inv, TypeOK, Clients
<1>2. \A c \in Clients : /\ SameStanding(c) /\ (pc'[c] # pc[c] => ~Leaving(c)')
                         /\ \A x : x \notin Serving => (pc'[c] = x <=> pc[c] = x)
                         /\ pc'[c] \in Registering <=> pc[c] \in Registering
  BY <1>1 DEF SameStanding, Member, DiedRegistered, Entered, Serving, Publishing, Leaving,
              Registering, Unregistering
<1>3. Phases'
  BY <1>1, <1>2 DEF Phases, Leaving, Serving, Publishing, Unregistering
<1>4. Lives'
  <2>1. ASSUME NEW c \in Clients, pc'[c] = pc[c] PROVE Life(c)'
    BY <2>1 DEF Lives, Life
  <2>2. ASSUME NEW c \in Clients, pc[c] \in Serving, pc'[c] \in Serving, ~Leaving(c) PROVE Life(c)'
    <3>1. Life(c) /\ bye[c] = NotSent
      BY <2>2 DEF Lives, Leaving, Serving, Publishing
    <3> QED
      BY <2>2, <3>1 DEF Life, Serving, Publishing, Asking, Unregistering, NotSent
  <2> HIDE DEF Life
  <2> QED
    BY <1>1, <2>1, <2>2 DEF Lives
<1>5. Told'
  <2>1. \A c \in Clients : \A id : Tells(c, id) => Tells(c, id)'
    BY <1>2 DEF Tells, Serving, Publishing, Kind
  <2>2. \A k \in TopicIds, i \in Cells : cell[k][i].fd # NoSocket => cell[k][i].fd \in Clients
    BY DEF IdsInv, Inv, TypeOK, Entry
  <2> QED
    BY <2>1, <2>2 DEF Told
<1>6. Rooted'
  BY <1>2 DEF Rooted, SameStanding, Exists
<1>7. Lists'
  <2> SUFFICES ASSUME NEW k \in TopicIds, NEW kind \in Kinds
               PROVE  /\ k < current_topics' => ListRight(k, kind)'
                      /\ ~(k < current_topics') => num'[k][kind] = 0
    BY DEF Lists
  <2>1. \A i \in Positions : EntryAt(k, kind, i)' = EntryAt(k, kind, i)
    BY DEF EntryAt, BaseOf
  <2>2. next_id'["pub"] \in Nat /\ next_id["pub"] <= next_id'["pub"]
    BY DEF IdsInv, Inv, TypeOK, Kinds
  <2>3. topic_name'[k] = topic_name[k] /\ num'[k][kind] = num[k][kind] /\ TypeOK
    BY DEF IdsInv, Inv
  <2>4. \A d \in Clients : at'[d] = at[d]
    OBVIOUS
  <2> QED
    BY <1>2, <2>1, <2>2, <2>3, <2>4, ListKept DEF Lists
<1>8. AtWork'
  BY <1>2 DEF AtWork, Remembers, Kind, LimitOf, Unregistering, Serving, Publishing
<1>9. Numbered'
  BY <1>2 DEF Numbered, Kind, Serving, Publishing
<1> HIDE DEF Phases, Lives, Told, Rooted, Lists, AtWork, Numbered
<1> QED
  BY <1>3, <1>4, <1>5, <1>6, <1>7, <1>8, <1>9

\* A list keeps its uncounted entry behind the counted ones.
LEMMA NewIsLastStep ==
    ASSUME IdsInv, OneAtATime, Orderly, NewIsLast,
           NEW c \in Clients, User(c) \/ ThreadStep(c) \/ ClientStep(c), Alone(c)
    PROVE  NewIsLast'
<1> USE DEF IdsInv, Inv, Orderly
<1> USE ConstantsAssumption
<1>1. CASE Quiet(c)
  <2>1. \A d \in Clients : pc'[d] \in Entered <=> pc[d] \in Entered
    BY <1>1, OthersStand DEF Quiet, SameStanding
  <2>2. UNCHANGED <<current_topics, topic_name, cell, num>>
    BY <1>1 DEF Quiet
  <2> QED
    <3>1. \A d \in Clients : TopicId(d)' = TopicId(d) /\ Kind(d)' = Kind(d)
      BY <2>2 DEF TopicId, get_topic_id, Kind
    <3>2. \A d \in Clients : EntryAt(TopicId(d), Kind(d), num[TopicId(d)][Kind(d)])'
                             = EntryAt(TopicId(d), Kind(d), num[TopicId(d)][Kind(d)])
      BY <2>2, <3>1 DEF EntryAt, BaseOf
    <3> QED
      BY <2>1, <3>2 DEF NewIsLast
<1>2. ASSUME pc[c] \in Registering \/ Leaving(c) PROVE \A d \in Clients \ {c} : pc'[d] \notin Entered
  BY <1>2, OneAtWork DEF AloneAtWork, Alone, Entered, Registering
<1>3. CASE RegisterSubscriber(c)
  <2>1. pc'[c] = "enlist" /\ ReceivesRegister(c)
    BY <1>3 DEF TypeOK, RegisterSubscriber
  <2>2. \A d \in Clients \ {c} : pc'[d] \notin Registering
    BY <2>1, NobodyAtWork DEF Alone
  <2> QED
    BY <2>1, <2>2 DEF NewIsLast, Entered, Registering
<1>4. CASE CountWrite(c) \/ FindClient(c) \/ ShiftClient(c) \/ UncountWrite(c)
  <2>1. pc[c] \in Registering \/ Leaving(c)
    BY <1>4 DEF CountWrite, FindClient, ShiftClient, UncountWrite, Phases, Registering, Unregistering, Leaving
  <2>2. pc'[c] \notin Entered
    BY <1>4 DEF TypeOK, CountWrite, FindClient, ShiftClient, UncountWrite, Entered
  <2> QED
    BY <1>2, <2>1, <2>2 DEF NewIsLast
<1>5. CASE Enlist(c)
  <2> SUFFICES ASSUME NEW k, k = TopicId(c), NEW kind, kind = Kind(c), NEW n, n = num[k][kind]
               PROVE  NewIsLast'
    OBVIOUS
  <2>1. /\ pc[c] = "enlist" /\ cell' = WithCell(k, Base(c) + at[c], [id |-> NewId(c), fd |-> c])
        /\ UNCHANGED <<current_topics, topic_name, num>>
    BY <1>5 DEF Enlist
  <2>2. k \in TopicIds /\ k < current_topics /\ topic_name[k] = TopicOf[c] /\ kind \in Kinds
    BY <2>1, TopicOfThread, KindOf DEF Registered, Registering
  <2>3. at[c] = n /\ at[c] < LimitOf(kind)
    BY <2>1, <2>2 DEF AtWork, Remembers
  <2>4. at[c] \in 0 .. Limit(c) - 1 /\ at[c] \in 0 .. LimitOf(kind) - 1
    BY <2>2, <2>3, KindOf DEF Lists, ListRight
  <2>5. \A l \in TopicIds, knd \in Kinds : \A j \in 0 .. LimitOf(knd) - 1 :
           EntryAt(l, knd, j)' = IF l = k /\ knd = Kind(c) /\ j = at[c]
                                 THEN [id |-> NewId(c), fd |-> c] ELSE EntryAt(l, knd, j)
    BY <2>1, <2>2, <2>4, OneEntryWritten
  <2>6. EntryAt(k, kind, n)'.fd = c
    BY <2>2, <2>3, <2>4, <2>5
  <2>7. TopicId(c)' = k /\ num'[k][kind] = n
    BY <2>1 DEF TopicId, get_topic_id
  <2>8. \A d \in Clients \ {c} : pc'[d] \notin Entered
    BY <1>2, <2>1 DEF Registering
  <2>9. EntryAt(TopicId(c), Kind(c), num[TopicId(c)][Kind(c)])'.fd = c
    BY <2>6, <2>7 DEF EntryAt, BaseOf, Kind
  <2> QED
    BY <2>8, <2>9 DEF NewIsLast
<1> QED
  BY <1>1, <1>3, <1>4, <1>5, QuietSteps DEF Moves

\* While nobody leaves, the counted entries are those of the clients being
\* served and of dead ones, one each.
LEMMA CountedEntries ==
    ASSUME IdsInv, Orderly, NewIsLast, \A d \in Clients : ~Leaving(d),
           NEW p \in Publishers, pc[p] \in Serving
    PROVE  /\ \A i \in Nat : i < Listed(p) =>
                 /\ FdOf(p, i) \in Subscribers /\ TopicOf[FdOf(p, i)] = TopicOf[p]
                 /\ pc[FdOf(p, i)] \in Serving \/ DiedRegistered(FdOf(p, i))
           /\ \A i, j \in Nat : i < Listed(p) /\ j < Listed(p) /\ FdOf(p, i) = FdOf(p, j) => i = j
           /\ \A s \in Subscribers :
                 TopicOf[s] = TopicOf[p] /\ pc[s] \in Serving => \E i \in Nat : i < Listed(p) /\ FdOf(p, i) = s
<1> SUFFICES ASSUME NEW k, k = TopicId(p), NEW n, n = Listed(p)
             PROVE  /\ \A i \in Nat : i < n =>
                          /\ FdOf(p, i) \in Subscribers /\ TopicOf[FdOf(p, i)] = TopicOf[p]
                          /\ pc[FdOf(p, i)] \in Serving \/ DiedRegistered(FdOf(p, i))
                    /\ \A i, j \in Nat : i < n /\ j < n /\ FdOf(p, i) = FdOf(p, j) => i = j
                    /\ \A s \in Subscribers :
                          TopicOf[s] = TopicOf[p] /\ pc[s] \in Serving =>
                              \E i \in Nat : i < n /\ FdOf(p, i) = s
  OBVIOUS
<1> USE DEF IdsInv, Inv
<1>1. /\ k \in TopicIds /\ k < current_topics /\ topic_name[k] = TopicOf[p]
      /\ ListRight(k, "sub") /\ n \in 0 .. MaxSubscribers /\ n = num[k]["sub"] /\ "sub" \in Kinds
      /\ \A i \in Nat : i < n => i \in Positions /\ FdOf(p, i) = EntryAt(k, "sub", i).fd
  BY CountedPlace DEF Listed, Kinds
<1>2. \A d \in Clients : pc[d] \notin Unregistering
  BY DEF Orderly, Phases, Leaving, Unregistering
<1>3. \A i \in Positions :
         InUse(k, "sub", i) <=> i < n \/ (i = n /\ \E c \in Clients : On(c, k, "sub") /\ pc[c] \in Entered)
  BY <1>1, <1>2 DEF InUse
<1>4. ASSUME NEW c \in Clients, On(c, k, "sub"), pc[c] \in Entered
      PROVE  InUse(k, "sub", n) /\ n \in Positions /\ EntryAt(k, "sub", n).fd = c
  <2>1. TopicId(c) = k /\ Kind(c) = "sub"
    BY <1>1, <1>4, TopicsFoundNow DEF TopicsFound, On
  <2>2. EntryAt(k, "sub", n).fd = c
    BY <1>1, <1>4, <2>1 DEF NewIsLast
  <2>3. n \in Positions
    BY <1>1, ConstantsAssumption DEF Positions
  <2> QED
    BY <1>3, <1>4, <2>2, <2>3
<1>5. ASSUME NEW i \in Nat, i < n
      PROVE  /\ FdOf(p, i) \in Subscribers /\ TopicOf[FdOf(p, i)] = TopicOf[p]
             /\ pc[FdOf(p, i)] \in Serving \/ DiedRegistered(FdOf(p, i))
  <2> SUFFICES ASSUME NEW d, d = FdOf(p, i)
               PROVE  d \in Subscribers /\ TopicOf[d] = TopicOf[p] /\ (pc[d] \in Serving \/ DiedRegistered(d))
    OBVIOUS
  <2>1. i \in Positions /\ InUse(k, "sub", i) /\ EntryAt(k, "sub", i).fd = d
    BY <1>1, <1>3, <1>5
  <2>2. d \in Clients /\ On(d, k, "sub") /\ Member(d)
    BY <1>1, <2>1 DEF ListRight
  <2>3. d \in Subscribers /\ TopicOf[d] = TopicOf[p]
    BY <1>1, <2>2 DEF On, Kind
  <2>4. pc[d] \notin Entered
    <3> SUFFICES ASSUME pc[d] \in Entered PROVE FALSE
      OBVIOUS
    <3>1. i = n
      BY <1>1, <1>4, <2>1, <2>2, OneEntryEach
    <3> QED
      BY <1>1, <1>5, <3>1
  <2> QED
    BY <2>2, <2>3, <2>4 DEF Member
<1>6. \A i, j \in Nat : i < n /\ j < n /\ FdOf(p, i) = FdOf(p, j) => i = j
  BY <1>1, <1>3, OneEntryEach
<1>7. ASSUME NEW s \in Subscribers, TopicOf[s] = TopicOf[p], pc[s] \in Serving
      PROVE  \E i \in Nat : i < n /\ FdOf(p, i) = s
  <2>1. On(s, k, "sub") /\ Member(s) /\ s \in Clients
    BY <1>1, <1>7 DEF On, Kind, Member, Clients
  <2>2. PICK i \in Positions : InUse(k, "sub", i) /\ EntryAt(k, "sub", i).fd = s
    BY <1>1, <2>1 DEF ListRight
  <2>3. i # n
    BY <1>3, <1>4, <1>7, <2>2, <1>1 DEF Entered, Serving, Publishing
  <2> QED
    BY <1>1, <1>3, <2>2, <2>3 DEF Positions
<1> QED
  BY <1>5, <1>6, <1>7

\* What is listed has been answered, so that a message is not misread.
LEMMA AnsweredClients ==
    ASSUME IdsInv, Orderly, NEW c \in Clients
    PROVE  /\ pc[c] \in Serving \/ DiedRegistered(c) => Answered(c)
           /\ Answered(c) => ~Misread(c)
<1>1. Life(c)
  BY DEF Orderly, Lives
<1>2. pc[c] \in Serving \/ DiedRegistered(c) => Answered(c)
  BY DEF Answered, Asking, Serving, Publishing, DiedRegistered
<1>3. ASSUME Answered(c), client[c] = "registering" PROVE inbox[c] # <<>>
  BY <1>1, <1>3 DEF Life, Answered, Asking
<1> QED
  BY <1>2, <1>3 DEF Misread

\* Where nobody leaves meanwhile, a publish begins with a message of its own.
LEMMA CalmSteps ==
    ASSUME LeavingBetween, Orderly, Departures, [BrokerNext]_vars
    PROVE  \/ RegistryStep
           \/ \E p \in Publishers :
                 \/ StartPublish(p, sent[p] + 1) /\ \A d \in Clients : ~Leaving(d)
                 \/ SendSequential(p) \/ LockRound(p) \/ SpawnSender(p) \/ FinishPublish(p)
           \/ \E t \in senders : \/ EnterBarrier(t) \/ LeaveBarrier(t)
                                 \/ SpuriousWakeup(t) \/ SendParallel(t)
           \/ UNCHANGED vars
<1>1. ASSUME NEW p \in Publishers, ReceivePublish(p)
      PROVE  StartPublish(p, sent[p] + 1) /\ \A d \in Clients : ~Leaving(d)
  BY <1>1 DEF ReceivePublish, LeavingBetween, OneAtATime
<1>2. ASSUME NEW p \in Publishers PROVE ~ReceiveNothing(p)
  <2> SUFFICES ASSUME ReceiveNothing(p) PROVE FALSE
    OBVIOUS
  <2>1. client[p] = "closed" /\ bye[p] = NotSent /\ pc[p] = "serving"
    BY DEF ReceiveNothing, StartPublish
  <2>2. p \in Clients \ Crashers
    BY DEF LeavingBetween, PublishersStay, Clients
  <2> QED
    BY <2>1, <2>2 DEF Departures
<1> QED
  BY <1>1, <1>2 DEF BrokerNext, PublisherStep, SenderStep

\* While something is under way, nobody leaves.
LEMMA NobodyLeaves ==
    ASSUME Departures, senders # {} \/ \E p \in Publishers : pc[p] \in Publishing
    PROVE  \A d \in Clients : ~Leaving(d)
BY DEF Departures, NoPublishUnderWay

\* A message goes to a subscriber that has been answered.
LEMMA SendsToAnswered ==
    ASSUME IdsInv, DeliveryTypes, Calm
    PROVE  /\ \A p \in Publishers : SendSequential(p) =>
                 /\ NextFd(p) \in Subscribers /\ Answered(NextFd(p)) /\ UNCHANGED inbox
                 /\ pc[NextFd(p)] \in Serving \/ DiedRegistered(NextFd(p))
           /\ \A t \in senders :
                 /\ t.fd \in Subscribers /\ Answered(t.fd) /\ (SendParallel(t) => UNCHANGED inbox)
                 /\ pc[t.fd] \in Serving \/ DiedRegistered(t.fd)
<1> USE DEF Calm
<1>1. ASSUME NEW p \in Publishers, SendSequential(p)
      PROVE  /\ NextFd(p) \in Subscribers /\ Answered(NextFd(p)) /\ UNCHANGED inbox
             /\ pc[NextFd(p)] \in Serving \/ DiedRegistered(NextFd(p))
  <2>1. pc[p] \in Publishing /\ pc[p] \in Serving /\ next[p] < total[p] /\ SendTo(NextFd(p), LastMessage(p))
    BY <1>1 DEF SendSequential, Publishing, Serving
  <2>2. next[p] \in Nat /\ next[p] < Listed(p) /\ NextFd(p) = FdOf(p, next[p])
    <3>1. next[p] \in Nat /\ total[p] \in Int /\ total[p] <= Listed(p)
      BY <2>1 DEF Targets, DeliveryTypes
    <3>2. Listed(p) \in Int
      BY <2>1, CountedPlace
    <3> QED
      BY <2>1, <3>1, <3>2 DEF NextFd, FdOf
  <2>3. /\ NextFd(p) \in Subscribers
        /\ pc[NextFd(p)] \in Serving \/ DiedRegistered(NextFd(p))
    BY <2>1, <2>2, NobodyLeaves, CountedEntries
  <2>4. Answered(NextFd(p)) /\ ~Misread(NextFd(p))
    BY <2>3, AnsweredClients DEF Clients
  <2> QED
    BY <2>1, <2>3, <2>4 DEF SendTo
<1>2. ASSUME NEW t \in senders
      PROVE  /\ t.fd \in Subscribers /\ Answered(t.fd) /\ (SendParallel(t) => UNCHANGED inbox)
             /\ pc[t.fd] \in Serving \/ DiedRegistered(t.fd)
  <2>1. /\ t.msg.pub \in Publishers /\ t.index \in Nat /\ pc[t.msg.pub] \in Serving
        /\ t.index < Listed(t.msg.pub) /\ t.fd = FdOf(t.msg.pub, t.index)
    BY DEF Targets, DeliveryTypes, Sender, Message
  <2>2. /\ t.fd \in Subscribers
        /\ pc[t.fd] \in Serving \/ DiedRegistered(t.fd)
    BY <2>1, NobodyLeaves, CountedEntries
  <2>3. Answered(t.fd) /\ ~Misread(t.fd)
    BY <2>2, AnsweredClients DEF Clients
  <2> QED
    BY <2>2, <2>3 DEF SendParallel, SendTo
<1> QED
  BY <1>1, <1>2

\* What delivery changes of what the table's proofs are about.
LEMMA DeliveryFrame ==
    ASSUME LeavingBetween, IdsInv, DeliveryTypes, Calm, [BrokerNext]_vars
    PROVE  \/ RegistryStep
           \/ DeliveryMoves /\ UNCHANGED <<clientVars, at, val, fd_to_del, tableVars>>
<1> USE DEF Calm
<1>1. ASSUME NEW p \in Publishers,
             \/ StartPublish(p, sent[p] + 1) /\ \A d \in Clients : ~Leaving(d)
             \/ LockRound(p) \/ SpawnSender(p) \/ FinishPublish(p)
      PROVE  DeliveryMoves /\ UNCHANGED <<clientVars, at, val, fd_to_del, tableVars>>
  <2>1. CASE SpawnSender(p)
    BY <2>1 DEF SpawnSender, threadVars, DeliveryMoves
  <2>2. CASE StartPublish(p, sent[p] + 1) /\ \A d \in Clients : ~Leaving(d)
    BY <2>2 DEF StartPublish, DeliveryMoves, Serving, Publishing
  <2>3. CASE LockRound(p) \/ FinishPublish(p)
    <3>1. pc[p] \in Publishing
      BY <2>3 DEF LockRound, FinishPublish, Publishing
    <3>2. \A d \in Clients : ~Leaving(d)
      BY <3>1, NobodyLeaves
    <3> QED
      BY <2>3, <3>1, <3>2 DEF LockRound, FinishPublish, DeliveryMoves, Serving, Publishing
  <2> QED
    BY <1>1, <2>1, <2>2, <2>3
<1>2. ASSUME NEW p \in Publishers, SendSequential(p)
      PROVE  DeliveryMoves /\ UNCHANGED <<clientVars, at, val, fd_to_del, tableVars>>
  BY <1>2, SendsToAnswered DEF SendSequential, DeliveryMoves, clientVars, threadVars
<1>3. ASSUME NEW t \in senders,
             EnterBarrier(t) \/ LeaveBarrier(t) \/ SpuriousWakeup(t) \/ SendParallel(t)
      PROVE  DeliveryMoves /\ UNCHANGED <<clientVars, at, val, fd_to_del, tableVars>>
  <2>1. CASE SendParallel(t)
    BY <2>1, SendsToAnswered DEF SendParallel, DeliveryMoves, clientVars, threadVars
  <2> QED
    BY <1>3, <2>1 DEF EnterBarrier, LeaveBarrier, SpuriousWakeup, DeliveryMoves, registryVars, threadVars
<1>4. CASE UNCHANGED vars
  BY <1>4 DEF vars, registryVars, threadVars, DeliveryMoves
<1> QED
  BY <1>1, <1>2, <1>3, <1>4, CalmSteps

\* The table's order survives every step of the broker.
LEMMA OrderlyInBroker ==
    ASSUME LeavingBetween, IdsInv, DeliveryTypes, Calm, [BrokerNext]_vars
    PROVE  Orderly' /\ NewIsLast'
<1> USE DEF Calm
<1>1. CASE RegistryStep
  <2>1. Orderly'
    BY <1>1, RegistryFrame, OrderlyStep DEF LeavingBetween
  <2>2. PICK c \in Clients : User(c) \/ ThreadStep(c) \/ ClientStep(c)
    BY <1>1 DEF RegistryStep, User
  <2>3. Alone(c)
    BY <2>2, StepsAreAlone DEF IdsInv, Inv, Orderly
  <2> QED
    BY <2>1, <2>2, <2>3, NewIsLastStep DEF LeavingBetween
<1>2. CASE DeliveryMoves /\ UNCHANGED <<clientVars, at, val, fd_to_del, tableVars>>
  <2>1. Orderly'
    BY <1>2, OrderlyUnderDelivery
  <2>2. \A c \in Clients : pc'[c] \in Entered <=> pc[c] \in Entered
    BY <1>2 DEF DeliveryMoves, Serving, Publishing, Entered, IdsInv, Inv, TypeOK, Clients
  <2>3. UNCHANGED <<current_topics, topic_name, cell, num>>
    BY <1>2 DEF tableVars
  <2>4. \A c \in Clients : TopicId(c)' = TopicId(c) /\ Kind(c)' = Kind(c)
    BY <2>3 DEF TopicId, get_topic_id, Kind
  <2>5. \A c \in Clients : EntryAt(TopicId(c), Kind(c), num[TopicId(c)][Kind(c)])'
                           = EntryAt(TopicId(c), Kind(c), num[TopicId(c)][Kind(c)])
    BY <2>3, <2>4 DEF EntryAt, BaseOf
  <2> QED
    BY <2>1, <2>2, <2>5 DEF NewIsLast
<1> QED
  BY <1>1, <1>2, DeliveryFrame

\* What a step of the table does to the place of its own client's thread.
LEMMA RegistryMoves ==
    ASSUME IdsInv, Orderly, NEW c \in Clients, User(c) \/ ThreadStep(c) \/ ClientStep(c)
    PROVE  /\ pc'[c] \in Publishing <=> pc[c] \in Publishing
           /\ pc[c] = "gone" => pc'[c] = "gone"
           /\ Connect(c) \/ Crash(c) \/ ThreadStep(c) \/ ClientStep(c) => bye'[c] = bye[c]
           /\ ThreadStep(c) => UNCHANGED <<client, client_id>>
           /\ Answered(c) => Answered(c)'
           /\ pc[c] \in Serving /\ c \in Publishers /\ ~Leaving(c) => pc'[c] \in Serving
<1> USE DEF Answered, Asking, Publishing, Serving, Registering, Unregistering, IdsInv, Inv, TypeOK
<1>0. /\ Connect(c) \/ Crash(c) \/ ThreadStep(c) \/ ClientStep(c) => bye'[c] = bye[c]
      /\ ThreadStep(c) => UNCHANGED <<client, client_id>>
  BY Refuses DEF Orderly, ClientStep, Connect, Crash, HandleResponse, HandlerReads, ThreadStep,
         RegisterSubscriber, RegisterPublisher, Enlist, Respond, CountRead, ReadCount, CountWrite,
         FindClient, ShiftClient, AnswerUnregister, UncountRead, UncountWrite, EndOfFile, clientVars
<1>1. CASE User(c) \/ ClientStep(c)
  <2>1. pc'[c] = pc[c] \/ (pc[c] = "idle" /\ pc'[c] = "recv_register")
    BY <1>1 DEF User, ClientStep, Connect, Interrupt, Crash, HandleResponse, HandlerReads, threadVars, IdsTaken
  <2> QED
    BY <1>0, <2>1
<1>2. CASE RefuseSubscriber(c) \/ RefusePublisher(c)
  <2>1. pc[c] = "recv_register" /\ pc' = [pc EXCEPT ![c] = "gone"]
    BY <1>2, Refuses DEF Orderly
  <2> QED
    BY <1>0, <2>1
<1>3. CASE RegisterSubscriber(c) \/ RegisterPublisher(c)
  BY <1>0, <1>3 DEF RegisterSubscriber, RegisterPublisher, ReceivesRegister
<1>4. CASE Enlist(c) \/ Respond(c) \/ CountRead(c) \/ CountWrite(c)
  BY <1>0, <1>4 DEF Enlist, Respond, CountRead, ReadCount, CountWrite
<1>5. CASE FindClient(c) \/ ShiftClient(c) \/ AnswerUnregister(c) \/ UncountRead(c) \/ UncountWrite(c)
  BY <1>0, <1>5 DEF FindClient, ShiftClient, AnswerUnregister, UncountRead, ReadCount, UncountWrite, Leaving
<1>6. CASE EndOfFile(c)
  BY <1>0, <1>6, ConstantsAssumption DEF EndOfFile
<1> QED
  BY <1>1, <1>2, <1>3, <1>4, <1>5, <1>6 DEF ThreadStep

\* Who leaves has had no publish under way, and who closes has left or died.
LEMMA DeparturesStep ==
    ASSUME LeavingBetween, IdsInv, DeliveryTypes, Calm, [BrokerNext]_vars
    PROVE  Departures'
<1> USE DEF Calm
<1>1. CASE RegistryStep
  <2>1. PICK c \in Clients : \/ Connect(c) \/ Crash(c) \/ ThreadStep(c) \/ ClientStep(c)
                            \/ (Interrupt(c) /\ NoPublishUnderWay)
    BY <1>1 DEF RegistryStep, LeavingBetween, OneAtATime
  <2>2. User(c) \/ ThreadStep(c) \/ ClientStep(c)
    BY <2>1 DEF User
  <2>3. Alone(c)
    BY <2>2, StepsAreAlone DEF IdsInv, Inv, Orderly
  <2>4. ~NoPublishUnderWay' => ~NoPublishUnderWay
    BY <1>1, RegistryFrame DEF NoPublishUnderWay, deliveryVars
  <2>5. ASSUME ~NoPublishUnderWay', NEW d \in Clients PROVE ~Leaving(d)'
    <3>1. ~Leaving(d) /\ ~NoPublishUnderWay
      BY <2>4, <2>5 DEF Departures
    <3>2. bye'[c] = bye[c] /\ (pc[c] = "gone" => pc'[c] = "gone")
      BY <2>1, <2>2, <3>1, RegistryMoves
    <3> QED
      BY <2>3, <3>1, <3>2 DEF Leaving, Alone
  <2>6. ASSUME NEW d \in Clients \ Crashers, client'[d] = "closed", bye'[d] = NotSent
        PROVE  pc'[d] = "gone" /\ client_id'[d] = -1
    <3>1. CASE d # c
      BY <2>3, <2>6, <3>1 DEF Departures, Alone
    <3>2. CASE d = c /\ client[c] = "closed"
      <4>1. ThreadStep(c)
        BY <2>2, <3>2 DEF User, ClientStep, Connect, Interrupt, Crash, HandleResponse, HandlerReads
      <4>2. UNCHANGED client_id /\ bye'[c] = bye[c] /\ (pc[c] = "gone" => pc'[c] = "gone")
        BY <2>2, <4>1, RegistryMoves
      <4> QED
        BY <2>6, <3>2, <4>2 DEF Departures
    <3>3. CASE d = c /\ client[c] # "closed"
      <4> USE DEF IdsInv, Inv, TypeOK
      <4>1. CASE HandleResponse(c)
        <5>1. /\ client[c] = "registering" /\ Head(inbox[c]).status # "OK" /\ inbox[c] # <<>>
              /\ client_id'[c] = Head(inbox[c]).id /\ pc'[c] = pc[c]
          BY <2>6, <3>3, <4>1 DEF HandleResponse, threadVars
        <5>2. Life(c)
          BY DEF Orderly, Lives
        <5> QED
          BY <3>3, <5>1, <5>2 DEF Life, Asking, OK, Refusal
      <4>2. CASE HandlerReads(c)
        <5>1. client[c] = "leaving" /\ bye'[c] = bye[c]
          BY <4>2 DEF HandlerReads
        <5> QED
          BY <2>6, <3>3, <5>1 DEF Orderly, Lives, Life, NotSent
      <4>3. CASE ThreadStep(c)
        BY <2>2, <2>6, <3>3, <4>3, RegistryMoves
      <4>4. CASE Connect(c) \/ Crash(c) \/ Interrupt(c)
        BY <2>6, <3>3, <4>4 DEF Connect, Crash, Interrupt
      <4> QED
        BY <2>1, <4>1, <4>2, <4>3, <4>4 DEF ClientStep
    <3> QED
      BY <3>1, <3>2, <3>3
  <2> QED
    BY <2>5, <2>6 DEF Departures
<1>2. CASE DeliveryMoves /\ UNCHANGED <<clientVars, at, val, fd_to_del, tableVars>>
  <2>1. UNCHANGED <<client, client_id, bye>>
    BY <1>2 DEF clientVars
  <2>2. \A c \in Clients : pc'[c] = "gone" <=> pc[c] = "gone"
    BY <1>2 DEF DeliveryMoves, Serving, Publishing, IdsInv, Inv, TypeOK, Clients
  <2>3. ~NoPublishUnderWay' => \A c \in Clients : ~Leaving(c)
    <3>1. CASE senders # {} \/ \E p \in Publishers : pc[p] \in Publishing
      BY <3>1, NobodyLeaves
    <3>2. CASE senders = {} /\ \A p \in Publishers : pc[p] \notin Publishing
      <4>1. senders' = {}
        <5>1. CASE RegistryStep \/ UNCHANGED vars
          BY <3>2, <5>1 DEF RegistryStep, vars, deliveryVars
        <5>2. ASSUME NEW p \in Publishers
              PROVE  ~SendSequential(p) /\ ~LockRound(p) /\ ~SpawnSender(p) /\ ~FinishPublish(p)
          BY <3>2 DEF SendSequential, LockRound, SpawnSender, FinishPublish, Publishing
        <5> QED
          BY <3>2, <5>1, <5>2, CalmSteps DEF StartPublish
      <4>2. pc' = pc => NoPublishUnderWay'
        BY <3>2, <4>1 DEF NoPublishUnderWay
      <4> QED
        BY <1>2, <4>2 DEF DeliveryMoves
    <3> QED
      BY <3>1, <3>2
  <2> QED
    BY <2>1, <2>2, <2>3 DEF Departures, Leaving
<1> QED
  BY <1>1, <1>2, DeliveryFrame

\* What the next sends go to.
LEMMA TargetsStep ==
    ASSUME LeavingBetween, DInv, Calm, [BrokerNext]_vars, IdsInv', DeliveryTypes'
    PROVE  Targets'
<1> USE DEF Calm, DInv
<1>0. /\ pc \in [Clients -> ThreadStates] /\ Publishers \subseteq Clients /\ Subscribers \subseteq Clients
      /\ Subscribers \cap Publishers = {}
      /\ \A p \in Publishers : next[p] \in Nat /\ total[p] \in Int /\ sent[p] \in Nat
      /\ \A t \in senders : t.msg.pub \in Publishers /\ t.index \in Nat
      /\ \A p \in Publishers : pc[p] \in Serving => Listed(p) \in Nat
      /\ next \in [Publishers -> Nat] /\ total \in [Publishers -> Int]
      /\ delivered \in [Clients -> Seq(Message)]
  <2>1. pc \in [Clients -> ThreadStates]
    BY DEF IdsInv, Inv, TypeOK
  <2>2. /\ next \in [Publishers -> Nat] /\ total \in [Publishers -> Int] /\ sent \in [Publishers -> Nat]
        /\ delivered \in [Clients -> Seq(Message)]
    BY DEF DeliveryTypes
  <2>3. \A t \in senders : t.msg.pub \in Publishers /\ t.index \in Nat
    BY DEF DeliveryTypes, Sender, Message
  <2>4. \A p \in Publishers : pc[p] \in Serving => Listed(p) \in Nat
    BY CountedPlace
  <2> QED
    BY <2>1, <2>2, <2>3, <2>4, ConstantsAssumption DEF Clients
<1>1. CASE RegistryStep
  <2>1. PICK c \in Clients : User(c) \/ ThreadStep(c) \/ ClientStep(c)
    BY <1>1 DEF RegistryStep, User
  <2>2. Alone(c)
    BY <2>1, StepsAreAlone DEF IdsInv, Inv, Orderly
  <2>3. UNCHANGED <<total, next, senders, delivered>>
    BY <1>1 DEF RegistryStep, deliveryVars
  <2>4. \A d \in Clients : /\ pc'[d] \in Publishing <=> pc[d] \in Publishing
                           /\ Answered(d) => Answered(d)'
                           /\ pc[d] \in Serving /\ d \in Publishers /\ ~Leaving(d) => pc'[d] \in Serving
    BY <2>1, <2>2, RegistryMoves DEF Alone, Answered
  <2>5. ASSUME NEW p \in Publishers, pc[p] \in Serving, \A d \in Clients : ~Leaving(d)
        PROVE  /\ pc'[p] \in Serving /\ Listed(p) <= Listed(p)' /\ Listed(p)' \in Int
               /\ \A i \in Nat : i < Listed(p) => FdOf(p, i)' = FdOf(p, i)
    <3>1. /\ Listed(p) <= Listed(p)' /\ TopicId(p)' = TopicId(p)
          /\ \A i \in Nat : i < Listed(p) => FdOf(p, i)' = FdOf(p, i)
      BY <2>1, <2>5, CountedEntriesStay DEF LeavingBetween
    <3>2. TopicId(p) \in TopicIds
      BY <2>5, CountedPlace
    <3>3. Listed(p)' \in Int
      BY <3>1, <3>2 DEF Listed, IdsInv, Inv, TypeOK, Kinds
    <3> QED
      BY <1>0, <2>4, <2>5, <3>1, <3>3
  <2>6. \A p \in Publishers : pc'[p] \in Publishing => next[p] <= total[p] /\ total[p] <= Listed(p)'
    <3> SUFFICES ASSUME NEW p \in Publishers, pc[p] \in Publishing
                 PROVE  next[p] <= total[p] /\ total[p] <= Listed(p)'
      BY <1>0, <2>4
    <3>1. next[p] <= total[p] /\ total[p] <= Listed(p)
      BY DEF Targets
    <3>2. pc[p] \in Serving /\ \A d \in Clients : ~Leaving(d)
      BY NobodyLeaves DEF Serving
    <3> QED
      BY <1>0, <2>5, <3>1, <3>2
  <2>7. ASSUME NEW t \in senders
        PROVE  /\ pc'[t.msg.pub] \in Serving /\ t.index < Listed(t.msg.pub)'
               /\ t.fd = FdOf(t.msg.pub, t.index)'
    <3> SUFFICES ASSUME NEW p \in Publishers, p = t.msg.pub
                 PROVE  pc'[p] \in Serving /\ t.index < Listed(p)' /\ t.fd = FdOf(p, t.index)'
      BY <1>0
    <3>1. pc[p] \in Serving /\ t.index < Listed(p) /\ t.fd = FdOf(p, t.index) /\ t.index \in Nat
      BY <1>0 DEF Targets
    <3>2. \A d \in Clients : ~Leaving(d)
      BY NobodyLeaves
    <3> QED
      BY <1>0, <2>5, <3>1, <3>2
  <2> QED
    BY <1>0, <2>3, <2>4, <2>6, <2>7 DEF Targets
<1>2. CASE DeliveryMoves /\ UNCHANGED <<clientVars, at, val, fd_to_del, tableVars>>
  <2>1. UNCHANGED <<current_topics, topic_name, num, cell>>
    BY <1>2 DEF tableVars
  <2>2. \A c \in Clients : TopicId(c)' = TopicId(c)
    BY <2>1 DEF TopicId, get_topic_id
  <2>3. \A p \in Publishers : Listed(p)' = Listed(p) /\ \A i \in Nat : FdOf(p, i)' = FdOf(p, i)
    BY <1>0, <2>1, <2>2 DEF Listed, FdOf, CellAt
  <2>4. \A c \in Clients : /\ pc[c] \in Serving => pc'[c] \in Serving
                           /\ Answered(c) => Answered(c)'
                           /\ c \notin Publishers => pc'[c] = pc[c]
    BY <1>0, <1>2 DEF DeliveryMoves, Answered, Asking, Serving, Publishing
  <2>5. ASSUME NEW t \in senders
        PROVE  /\ pc'[t.msg.pub] \in Serving /\ t.index < Listed(t.msg.pub)'
               /\ t.fd = FdOf(t.msg.pub, t.index)'
    BY <1>0, <2>3, <2>4 DEF Targets
  <2>6. /\ \A s \in Subscribers : pc'[s] \notin Publishing
        /\ \A c \in Clients : delivered[c] # <<>> => Answered(c)'
    BY <1>0, <2>4 DEF Targets
  <2>7. ASSUME NEW p \in Publishers, StartPublish(p, sent[p] + 1) PROVE Targets'
    <3>1. /\ UNCHANGED <<senders, delivered>> /\ pc[p] = "serving" /\ pc' = [pc EXCEPT ![p] = "publish"]
          /\ next' = [next EXCEPT ![p] = 0] /\ total' = [total EXCEPT ![p] = Listed(p)]
      BY <2>7 DEF StartPublish, Listed
    <3>2. \A q \in Publishers : pc'[q] \in Publishing => next'[q] <= total'[q] /\ total'[q] <= Listed(q)'
      BY <1>0, <2>3, <3>1 DEF Targets, Serving
    <3> QED
      BY <2>5, <2>6, <3>1, <3>2 DEF Targets
  <2>8. ASSUME NEW p \in Publishers, LockRound(p) \/ FinishPublish(p) PROVE Targets'
    <3>1. /\ UNCHANGED <<senders, delivered, next, total>>
          /\ \A q \in Publishers : pc'[q] \in Publishing => pc[q] \in Publishing
      BY <1>0, <2>8 DEF LockRound, FinishPublish, jobVars, Publishing
    <3> QED
      BY <2>3, <2>5, <2>6, <3>1 DEF Targets
  <2>9. ASSUME NEW p \in Publishers, next' = [next EXCEPT ![p] = @ + 1], next[p] < total[p],
               UNCHANGED <<pc, total>>
        PROVE  \A q \in Publishers : pc'[q] \in Publishing => next'[q] <= total'[q] /\ total'[q] <= Listed(q)'
    BY <1>0, <2>3, <2>9 DEF Targets
  <2>10. ASSUME NEW p \in Publishers, SendSequential(p) PROVE Targets'
    <3>1. /\ UNCHANGED <<pc, senders, total>> /\ next' = [next EXCEPT ![p] = @ + 1] /\ next[p] < total[p]
          /\ SendTo(NextFd(p), LastMessage(p))
      BY <2>10 DEF SendSequential, threadVars, jobVars
    <3>2. NextFd(p) \in Subscribers /\ Answered(NextFd(p))
      BY <2>10, SendsToAnswered
    <3>3. \A c \in Clients : delivered'[c] # <<>> => Answered(c)'
      BY <1>0, <2>4, <3>1, <3>2 DEF SendTo, Targets
    <3> QED
      BY <2>5, <2>6, <2>9, <3>1, <3>3 DEF Targets
  <2>11. ASSUME NEW p \in Publishers, SpawnSender(p) PROVE Targets'
    <3> SUFFICES ASSUME NEW n, n = next[p],
                        NEW new, new = [msg |-> LastMessage(p), call |-> calls[p], index |-> n, fd |-> NextFd(p),
                                        st |-> IF mode = "justo" THEN "spawned" ELSE "sending"]
                 PROVE  Targets'
      OBVIOUS
    <3>1. /\ UNCHANGED <<pc, delivered, total>> /\ next' = [next EXCEPT ![p] = @ + 1] /\ n < total[p]
          /\ senders' = senders \cup {new} /\ pc[p] \in Publishing
      BY <2>11 DEF SpawnSender, threadVars, jobVars, Publishing
    <3>2. new.msg.pub = p /\ new.index = n /\ new.fd = FdOf(p, n)
      BY DEF LastMessage, NextFd, FdOf
    <3>3. pc'[p] \in Serving /\ n < Listed(p)' /\ FdOf(p, n)' = FdOf(p, n)
      <4>1. pc'[p] \in Serving /\ pc[p] \in Serving /\ total[p] <= Listed(p)
        BY <3>1 DEF Targets, Serving
      <4>2. n < Listed(p) /\ n \in Nat
        BY <1>0, <3>1, <4>1
      <4> QED
        BY <2>3, <4>1, <4>2
    <3>4. \A u \in senders' : /\ pc'[u.msg.pub] \in Serving /\ u.index < Listed(u.msg.pub)'
                              /\ u.fd = FdOf(u.msg.pub, u.index)'
      BY <2>5, <3>1, <3>2, <3>3
    <3>5. \A q \in Publishers : pc'[q] \in Publishing => next'[q] <= total'[q] /\ total'[q] <= Listed(q)'
      BY <2>9, <3>1
    <3> QED
      BY <2>6, <3>1, <3>4, <3>5 DEF Targets
  <2>12. ASSUME NEW t \in senders,
                EnterBarrier(t) \/ LeaveBarrier(t) \/ SpuriousWakeup(t) \/ SendParallel(t)
         PROVE  Targets'
    <3>1. Heirs(senders, senders')
      BY <2>12, SenderSteps DEF SendersKept, Threads, Keys
    <3>2. UNCHANGED <<pc, next, total>>
      BY <2>12 DEF EnterBarrier, LeaveBarrier, SpuriousWakeup, SendParallel, jobVars, registryVars, threadVars
    <3>3. \A c \in Clients : delivered'[c] # <<>> => Answered(c)'
      <4>1. t.fd \in Subscribers /\ Answered(t.fd)
        BY SendsToAnswered
      <4>2. UNCHANGED delivered \/ SendTo(t.fd, t.msg)
        BY <2>12 DEF EnterBarrier, LeaveBarrier, SpuriousWakeup, SendParallel
      <4> QED
        BY <1>0, <2>4, <4>1, <4>2 DEF SendTo, Targets
    <3>4. \A u \in senders' : /\ pc'[u.msg.pub] \in Serving /\ u.index < Listed(u.msg.pub)'
                              /\ u.fd = FdOf(u.msg.pub, u.index)'
      BY <2>5, <3>1 DEF Heirs, SameJob
    <3>5. \A q \in Publishers : pc'[q] \in Publishing => next'[q] <= total'[q] /\ total'[q] <= Listed(q)'
      BY <2>3, <3>2 DEF Targets
    <3> QED
      BY <2>6, <3>3, <3>4, <3>5 DEF Targets
  <2>13. CASE UNCHANGED vars
    BY <2>3, <2>5, <2>6, <2>13 DEF Targets, vars, deliveryVars, registryVars, threadVars
  <2> QED
    BY <1>1, <2>7, <2>8, <2>10, <2>11, <2>12, <2>13, CalmSteps
<1> QED
  BY <1>1, <1>2, DeliveryFrame

LEMMA CallsStep ==
    ASSUME LeavingBetween, DInv, Calm, [BrokerNext]_vars
    PROVE  Calls'
<1> USE DEF Calm, DInv
<1>1. sent = calls /\ \A t \in senders : t.msg.seq = t.call
  BY DEF Calls
<1>2. CASE RegistryStep \/ UNCHANGED vars
  BY <1>1, <1>2 DEF RegistryStep, vars, deliveryVars, Calls
<1>3. ASSUME NEW p \in Publishers, StartPublish(p, sent[p] + 1) PROVE Calls'
  BY <1>1, <1>3 DEF StartPublish, Calls
<1>4. ASSUME NEW p \in Publishers, SendSequential(p) \/ LockRound(p) \/ FinishPublish(p) PROVE Calls'
  BY <1>1, <1>4 DEF SendSequential, LockRound, FinishPublish, jobVars, Calls
<1>5. ASSUME NEW p \in Publishers, SpawnSender(p) PROVE Calls'
  <2>1. /\ \A t \in senders' : t \in senders \/ (t.msg = LastMessage(p) /\ t.call = calls[p])
        /\ UNCHANGED <<sent, calls>>
    BY <1>5 DEF SpawnSender, jobVars
  <2> QED
    BY <1>1, <2>1 DEF Calls, LastMessage
<1>6. ASSUME NEW t \in senders,
             EnterBarrier(t) \/ LeaveBarrier(t) \/ SpuriousWakeup(t) \/ SendParallel(t)
      PROVE  Calls'
  <2>1. Heirs(senders, senders')
    BY <1>6, SenderSteps DEF SendersKept, Threads, Keys
  <2>2. UNCHANGED <<sent, calls>>
    BY <1>6 DEF EnterBarrier, LeaveBarrier, SpuriousWakeup, SendParallel, jobVars
  <2> QED
    BY <1>1, <2>1, <2>2 DEF Heirs, SameJob, Calls
<1> QED
  BY <1>2, <1>3, <1>4, <1>5, <1>6, CalmSteps

----------------------------------------------------------------------------
CalmInv == DInv /\ (LeavingBetween => Calm)

LEMMA CalmInvAtStart == BrokerInit => CalmInv
<1> SUFFICES ASSUME BrokerInit, LeavingBetween PROVE Calm
  BY DInvAtStart DEF CalmInv
<1>1. Orderly
  BY OrderlyAtStart DEF BrokerInit
<1>2. /\ \A c \in Clients : pc[c] = "idle" /\ client[c] = "idle" /\ bye[c] = NotSent /\ delivered[c] = <<>>
      /\ senders = {} /\ sent = calls
  BY DEF BrokerInit, Init
<1>3. Departures
  BY <1>2 DEF Departures, Leaving
<1>4. NewIsLast
  BY <1>2 DEF NewIsLast, Entered
<1>5. Targets
  BY <1>2 DEF Targets, Publishing, Clients
<1>6. Calls
  BY <1>2 DEF Calls
<1> QED
  BY <1>1, <1>3, <1>4, <1>5, <1>6 DEF Calm

LEMMA CalmStep == ASSUME LeavingBetween, DInv, Calm, [BrokerNext]_vars PROVE Calm'
<1>1. DInv'
  BY DInvStep
<1>2. Orderly' /\ NewIsLast' /\ Departures'
  BY OrderlyInBroker, DeparturesStep DEF DInv
<1>3. Targets' /\ Calls'
  BY <1>1, TargetsStep, CallsStep DEF DInv
<1> QED
  BY <1>2, <1>3 DEF Calm

LEMMA CalmInvStep == CalmInv /\ [BrokerNext]_vars => CalmInv'
<1>1. LeavingBetween' <=> LeavingBetween
  BY DEF LeavingBetween, OneAtATime, RoomForSubscribers, SubscribersOf, PublishersStay
<1> QED
  BY <1>1, DInvStep, CalmStep DEF CalmInv

(***************************************************************************)
(* While clients leave only between messages, no message reaches a         *)
(* subscriber before the answer to its REGISTER, although its entry is     *)
(* written before the answer is sent and publishers take no lock: what     *)
(* publish_msg counts excludes the entry until then.                       *)
(***************************************************************************)
THEOREM AnswersComeFirst ==
    ASSUME OneAtATime, RoomForSubscribers, PublishersStay
    PROVE  BrokerSpec => []AnswerComesFirst
<1>1. CalmInv => AnswerComesFirst
  BY DEF CalmInv, LeavingBetween, Calm, Targets, Answered, Asking, AnswerComesFirst, Clients
<1> QED
  BY <1>1, CalmInvAtStart, CalmInvStep, PTL DEF BrokerSpec

(***************************************************************************)
(* The lists stay exact while messages are sent from them.                 *)
(***************************************************************************)
THEOREM ListsStayExact ==
    ASSUME OneAtATime, RoomForSubscribers, PublishersStay
    PROVE  BrokerSpec => []TableMatchesClients
<1>1. CalmInv => TableMatchesClients
  BY ListIsRight DEF CalmInv, LeavingBetween, Calm, DInv, TableMatchesClients, Kinds
<1> QED
  BY <1>1, CalmInvAtStart, CalmInvStep, PTL DEF BrokerSpec

----------------------------------------------------------------------------
(* Rounds of justo.                                                        *)

\* The streams that have the message of a round have it at the end, once, from
\* a thread that is done.
OnceAtEnd ==
    mode = "justo" => \A p \in Publishers, c \in Clients : \A i \in 1 .. Len(delivered[c]) :
        /\ pc[p] = "publish" => delivered[c][i] # LastMessage(p)
        /\ pc[p] = "spawn" /\ delivered[c][i] = LastMessage(p) =>
              /\ i = Len(delivered[c])
              /\ \E j \in 0 .. next[p] - 1 : c = FdOf(p, j) /\ \A t \in senders : t.index # j

\* A thread that publishes finds its entries where they were.
LEMMA EntriesWhilePublishing ==
    ASSUME LeavingBetween, DInv, Calm, DInv', [BrokerNext]_vars,
           NEW p \in Publishers, pc[p] \in Publishing
    PROVE  \A i \in Nat : i < Listed(p) => FdOf(p, i)' = FdOf(p, i)
<1> USE DEF Calm, DInv
<1>1. CASE RegistryStep
  <2>1. PICK c \in Clients : User(c) \/ ThreadStep(c) \/ ClientStep(c)
    BY <1>1 DEF RegistryStep, User
  <2>2. pc[p] \in Serving /\ \A d \in Clients : ~Leaving(d)
    BY NobodyLeaves DEF Serving
  <2> QED
    BY <2>1, <2>2, CountedEntriesStay DEF LeavingBetween
<1>2. CASE UNCHANGED tableVars
  <2>1. TopicId(p)' = TopicId(p)
    BY <1>2 DEF tableVars, TopicId, get_topic_id
  <2> QED
    BY <1>2, <2>1 DEF tableVars, FdOf, CellAt
<1> QED
  BY <1>1, <1>2, DeliveryFrame

\* Threads of a round with the same socket are the same thread.
LEMMA OneThreadEach ==
    ASSUME DInv, Calm, mode = "justo", NEW t \in senders, NEW p, p = t.msg.pub,
           NEW j \in 0 .. next[p] - 1, t.fd = FdOf(p, j)
    PROVE  t.index = j
<1> USE DEF Calm, DInv
<1>1. /\ p \in Publishers /\ pc[p] \in Serving /\ pc[p] \in Publishing /\ t.index \in Nat
      /\ t.index < Listed(p) /\ t.fd = FdOf(p, t.index)
  BY ConstantsAssumption DEF DeliveryTypes, Sender, Message, Targets, Threads, Rounds, Publishing
<1>2. j \in Nat /\ j < Listed(p)
  <2>1. next[p] \in Nat /\ total[p] \in Int /\ next[p] <= total[p] /\ total[p] <= Listed(p)
    BY <1>1 DEF Targets, DeliveryTypes
  <2>2. Listed(p) \in Int
    BY <1>1, CountedPlace
  <2> QED
    BY <2>1, <2>2
<1>3. \A d \in Clients : ~Leaving(d)
  BY NobodyLeaves
<1>4. \A a, b \in Nat : a < Listed(p) /\ b < Listed(p) /\ FdOf(p, a) = FdOf(p, b) => a = b
  BY <1>1, <1>3, CountedEntries
<1> QED
  BY <1>1, <1>2, <1>4

\* What a thread of a round sends is not yet in the stream it goes to.
LEMMA SentOnce ==
    ASSUME DInv, Calm, OnceAtEnd, mode = "justo", NEW t \in senders
    PROVE  \A c \in Clients : \A i \in 1 .. Len(delivered[c]) :
               delivered[c][i] = t.msg => c # t.fd /\ i = Len(delivered[c])
<1> SUFFICES ASSUME NEW c \in Clients, NEW i \in 1 .. Len(delivered[c]), delivered[c][i] = t.msg
             PROVE  c # t.fd /\ i = Len(delivered[c])
  OBVIOUS
<1> SUFFICES ASSUME NEW p, p = t.msg.pub
             PROVE  c # t.fd /\ i = Len(delivered[c])
  OBVIOUS
<1>1. p \in Publishers /\ pc[p] = "spawn" /\ t.msg = LastMessage(p)
  BY DEF DInv, DeliveryTypes, Sender, Message, Threads, Rounds
<1>2. PICK j \in 0 .. next[p] - 1 : c = FdOf(p, j) /\ \A u \in senders : u.index # j
  BY <1>1 DEF OnceAtEnd
<1>3. i = Len(delivered[c])
  BY <1>1 DEF OnceAtEnd
<1> QED
  BY <1>2, <1>3, OneThreadEach

\* Agreement survives a message that is nowhere but at the end of other streams.
LEMMA AgreementAfterSend ==
    ASSUME DeliveryTypes, SubscribersAgree, UNCHANGED mode,
           NEW fd \in Clients \cup {NoSocket}, NEW m \in Message, SendTo(fd, m),
           \A c \in Clients : \A i \in 1 .. Len(delivered[c]) :
               delivered[c][i] = m => c # fd /\ i = Len(delivered[c])
    PROVE  SubscribersAgree'
<1> SUFFICES ASSUME mode = "justo", NEW r \in Subscribers, NEW s \in Subscribers,
                    NEW i \in 1 .. Len(delivered'[r]), NEW j \in 1 .. Len(delivered'[r]),
                    NEW a \in 1 .. Len(delivered'[s]), NEW b \in 1 .. Len(delivered'[s]),
                    i < j, a < b,
                    delivered'[s][a] = delivered'[r][j], delivered'[s][b] = delivered'[r][i]
             PROVE  FALSE
  BY DEF SubscribersAgree, Before
<1> DEFINE old(c, k) == k \in 1 .. Len(delivered[c]) /\ delivered'[c][k] = delivered[c][k]
           new(c, k) == c = fd /\ delivered'[c][k] = m /\ k = Len(delivered[c]) + 1
<1>0. \A c \in Clients : Len(delivered[c]) \in Nat
  BY DEF DeliveryTypes
<1>1. r \in Clients /\ s \in Clients
  BY DEF Clients
<1>2. \A c \in Clients : \A k \in 1 .. Len(delivered'[c]) : old(c, k) \/ new(c, k)
  BY AfterSend
<1>3. old(r, i) /\ old(s, a)
  BY <1>0, <1>1, <1>2
<1>4. old(r, j)
  <2> SUFFICES ASSUME new(r, j) PROVE FALSE
    BY <1>1, <1>2
  <2>1. delivered[s][a] = m
    BY <1>3
  <2>2. s # fd /\ a = Len(delivered[s])
    BY <1>1, <1>3, <2>1
  <2>3. old(s, b)
    BY <1>1, <1>2, <2>2
  <2> QED
    BY <1>0, <1>1, <2>2, <2>3
<1>5. old(s, b)
  <2> SUFFICES ASSUME new(s, b) PROVE FALSE
    BY <1>1, <1>2
  <2>1. delivered[r][i] = m
    BY <1>3
  <2>2. i = Len(delivered[r])
    BY <1>1, <1>3, <2>1
  <2> QED
    BY <1>0, <1>1, <1>4, <2>2
<1>6. delivered[s][a] = delivered[r][j] /\ delivered[s][b] = delivered[r][i]
  BY <1>3, <1>4, <1>5
<1>7. Before(delivered[r][j], delivered[r][i], delivered[s])
  BY <1>3, <1>5, <1>6 DEF Before
<1> QED
  BY <1>3, <1>4, <1>7 DEF SubscribersAgree

\* A step that delivers nothing and leaves each round its entries.
LEMMA OnceKept ==
    ASSUME OnceAtEnd, DeliveryTypes, DeliveryTypes', UNCHANGED <<mode, delivered>>,
           \A p \in Publishers :
              /\ pc'[p] = "publish" =>
                    \/ pc[p] = "publish" /\ sent'[p] = sent[p]
                    \/ \A c \in Clients : \A i \in 1 .. Len(delivered[c]) : delivered[c][i] # LastMessage(p)'
              /\ pc'[p] = "spawn" =>
                    \/ pc[p] = "publish" /\ sent'[p] = sent[p]
                    \/ /\ pc[p] = "spawn" /\ sent'[p] = sent[p] /\ next[p] <= next'[p]
                       /\ \A j \in 0 .. next[p] - 1 : FdOf(p, j)' = FdOf(p, j)
                       /\ \A u \in senders' : \/ u.index \notin 0 .. next[p] - 1
                                              \/ \E t \in senders : t.index = u.index
    PROVE  OnceAtEnd'
<1> SUFFICES ASSUME mode = "justo", NEW p \in Publishers, NEW c \in Clients,
                    NEW i \in 1 .. Len(delivered[c]), delivered[c][i] = LastMessage(p)'
             PROVE  /\ pc'[p] # "publish"
                    /\ pc'[p] = "spawn" =>
                          /\ i = Len(delivered[c])
                          /\ \E j \in 0 .. next'[p] - 1 : c = FdOf(p, j)' /\ \A t \in senders' : t.index # j
  BY DEF OnceAtEnd
<1>1. sent'[p] = sent[p] => delivered[c][i] = LastMessage(p)
  BY DEF LastMessage
<1>2. pc[p] = "publish" /\ sent'[p] = sent[p] => FALSE
  BY <1>1 DEF OnceAtEnd
<1>3. ASSUME pc'[p] = "spawn"
      PROVE  /\ i = Len(delivered[c])
             /\ \E j \in 0 .. next'[p] - 1 : c = FdOf(p, j)' /\ \A t \in senders' : t.index # j
  <2>1. pc[p] = "spawn" /\ sent'[p] = sent[p] /\ next[p] <= next'[p]
    BY <1>2, <1>3
  <2>2. i = Len(delivered[c])
    BY <1>1, <2>1 DEF OnceAtEnd
  <2>3. PICK j \in 0 .. next[p] - 1 : c = FdOf(p, j) /\ \A t \in senders : t.index # j
    BY <1>1, <2>1 DEF OnceAtEnd
  <2>4. FdOf(p, j)' = FdOf(p, j) /\ \A u \in senders' : u.index # j
    BY <1>2, <1>3, <2>3
  <2>5. j \in 0 .. next'[p] - 1
    <3>1. next[p] \in Nat /\ next'[p] \in Nat
      BY DEF DeliveryTypes
    <3> QED
      BY <2>1, <3>1
  <2> QED
    BY <2>2, <2>3, <2>4, <2>5
<1> QED
  BY <1>2, <1>3

LEMMA OnceAtEndStep ==
    ASSUME LeavingBetween, DInv, Calm, DInv', OnceAtEnd, [BrokerNext]_vars
    PROVE  OnceAtEnd'
<1> USE DEF DInv
<1>0. /\ pc \in [Clients -> ThreadStates] /\ Publishers \subseteq Clients
      /\ \A p \in Publishers : next[p] \in Nat /\ sent[p] \in Nat
      /\ next \in [Publishers -> Nat] /\ sent \in [Publishers -> Nat]
      /\ \A t \in senders : t.index \in Nat /\ t.fd \in Clients \cup {NoSocket} /\ t.msg \in Message
  BY DEF DeliveryTypes, Sender, Clients, IdsInv, Inv, TypeOK
<1>1. ASSUME NEW p \in Publishers, pc[p] = "spawn"
      PROVE  \A j \in 0 .. next[p] - 1 : FdOf(p, j)' = FdOf(p, j)
  <2>1. pc[p] \in Publishing /\ pc[p] \in Serving
    BY <1>1 DEF Publishing, Serving
  <2>2. next[p] \in Nat /\ total[p] \in Int /\ next[p] <= total[p] /\ total[p] <= Listed(p)
    BY <2>1 DEF Calm, Targets, DeliveryTypes
  <2>3. Listed(p) \in Int
    BY <2>1, CountedPlace DEF Calm
  <2>4. \A j \in 0 .. next[p] - 1 : j \in Nat /\ j < Listed(p)
    BY <2>2, <2>3
  <2>5. \A j \in Nat : j < Listed(p) => FdOf(p, j)' = FdOf(p, j)
    BY <2>1, EntriesWhilePublishing
  <2> QED
    BY <2>4, <2>5
<1>2. CASE RegistryStep
  <2>1. /\ UNCHANGED deliveryVars
        /\ \A p \in Publishers : /\ pc'[p] = "publish" => pc[p] = "publish"
                                 /\ pc'[p] = "spawn" => pc[p] = "spawn"
    BY <1>2, RegistryFrame DEF Publishing
  <2> QED
    BY <1>0, <1>1, <2>1, OnceKept DEF deliveryVars
<1>3. ASSUME NEW p \in Publishers, StartPublish(p, sent[p] + 1) PROVE OnceAtEnd'
  <2>1. /\ UNCHANGED <<mode, delivered, senders>> /\ pc' = [pc EXCEPT ![p] = "publish"]
        /\ sent' = [sent EXCEPT ![p] = @ + 1] /\ next' = [next EXCEPT ![p] = 0]
    BY <1>3 DEF StartPublish
  <2>2. \A c \in Clients : \A i \in 1 .. Len(delivered[c]) : delivered[c][i] # LastMessage(p)'
    <3> SUFFICES ASSUME NEW c \in Clients, NEW i \in 1 .. Len(delivered[c]),
                        delivered[c][i] = LastMessage(p)'
                 PROVE  FALSE
      OBVIOUS
    <3>1. delivered[c][i].pub = p /\ delivered[c][i].seq = sent[p] + 1
      BY <1>0, <2>1 DEF LastMessage
    <3>2. delivered[c][i].seq <= sent[p]
      BY <3>1 DEF Streams, SentBefore
    <3> QED
      BY <1>0, <3>1, <3>2
  <2>3. \A q \in Publishers : q # p => pc'[q] = pc[q] /\ sent'[q] = sent[q] /\ next'[q] = next[q]
    BY <1>0, <2>1
  <2>4. pc'[p] = "publish"
    BY <1>0, <2>1
  <2> QED
    BY <1>0, <1>1, <2>1, <2>2, <2>3, <2>4, OnceKept
<1>4. ASSUME NEW p \in Publishers, LockRound(p) \/ FinishPublish(p) PROVE OnceAtEnd'
  <2>1. /\ UNCHANGED <<mode, delivered, senders, sent, next>>
        /\ \A q \in Publishers : /\ pc'[q] = "publish" => pc[q] = "publish"
                                 /\ pc'[q] = "spawn" => pc[q] \in {"publish", "spawn"}
    BY <1>0, <1>4 DEF LockRound, FinishPublish, jobVars
  <2> QED
    BY <1>0, <1>1, <2>1, OnceKept
<1>5. ASSUME NEW p \in Publishers, SpawnSender(p) PROVE OnceAtEnd'
  <2>1. /\ UNCHANGED <<pc, mode, delivered, sent>>
        /\ next' = [next EXCEPT ![p] = @ + 1]
        /\ \A u \in senders' : u \in senders \/ u.index = next[p]
        /\ mode = "justo" => pc[p] = "spawn"
    BY <1>5 DEF SpawnSender, threadVars, jobVars
  <2>2. mode = "justo" => \A q \in Publishers : pc[q] = "spawn" => q = p
    BY <2>1 DEF Threads, Rounds
  <2>3. \A q \in Publishers : next[q] <= next'[q]
    BY <1>0, <2>1
  <2>4. CASE mode = "justo"
    BY <1>0, <1>1, <2>1, <2>2, <2>3, <2>4, OnceKept
  <2> QED
    BY <2>1, <2>4 DEF OnceAtEnd
<1>6. ASSUME NEW p \in Publishers, SendSequential(p) PROVE OnceAtEnd'
  BY <1>6 DEF SendSequential, jobVars, OnceAtEnd
<1>7. ASSUME NEW t \in senders, EnterBarrier(t) \/ LeaveBarrier(t) \/ SpuriousWakeup(t) PROVE OnceAtEnd'
  <2>1. Heirs(senders, senders')
    BY <1>7, SenderSteps DEF SendersKept, Threads, Keys
  <2>2. UNCHANGED <<pc, mode, delivered, sent, next>>
    BY <1>7 DEF EnterBarrier, LeaveBarrier, SpuriousWakeup, jobVars, registryVars, threadVars
  <2>3. \A u \in senders' : \E v \in senders : v.index = u.index
    BY <2>1 DEF Heirs, SameJob
  <2> QED
    BY <1>0, <1>1, <2>2, <2>3, OnceKept
<1>8. ASSUME NEW t \in senders, SendParallel(t) PROVE OnceAtEnd'
  <2>1. /\ UNCHANGED <<pc, mode, sent, next>> /\ SendTo(t.fd, t.msg) /\ senders' = senders \ {t}
    BY <1>8 DEF SendParallel, jobVars, threadVars
  <2> SUFFICES ASSUME mode = "justo", NEW p \in Publishers, NEW c \in Clients,
                      NEW i \in 1 .. Len(delivered'[c]), delivered'[c][i] = LastMessage(p)
               PROVE  /\ pc[p] # "publish"
                      /\ pc[p] = "spawn" =>
                            /\ i = Len(delivered'[c])
                            /\ \E j \in 0 .. next[p] - 1 : c = FdOf(p, j)' /\ \A u \in senders' : u.index # j
    BY <2>1 DEF OnceAtEnd, LastMessage
  <2> SUFFICES ASSUME NEW q, q = t.msg.pub
               PROVE  /\ pc[p] # "publish"
                      /\ pc[p] = "spawn" =>
                            /\ i = Len(delivered'[c])
                            /\ \E j \in 0 .. next[p] - 1 : c = FdOf(p, j)' /\ \A u \in senders' : u.index # j
    OBVIOUS
  <2>2. /\ q \in Publishers /\ pc[q] = "spawn" /\ t.msg = LastMessage(q) /\ t.call = calls[q]
        /\ \A r \in Publishers : pc[r] = "spawn" => r = q
        /\ \A u \in senders : u.msg.pub = q /\ u.call = calls[q]
    BY DEF DeliveryTypes, Sender, Message, Threads, Rounds
  <2>3. \/ i \in 1 .. Len(delivered[c]) /\ delivered'[c][i] = delivered[c][i]
        \/ c = t.fd /\ delivered'[c][i] = t.msg /\ i = Len(delivered[c]) + 1
    BY <1>0, <2>1, AfterSend
  <2>4. CASE c = t.fd /\ delivered'[c][i] = t.msg /\ i = Len(delivered[c]) + 1
    <3>1. p = q
      BY <2>2, <2>4 DEF LastMessage
    <3>2. i = Len(delivered'[c])
      <4>1. \/ delivered'[c] = delivered[c]
            \/ delivered'[c] = Append(delivered[c], t.msg)
        BY <2>1 DEF SendTo, DeliveryTypes
      <4>2. delivered[c] \in Seq(Message)
        BY DEF DeliveryTypes
      <4> QED
        BY <1>0, <2>4, <4>1, <4>2
    <3>3. t.index \in 0 .. next[q] - 1 /\ c = FdOf(q, t.index)
      BY <1>0, <2>2, <2>4 DEF Threads, Keys, Calm, Targets
    <3>4. FdOf(q, t.index)' = FdOf(q, t.index)
      BY <1>1, <2>2, <3>3
    <3>5. \A u \in senders' : u.index # t.index
      BY <2>1, <2>2 DEF Threads, Keys, UniqueIn, SameSender
    <3> QED
      BY <2>2, <3>1, <3>2, <3>3, <3>4, <3>5
  <2>5. CASE i \in 1 .. Len(delivered[c]) /\ delivered'[c][i] = delivered[c][i]
    <3>1. pc[p] # "publish"
      BY <2>5 DEF OnceAtEnd
    <3>2. ASSUME pc[p] = "spawn"
          PROVE  /\ i = Len(delivered'[c])
                 /\ \E j \in 0 .. next[p] - 1 : c = FdOf(p, j)' /\ \A u \in senders' : u.index # j
      <4>1. p = q /\ delivered[c][i] = t.msg
        BY <2>2, <2>5, <3>2
      <4>2. c # t.fd /\ i = Len(delivered[c])
        BY <2>5, <4>1, SentOnce
      <4>3. delivered'[c] = delivered[c]
        BY <2>1, <4>2 DEF SendTo, DeliveryTypes
      <4>4. PICK j \in 0 .. next[p] - 1 : c = FdOf(p, j) /\ \A u \in senders : u.index # j
        BY <2>5, <3>2 DEF OnceAtEnd
      <4>5. FdOf(p, j)' = FdOf(p, j)
        BY <1>1, <3>2
      <4> QED
        BY <2>1, <4>2, <4>3, <4>4, <4>5
    <3> QED
      BY <3>1, <3>2
  <2> QED
    BY <2>3, <2>4, <2>5
<1>9. CASE UNCHANGED vars
  BY <1>0, <1>1, <1>9, OnceKept DEF vars, deliveryVars, registryVars, threadVars
<1> QED
  BY <1>2, <1>3, <1>4, <1>5, <1>6, <1>7, <1>8, <1>9, CalmSteps DEF Calm

LEMMA AgreementStep ==
    ASSUME DInv, Calm, LeavingBetween, OnceAtEnd, SubscribersAgree, [BrokerNext]_vars
    PROVE  SubscribersAgree'
<1>1. ASSUME UNCHANGED <<mode, delivered>> PROVE SubscribersAgree'
  BY <1>1 DEF SubscribersAgree, Before
<1>2. ASSUME NEW p \in Publishers, SendSequential(p) PROVE SubscribersAgree'
  BY <1>2 DEF SendSequential, jobVars, SubscribersAgree
<1>3. ASSUME NEW t \in senders, SendParallel(t) PROVE SubscribersAgree'
  <2>1. UNCHANGED mode /\ SendTo(t.fd, t.msg)
    BY <1>3 DEF SendParallel, jobVars
  <2>2. t.fd \in Clients \cup {NoSocket} /\ t.msg \in Message
    BY DEF DInv, DeliveryTypes, Sender
  <2>3. CASE mode = "justo"
    BY <2>1, <2>2, <2>3, SentOnce, AgreementAfterSend DEF DInv
  <2> QED
    BY <2>1, <2>3 DEF SubscribersAgree
<1>4. ASSUME NEW p \in Publishers,
             StartPublish(p, sent[p] + 1) \/ LockRound(p) \/ SpawnSender(p) \/ FinishPublish(p)
      PROVE  UNCHANGED <<mode, delivered>>
  BY <1>4 DEF StartPublish, LockRound, SpawnSender, FinishPublish, jobVars
<1>5. ASSUME NEW t \in senders, EnterBarrier(t) \/ LeaveBarrier(t) \/ SpuriousWakeup(t)
      PROVE  UNCHANGED <<mode, delivered>>
  BY <1>5 DEF EnterBarrier, LeaveBarrier, SpuriousWakeup, jobVars
<1>6. RegistryStep \/ UNCHANGED vars => UNCHANGED <<mode, delivered>>
  BY DEF RegistryStep, vars, deliveryVars
<1> QED
  BY <1>1, <1>2, <1>3, <1>4, <1>5, <1>6, CalmSteps DEF Calm

JustoInv == CalmInv /\ (LeavingBetween => OnceAtEnd /\ SubscribersAgree)

LEMMA JustoInvAtStart == BrokerInit => JustoInv
<1> SUFFICES ASSUME BrokerInit PROVE OnceAtEnd /\ SubscribersAgree
  BY CalmInvAtStart DEF JustoInv
<1>1. \A c \in Clients : Len(delivered[c]) = 0
  BY DEF BrokerInit
<1> QED
  BY <1>1 DEF OnceAtEnd, SubscribersAgree, Clients

LEMMA JustoInvStep == JustoInv /\ [BrokerNext]_vars => JustoInv'
<1> SUFFICES ASSUME JustoInv, [BrokerNext]_vars PROVE JustoInv'
  OBVIOUS
<1>1. CalmInv' /\ DInv'
  BY CalmInvStep DEF JustoInv, CalmInv
<1>2. LeavingBetween' <=> LeavingBetween
  BY DEF LeavingBetween, OneAtATime, RoomForSubscribers, SubscribersOf, PublishersStay
<1>3. ASSUME LeavingBetween PROVE OnceAtEnd' /\ SubscribersAgree'
  <2>1. DInv /\ Calm /\ OnceAtEnd /\ SubscribersAgree
    BY <1>3 DEF JustoInv, CalmInv
  <2> QED
    BY <1>1, <1>3, <2>1, OnceAtEndStep, AgreementStep
<1> QED
  BY <1>1, <1>2, <1>3 DEF JustoInv

(***************************************************************************)
(* justo: subscribers of a topic agree on the order of all its messages,   *)
(* of whatever publishers, for any number of them, when clients leave only *)
(* between messages.  The barrier has no part in it: mutex2 is held until  *)
(* a round's threads are joined, and each of them has a socket of its own, *)
(* so that a message is at the end of the streams it is in until it is in  *)
(* all of them.                                                            *)
(***************************************************************************)
THEOREM OrderIsAgreed ==
    ASSUME OneAtATime, RoomForSubscribers, PublishersStay
    PROVE  BrokerSpec => []SubscribersAgree
<1>1. JustoInv => SubscribersAgree
  BY DEF JustoInv, LeavingBetween
<1> QED
  BY <1>1, JustoInvAtStart, JustoInvStep, PTL DEF BrokerSpec

----------------------------------------------------------------------------
(* justo, when nobody joins during a publish either, and waits end only    *)
(* when they are signalled.                                                *)

Undisturbing == LeavingBetween /\ "justo" \in Undisturbed /\ ~SpuriousWakeups

\* A round has as many threads as each of them expects, and they wait until
\* the last one comes.
NobodyJoins ==
    (\E p \in Publishers : pc[p] \in Publishing) =>
        \A c \in Clients : pc[c] \notin {"recv_register"} \cup Registering
ListsAreFixed == \A p \in Publishers : pc[p] \in Publishing => total[p] = Listed(p)
NotBegun == \A p \in Publishers : pc[p] = "publish" => next[p] = 0
EveryoneWaits ==
    \A p \in Publishers : RoundIncomplete(p) =>
        /\ Cardinality(senders) = next[p]
        /\ \A t \in senders : t.st \in {"spawned", "waiting"}
        /\ \A c \in Clients : \A i \in 1 .. Len(delivered[c]) : delivered[c][i] # LastMessage(p)
AllExpected == mode = "justo" => NobodyJoins /\ ListsAreFixed /\ NotBegun /\ EveryoneWaits

LEMMA UndisturbedSteps ==
    ASSUME Undisturbing, Orderly, Departures, mode = "justo", [BrokerNext]_vars
    PROVE  \/ /\ RegistryStep
              /\ \E c \in Clients : \/ Connect(c) /\ NoPublishUnderWay
                                    \/ Interrupt(c) \/ Crash(c) \/ ThreadStep(c) \/ ClientStep(c)
           \/ \E p \in Publishers :
                 \/ /\ StartPublish(p, sent[p] + 1)
                    /\ \A c \in Clients : pc[c] \notin {"recv_register"} \cup Registering
                 \/ LockRound(p) \/ SpawnSender(p) \/ FinishPublish(p)
           \/ \E t \in senders : EnterBarrier(t) \/ LeaveBarrier(t) \/ SendParallel(t)
           \/ UNCHANGED vars
<1> USE DEF Undisturbing
<1>1. ~JoinAnyTime
  BY DEF JoinAnyTime
<1>2. ASSUME NEW p \in Publishers, ReceivePublish(p)
      PROVE  /\ StartPublish(p, sent[p] + 1)
             /\ \A c \in Clients : pc[c] \notin {"recv_register"} \cup Registering
  BY <1>1, <1>2 DEF ReceivePublish
<1>3. ASSUME NEW p \in Publishers PROVE ~ReceiveNothing(p)
  <2> SUFFICES ASSUME ReceiveNothing(p) PROVE FALSE
    OBVIOUS
  <2>1. client[p] = "closed" /\ bye[p] = NotSent /\ pc[p] = "serving"
    BY DEF ReceiveNothing, StartPublish
  <2>2. p \in Clients \ Crashers
    BY DEF LeavingBetween, PublishersStay, Clients
  <2> QED
    BY <2>1, <2>2 DEF Departures
<1>4. \A p \in Publishers : ~SendSequential(p)
  BY DEF SendSequential
<1>5. \A t \in senders : ~SpuriousWakeup(t)
  BY DEF SpuriousWakeup
<1>6. ASSUME RegistryStep
      PROVE  \E c \in Clients : \/ Connect(c) /\ NoPublishUnderWay
                                \/ Interrupt(c) \/ Crash(c) \/ ThreadStep(c) \/ ClientStep(c)
  BY <1>1, <1>6 DEF RegistryStep
<1> QED
  BY <1>2, <1>3, <1>4, <1>5, <1>6 DEF BrokerNext, PublisherStep, SenderStep

\* The table's steps during a round that nobody joins.
LEMMA ExpectedUnderRegistry ==
    ASSUME LeavingBetween, DInv, Calm, DInv', mode = "justo", AllExpected, RegistryStep,
           NEW c \in Clients, \/ Connect(c) /\ NoPublishUnderWay
                              \/ Interrupt(c) \/ Crash(c) \/ ThreadStep(c) \/ ClientStep(c)
    PROVE  AllExpected'
<1> USE DEF DInv, Calm
<1>1. /\ UNCHANGED deliveryVars
      /\ \A p \in Publishers : /\ pc'[p] \in Publishing => pc[p] = pc'[p]
                               /\ pc[p] \in Publishing => pc[p] = pc'[p]
  BY RegistryFrame
<1>2. User(c) \/ ThreadStep(c) \/ ClientStep(c)
  BY DEF User
<1>3. Alone(c)
  BY <1>2, StepsAreAlone DEF IdsInv, Inv, Orderly
<1>4. pc \in [Clients -> ThreadStates] /\ Publishers \subseteq Clients
  BY DEF IdsInv, Inv, TypeOK, Clients
<1>5. ASSUME NEW p \in Publishers, pc'[p] \in Publishing
      PROVE  \A d \in Clients : /\ pc[d] \notin {"recv_register"} \cup Registering
                                /\ pc'[d] \notin {"recv_register"} \cup Registering
  <2>1. /\ pc[p] \in Publishing
        /\ Interrupt(c) \/ Crash(c) \/ ThreadStep(c) \/ ClientStep(c)
    BY <1>1, <1>4, <1>5 DEF NoPublishUnderWay
  <2>2. \A d \in Clients : pc[d] \notin {"recv_register"} \cup Registering
    BY <2>1 DEF AllExpected, NobodyJoins
  <2>3. pc'[c] \notin {"recv_register"} \cup Registering
    <3>1. CASE Interrupt(c) \/ Crash(c) \/ ClientStep(c)
      BY <2>2, <3>1 DEF Interrupt, Crash, ClientStep, HandleResponse, HandlerReads, threadVars
    <3>2. CASE ThreadStep(c)
      <4>1. \/ FindClient(c) \/ ShiftClient(c) \/ AnswerUnregister(c)
            \/ UncountRead(c) \/ UncountWrite(c) \/ EndOfFile(c)
        BY <2>2, <3>2 DEF ThreadStep, RegisterSubscriber, RegisterPublisher, RefuseSubscriber,
               RefusePublisher, ReceivesRegister, Enlist, Respond, CountRead, ReadCount, CountWrite, Registering
      <4> QED
        BY <1>4, <2>2, <4>1 DEF FindClient, ShiftClient, AnswerUnregister, UncountRead, ReadCount,
               UncountWrite, EndOfFile, Registering
    <3> QED
      BY <2>1, <3>1, <3>2
  <2> QED
    BY <1>3, <2>2, <2>3 DEF Alone
<1>6. ASSUME NEW p \in Publishers, pc'[p] \in Publishing PROVE total'[p] = Listed(p)'
  <2>1. pc[p] \in Publishing /\ pc[p] \in Serving /\ total[p] = Listed(p)
    BY <1>1, <1>6 DEF AllExpected, ListsAreFixed, Serving
  <2>2. ~CountWrite(c)
    BY <1>5, <1>6 DEF CountWrite, Registering
  <2>3. \A d \in Clients : ~Leaving(d)
    BY <2>1, NobodyLeaves
  <2>4. Listed(p)' = Listed(p)
    BY <1>2, <2>1, <2>2, <2>3, CountedEntriesStay DEF LeavingBetween
  <2> QED
    BY <1>1, <2>1, <2>4 DEF deliveryVars
<1>7. NobodyJoins' /\ ListsAreFixed'
  BY <1>5, <1>6 DEF NobodyJoins, ListsAreFixed
<1>8. NotBegun'
  BY <1>1 DEF AllExpected, NotBegun, deliveryVars, Publishing
<1>9. EveryoneWaits'
  <2>1. \A p \in Publishers : RoundIncomplete(p)' => RoundIncomplete(p)
    BY <1>1 DEF RoundIncomplete, deliveryVars, Publishing
  <2>2. \A p \in Publishers : LastMessage(p)' = LastMessage(p)
    BY <1>1 DEF LastMessage, deliveryVars
  <2> QED
    BY <1>1, <2>1, <2>2 DEF AllExpected, EveryoneWaits, deliveryVars
<1> QED
  BY <1>7, <1>8, <1>9 DEF AllExpected

\* The first thread to pass finds all the others at the barrier.
LEMMA LastOneIn ==
    ASSUME DInv, Calm, mode = "justo", AllExpected, NEW t \in senders,
           EnterBarrier(t) \/ LeaveBarrier(t) \/ SendParallel(t)
    PROVE  EveryoneWaits'
<1> USE DEF DInv
<1> SUFFICES ASSUME NEW p, p = t.msg.pub PROVE EveryoneWaits'
  OBVIOUS
<1>1. /\ p \in Publishers /\ pc[p] = "spawn" /\ mutex2 = p
      /\ \A q \in Publishers : pc[q] = "spawn" => q = p
      /\ \A u \in senders : u.msg.pub = p
      /\ senders \subseteq Sender /\ IsFiniteSet(senders)
      /\ next[p] \in Nat /\ total[p] \in Int /\ next[p] <= total[p] /\ total[p] = Expected(t)
  <2>1. /\ p \in Publishers /\ pc[p] = "spawn" /\ mutex2 = p
        /\ \A q \in Publishers : pc[q] = "spawn" => q = p
        /\ \A u \in senders : u.msg.pub = p
        /\ senders \subseteq Sender /\ IsFiniteSet(senders)
        /\ next[p] \in Nat /\ total[p] \in Int
    BY DEF DeliveryTypes, Sender, Message, Threads, Rounds
  <2>2. next[p] <= total[p] /\ total[p] = Listed(p)
    BY <2>1 DEF Calm, Targets, AllExpected, ListsAreFixed, Publishing
  <2> QED
    BY <2>1, <2>2 DEF Listed, Expected
<1>2. UNCHANGED <<mode, pc, total, next, sent>>
  BY DEF EnterBarrier, LeaveBarrier, SendParallel, jobVars, registryVars, threadVars
<1>3. \A q \in Publishers : RoundIncomplete(q)' => q = p
  BY <1>1, <1>2 DEF RoundIncomplete
<1>4. CASE EnterBarrier(t)
  <2>1. /\ t.st = "spawned" /\ RoundIncomplete(p) /\ UNCHANGED delivered
        /\ senders # {}
    BY <1>1, <1>4 DEF EnterBarrier, RoundIncomplete
  <2>2. /\ Cardinality(senders) = next[p]
        /\ \A u \in senders : u.st \in {"spawned", "waiting"}
        /\ \A c \in Clients : \A i \in 1 .. Len(delivered[c]) : delivered[c][i] # LastMessage(p)
    BY <1>1, <2>1 DEF AllExpected, EveryoneWaits
  <2> DEFINE rest == senders \ {t}
  <2>3. IsFiniteSet(rest) /\ Cardinality(rest) = next[p] - 1
    BY <1>1, <2>2, FS_RemoveElement
  <2>4. /\ AtBarrier \subseteq rest /\ just_threads = Cardinality(AtBarrier)
    BY <2>1 DEF AtBarrier, Threads, JustThreadsExact
  <2>5. CASE just_threads + 1 < Expected(t)
    <3> SUFFICES ASSUME NEW w, w = [t EXCEPT !.st = "waiting"] PROVE EveryoneWaits'
      OBVIOUS
    <3>1. senders' = rest \cup {w}
      BY <1>4, <2>5 DEF EnterBarrier
    <3>2. w \notin rest /\ w.st = "waiting"
      BY <1>1 DEF Sender, Threads, Keys, UniqueIn, SameSender
    <3>3. Cardinality(senders') = next[p]
      <4> HIDE DEF rest
      <4>1. Cardinality(rest \cup {w}) = Cardinality(rest) + 1
        BY <2>3, <3>2, FS_AddElement
      <4> QED
        BY <1>1, <2>3, <3>1, <4>1
    <3>4. \A u \in senders' : u.st \in {"spawned", "waiting"}
      BY <2>2, <3>1, <3>2
    <3> QED
      BY <1>2, <1>3, <2>1, <2>2, <3>3, <3>4 DEF EveryoneWaits, LastMessage
  <2>6. CASE ~(just_threads + 1 < Expected(t))
    <3>1. senders' = Moved(rest, "waiting", "woken") \cup {[t EXCEPT !.st = "sending"]}
      BY <1>4, <2>6 DEF EnterBarrier, PassBarrier
    <3>2. Cardinality(AtBarrier) \in Nat /\ Cardinality(AtBarrier) <= next[p] - 1
      <4> HIDE DEF rest
      <4>1. IsFiniteSet(AtBarrier) /\ Cardinality(AtBarrier) <= Cardinality(rest)
        BY <2>3, <2>4, FS_Subset
      <4> QED
        BY <2>3, <4>1, FS_CardinalityType
    <3>3. next[p] = total[p] /\ Cardinality(AtBarrier) = next[p] - 1
      BY <1>1, <2>4, <2>6, <3>2
    <3>4. AtBarrier = rest
      <4> HIDE DEF rest
      <4> QED
        BY <2>3, <2>4, <3>3, FS_Subset
    <3>5. \A u \in rest : u.st = "waiting"
      BY <2>2, <3>4 DEF AtBarrier
    <3>6. \A u \in senders' : u.st # "spawned"
      <4>1. \A u \in Moved(rest, "waiting", "woken") : u.st = "woken"
        BY <1>1, <3>5 DEF Moved, Sender
      <4>2. [t EXCEPT !.st = "sending"].st = "sending"
        BY <1>1 DEF Sender
      <4> QED
        BY <3>1, <4>1, <4>2
    <3>7. ~RoundIncomplete(p)'
      BY <1>1, <1>2, <3>3, <3>6 DEF RoundIncomplete
    <3> QED
      BY <1>3, <3>7 DEF EveryoneWaits
  <2> QED
    BY <2>5, <2>6
<1>5. CASE LeaveBarrier(t) \/ SendParallel(t)
  <2>1. t.st \in {"woken", "sending"}
    BY <1>5 DEF LeaveBarrier, SendParallel
  <2>2. ~RoundIncomplete(p)
    BY <1>1, <2>1 DEF AllExpected, EveryoneWaits
  <2>3. \A u \in senders' : u.st = "spawned" => u \in senders
    <3>1. CASE SendParallel(t)
      BY <3>1 DEF SendParallel
    <3>2. CASE LeaveBarrier(t)
      <4>1. senders' = Moved(senders \ {t}, "waiting", "woken") \cup {[t EXCEPT !.st = "sending"]}
        BY <3>2 DEF LeaveBarrier, PassBarrier
      <4>2. \A u \in Moved(senders \ {t}, "waiting", "woken") : u.st = "spawned" => u \in senders
        BY <1>1 DEF Moved, Sender
      <4>3. [t EXCEPT !.st = "sending"].st = "sending"
        BY <1>1 DEF Sender
      <4> QED
        BY <4>1, <4>2, <4>3
    <3> QED
      BY <1>5, <3>1, <3>2
  <2>4. ~RoundIncomplete(p)'
    BY <1>1, <1>2, <2>2, <2>3 DEF RoundIncomplete
  <2> QED
    BY <1>3, <2>4 DEF EveryoneWaits
<1> QED
  BY <1>4, <1>5

LEMMA AllExpectedStep ==
    ASSUME Undisturbing, DInv, Calm, DInv', OnceAtEnd, AllExpected, [BrokerNext]_vars
    PROVE  AllExpected'
<1> USE DEF DInv
<1>0. /\ pc \in [Clients -> ThreadStates] /\ Publishers \subseteq Clients
      /\ next \in [Publishers -> Nat] /\ total \in [Publishers -> Int]
      /\ senders \subseteq Sender /\ IsFiniteSet(senders)
  BY DEF DeliveryTypes, Clients, IdsInv, Inv, TypeOK
<1>1. mode' = mode
  BY DEF BrokerNext, RegistryStep, deliveryVars, ReceivePublish, ReceiveNothing, StartPublish,
         PublisherStep, SendSequential, LockRound, SpawnSender, FinishPublish, SenderStep,
         EnterBarrier, LeaveBarrier, SendParallel, SpuriousWakeup, jobVars, vars
<1> SUFFICES ASSUME mode = "justo" PROVE AllExpected'
  BY <1>1 DEF AllExpected
<1>2. NobodyJoins /\ ListsAreFixed /\ NotBegun /\ EveryoneWaits
  BY DEF AllExpected
<1>3. ASSUME RegistryStep, NEW c \in Clients,
             \/ Connect(c) /\ NoPublishUnderWay
             \/ Interrupt(c) \/ Crash(c) \/ ThreadStep(c) \/ ClientStep(c)
      PROVE  AllExpected'
  BY <1>3, ExpectedUnderRegistry DEF Undisturbing
<1>4. ASSUME UNCHANGED tableVars
      PROVE  \A p \in Publishers : Listed(p)' = Listed(p)
  BY <1>4 DEF tableVars, Listed, TopicId, get_topic_id
<1>5. ASSUME NEW p \in Publishers, StartPublish(p, sent[p] + 1),
             \A c \in Clients : pc[c] \notin {"recv_register"} \cup Registering
      PROVE  AllExpected'
  <2>1. /\ UNCHANGED <<tableVars, mode, senders, delivered>> /\ pc' = [pc EXCEPT ![p] = "publish"]
        /\ sent' = [sent EXCEPT ![p] = @ + 1] /\ next' = [next EXCEPT ![p] = 0]
        /\ total' = [total EXCEPT ![p] = Listed(p)]
    BY <1>5 DEF StartPublish, Listed
  <2>2. NobodyJoins'
    BY <1>5, <2>1 DEF NobodyJoins, Registering
  <2>3. ListsAreFixed'
    BY <1>0, <1>2, <1>4, <2>1 DEF ListsAreFixed
  <2>4. NotBegun'
    BY <1>0, <1>2, <2>1 DEF NotBegun
  <2>5. \A q \in Publishers : RoundIncomplete(q)' =>
           q # p /\ RoundIncomplete(q) /\ next'[q] = next[q] /\ LastMessage(q)' = LastMessage(q)
    BY <1>0, <2>1 DEF RoundIncomplete, LastMessage, DeliveryTypes
  <2>6. EveryoneWaits'
    BY <1>2, <2>1, <2>5 DEF EveryoneWaits
  <2> QED
    BY <2>2, <2>3, <2>4, <2>6 DEF AllExpected
<1>6. ASSUME NEW p \in Publishers, LockRound(p) PROVE AllExpected'
  <2>1. /\ UNCHANGED <<tableVars, mode, senders, delivered, sent, next, total>>
        /\ pc[p] = "publish" /\ pc' = [pc EXCEPT ![p] = "spawn"] /\ mutex2 = NoOne
    BY <1>6 DEF LockRound, jobVars
  <2>2. NobodyJoins'
    BY <1>0, <1>2, <2>1 DEF NobodyJoins, Publishing, Registering
  <2>3. ListsAreFixed' /\ NotBegun'
    BY <1>0, <1>2, <1>4, <2>1 DEF ListsAreFixed, NotBegun, Publishing
  <2>4. senders = {} /\ Cardinality(senders) = 0 /\ next[p] = 0 /\ \A q \in Publishers : pc[q] # "spawn"
    <3>1. \A q \in Publishers : q # NoOne
      BY ConstantsAssumption DEF Clients
    <3>2. \A t \in senders : t.msg.pub \in Publishers
      BY <1>0 DEF Sender, Message
    <3>3. senders = {} /\ \A q \in Publishers : pc[q] # "spawn"
      BY <2>1, <3>1, <3>2 DEF Threads, Rounds
    <3> QED
      BY <1>2, <2>1, <3>3, FS_EmptySet DEF NotBegun
  <2>5. \A c \in Clients : \A i \in 1 .. Len(delivered[c]) : delivered[c][i] # LastMessage(p)
    BY <2>1 DEF OnceAtEnd
  <2>6. \A q \in Publishers : RoundIncomplete(q)' => q = p
    BY <1>0, <2>1, <2>4 DEF RoundIncomplete
  <2>7. EveryoneWaits'
    BY <2>1, <2>4, <2>5, <2>6 DEF EveryoneWaits, LastMessage
  <2> QED
    BY <2>2, <2>3, <2>7 DEF AllExpected
<1>7. ASSUME NEW p \in Publishers, SpawnSender(p) PROVE AllExpected'
  <2> SUFFICES ASSUME NEW n, n = next[p],
                      NEW new, new = [msg |-> LastMessage(p), call |-> calls[p], index |-> n,
                                      fd |-> NextFd(p), st |-> "spawned"]
               PROVE  AllExpected'
    OBVIOUS
  <2>1. /\ UNCHANGED <<tableVars, pc, mode, delivered, sent, total>>
        /\ pc[p] = "spawn" /\ next[p] < total[p] /\ next' = [next EXCEPT ![p] = @ + 1]
        /\ senders' = senders \cup {new}
    BY <1>7 DEF SpawnSender, threadVars, jobVars
  <2>2. NobodyJoins' /\ ListsAreFixed' /\ NotBegun'
    BY <1>0, <1>2, <1>4, <2>1 DEF NobodyJoins, ListsAreFixed, NotBegun
  <2>3. /\ Cardinality(senders) = n
        /\ \A t \in senders : t.st \in {"spawned", "waiting"}
        /\ \A c \in Clients : \A i \in 1 .. Len(delivered[c]) : delivered[c][i] # LastMessage(p)
    BY <1>2, <2>1 DEF EveryoneWaits, RoundIncomplete
  <2>4. new \notin senders
    BY DEF Threads, Keys, LastMessage, DeliveryTypes
  <2>5. Cardinality(senders') = n + 1
    BY <1>0, <2>1, <2>3, <2>4, FS_AddElement
  <2>6. \A q \in Publishers : RoundIncomplete(q)' => q = p
    BY <2>1 DEF RoundIncomplete, Threads, Rounds
  <2>7. EveryoneWaits'
    BY <1>0, <2>1, <2>3, <2>5, <2>6 DEF EveryoneWaits, LastMessage
  <2> QED
    BY <2>2, <2>7 DEF AllExpected
<1>8. ASSUME NEW p \in Publishers, FinishPublish(p) PROVE AllExpected'
  <2>1. /\ UNCHANGED <<tableVars, mode, senders, delivered, sent, next, total>>
        /\ pc' = [pc EXCEPT ![p] = "serving"]
    BY <1>8 DEF FinishPublish, jobVars
  <2>2. \A c \in Clients : pc'[c] # "serving" => pc'[c] = pc[c]
    BY <1>0, <2>1
  <2>3. NobodyJoins'
    BY <1>0, <1>2, <2>1, <2>2 DEF NobodyJoins, Publishing, Registering
  <2>4. ListsAreFixed' /\ NotBegun'
    BY <1>0, <1>2, <1>4, <2>1, <2>2 DEF ListsAreFixed, NotBegun, Publishing
  <2>5. \A q \in Publishers : RoundIncomplete(q)' => RoundIncomplete(q)
    BY <1>0, <2>1, <2>2 DEF RoundIncomplete
  <2>6. EveryoneWaits'
    BY <1>2, <2>1, <2>5 DEF EveryoneWaits, LastMessage
  <2> QED
    BY <2>3, <2>4, <2>6 DEF AllExpected
<1>9. ASSUME NEW t \in senders, EnterBarrier(t) \/ LeaveBarrier(t) \/ SendParallel(t)
      PROVE  AllExpected'
  <2>1. UNCHANGED <<tableVars, pc, next, total>>
    BY <1>9 DEF EnterBarrier, LeaveBarrier, SendParallel, jobVars, registryVars, threadVars
  <2>2. NobodyJoins' /\ ListsAreFixed' /\ NotBegun'
    BY <1>2, <1>4, <2>1 DEF NobodyJoins, ListsAreFixed, NotBegun
  <2> QED
    BY <1>9, <2>2, LastOneIn DEF AllExpected
<1>10. CASE UNCHANGED vars
  <2>1. UNCHANGED <<tableVars, pc, mode, senders, delivered, sent, next, total>>
    BY <1>10 DEF vars, registryVars, threadVars, deliveryVars
  <2>2. NobodyJoins' /\ ListsAreFixed' /\ NotBegun'
    BY <1>2, <1>4, <2>1 DEF NobodyJoins, ListsAreFixed, NotBegun
  <2>3. EveryoneWaits'
    BY <1>2, <2>1 DEF EveryoneWaits, RoundIncomplete, LastMessage
  <2> QED
    BY <2>2, <2>3 DEF AllExpected
<1> QED
  BY <1>3, <1>5, <1>6, <1>7, <1>8, <1>9, <1>10, UndisturbedSteps DEF Undisturbing, Calm

FairInv == JustoInv /\ (Undisturbing => AllExpected)

LEMMA FairInvAtStart == BrokerInit => FairInv
<1> SUFFICES ASSUME BrokerInit PROVE AllExpected
  BY JustoInvAtStart DEF FairInv
<1>1. \A c \in Clients : pc[c] = "idle"
  BY DEF BrokerInit, Init
<1> QED
  BY <1>1 DEF AllExpected, NobodyJoins, ListsAreFixed, NotBegun, EveryoneWaits, RoundIncomplete,
              Publishing, Clients

LEMMA FairInvStep == FairInv /\ [BrokerNext]_vars => FairInv'
<1> SUFFICES ASSUME FairInv, [BrokerNext]_vars PROVE FairInv'
  OBVIOUS
<1>1. JustoInv' /\ DInv'
  BY JustoInvStep DEF FairInv, JustoInv, CalmInv
<1>2. Undisturbing' <=> Undisturbing
  BY DEF Undisturbing, LeavingBetween, OneAtATime, RoomForSubscribers, SubscribersOf, PublishersStay
<1>3. ASSUME Undisturbing PROVE AllExpected'
  <2>1. DInv /\ Calm /\ OnceAtEnd /\ AllExpected
    BY <1>3 DEF FairInv, JustoInv, CalmInv, Undisturbing
  <2> QED
    BY <1>1, <1>3, <2>1, AllExpectedStep
<1> QED
  BY <1>1, <1>2, <1>3 DEF FairInv

(***************************************************************************)
(* justo, for any number of subscribers and publishers: nobody has a       *)
(* message while a thread of its round is not at the barrier.  Every       *)
(* thread compares just_threads with the current num_subscribers, so this  *)
(* needs a list that does not change during a publish, and waits that end  *)
(* only by the broadcast, since the code tests its condition once.         *)
(***************************************************************************)
THEOREM NobodyHearsFirst ==
    ASSUME OneAtATime, RoomForSubscribers, PublishersStay, "justo" \in Undisturbed, ~SpuriousWakeups
    PROVE  BrokerSpec => []NobodyIsFirst
<1>1. FairInv => NobodyIsFirst
  <2> SUFFICES ASSUME FairInv, NEW p \in Publishers, RoundIncomplete(p)
               PROVE  /\ \A t \in senders : t.msg.pub = p => t.st # "sending"
                      /\ \A s \in Subscribers : \A i \in 1 .. Len(delivered[s]) :
                            delivered[s][i] # LastMessage(p)
    BY DEF NobodyIsFirst
  <2>1. EveryoneWaits
    BY DEF FairInv, Undisturbing, LeavingBetween, AllExpected, RoundIncomplete
  <2> QED
    BY <2>1 DEF EveryoneWaits, Clients
<1> QED
  BY <1>1, FairInvAtStart, FairInvStep, PTL DEF BrokerSpec

----------------------------------------------------------------------------
(* The service of PubSub, when nobody dies.                                *)

NobodyDies == LeavingBetween /\ Crashers = {}

\* A client that the service counts among its members.
IsMember(s) == pc[s] = "serving" /\ bye[s] = NotSent
\* A publisher's loop has a client's entry before it.
Pending(p, s) == pc[p] \in Publishing /\ \E i \in next[p] .. total[p] - 1 : FdOf(p, i) = s
\* A thread has a message for a client.
Carried(m, s) == \E t \in senders : t.msg = m /\ t.fd = s

OwedWhat ==
    \A s, m : m \in Owed(s) <=> \/ \E p \in Publishers : m = LastMessage(p) /\ Pending(p, s)
                                \/ Carried(m, s)
LEMMA OwedNow == OwedWhat
BY DEF OwedWhat, Owed, Pending, Carried, FdOf
LEMMA OwedAfter == OwedWhat'
BY OwedNow, PTL

\* The places a publisher's loop has before it are in the list.
LEMMA LoopInList ==
    ASSUME IdsInv, DeliveryTypes, Calm, NEW p \in Publishers, pc[p] \in Publishing
    PROVE  /\ next[p] \in Nat /\ total[p] \in Int /\ pc[p] \in Serving
           /\ \A i \in next[p] .. total[p] - 1 : i \in Nat /\ i < Listed(p)
<1>1. /\ next[p] \in Nat /\ total[p] \in Int /\ pc[p] \in Serving /\ total[p] <= Listed(p)
  BY DEF DeliveryTypes, Calm, Targets, Serving
<1>2. Listed(p) \in Int
  BY <1>1, CountedPlace DEF Calm
<1> QED
  BY <1>1, <1>2

\* When nobody leaves and nobody dies, the list is that of the members.
LEMMA ListedAreMembers ==
    ASSUME NobodyDies, DInv, Calm, \A d \in Clients : ~Leaving(d),
           NEW p \in Publishers, pc[p] \in Serving, NEW s \in Subscribers
    PROVE  /\ (\E i \in Nat : i < Listed(p) /\ FdOf(p, i) = s)
              <=> TopicOf[s] = TopicOf[p] /\ IsMember(s)
           /\ IsMember(s) => Open(s)
<1> USE DEF DInv, Calm, NobodyDies
<1>0. s \in Clients \ Crashers /\ s # NoSocket /\ pc[s] \notin Publishing
  BY ConstantsAssumption DEF Clients, Targets
<1>1. ASSUME NEW i \in Nat, i < Listed(p), FdOf(p, i) = s
      PROVE  TopicOf[s] = TopicOf[p] /\ IsMember(s)
  <2>1. TopicOf[s] = TopicOf[p] /\ (pc[s] \in Serving \/ DiedRegistered(s))
    BY <1>1, CountedEntries
  <2>2. ~DiedRegistered(s)
    BY <1>0 DEF Departures, DiedRegistered
  <2> QED
    BY <1>0, <2>1, <2>2 DEF Serving, IsMember, Leaving
<1>2. ASSUME TopicOf[s] = TopicOf[p], IsMember(s)
      PROVE  \E i \in Nat : i < Listed(p) /\ FdOf(p, i) = s
  BY <1>2, CountedEntries DEF IsMember, Serving
<1>3. IsMember(s) => Open(s)
  BY <1>0 DEF Departures, IsMember, Open
<1> QED
  BY <1>1, <1>2, <1>3

\* What goes to a client is its own.
LEMMA DutiesAreApart ==
    ASSUME DInv, Calm, NEW p \in Publishers, pc[p] \in Serving,
           senders # {} \/ \E q \in Publishers : pc[q] \in Publishing
    PROVE  \A i, j \in Nat : i < Listed(p) /\ j < Listed(p) /\ FdOf(p, i) = FdOf(p, j) => i = j
<1>1. \A d \in Clients : ~Leaving(d)
  BY NobodyLeaves DEF Calm
<1> QED
  BY <1>1, CountedEntries DEF DInv, Calm

\* The barrier loses no thread.
LEMMA BarrierCarriesOn ==
    ASSUME DInv, NEW t \in senders, EnterBarrier(t) \/ LeaveBarrier(t) \/ SpuriousWakeup(t)
    PROVE  \A m, s : Carried(m, s)' <=> Carried(m, s)
<1> USE DEF DInv
<1>1. senders \subseteq Sender
  BY DEF DeliveryTypes
<1>2. \A u \in senders' : \E v \in senders : SameJob(v, u)
  BY SenderSteps DEF SendersKept, Heirs, Threads, Keys
<1>3. \A v \in senders : \E u \in senders' : SameJob(v, u)
  <2>1. PICK x \in {"waiting", "woken", "sending"} :
            /\ [t EXCEPT !.st = x] \in senders'
            /\ \/ senders \ {t} \subseteq senders'
               \/ Moved(senders \ {t}, "waiting", "woken") \subseteq senders'
    BY DEF EnterBarrier, LeaveBarrier, SpuriousWakeup, PassBarrier
  <2>2. SameJob(t, [t EXCEPT !.st = x])
    BY <1>1 DEF Sender, SameJob
  <2>3. ASSUME NEW v \in senders, v # t PROVE \E u \in senders' : SameJob(v, u)
    <3>1. CASE senders \ {t} \subseteq senders'
      BY <2>3, <3>1 DEF SameJob
    <3>2. CASE Moved(senders \ {t}, "waiting", "woken") \subseteq senders'
      <4>1. PICK u \in Moved(senders \ {t}, "waiting", "woken") :
                u = IF v.st = "waiting" THEN [v EXCEPT !.st = "woken"] ELSE v
        BY <2>3 DEF Moved
      <4>2. SameJob(v, u)
        BY <1>1, <2>3, <4>1 DEF Sender, SameJob
      <4> QED
        BY <3>2, <4>2
    <3> QED
      BY <2>1, <3>1, <3>2
  <2> QED
    BY <2>1, <2>2, <2>3
<1> QED
  BY <1>2, <1>3 DEF Carried, SameJob

OwedTheSame == \A s : Owed(s)' = Owed(s)

\* What it takes for nothing to be owed that was not, or no more.
LEMMA OwedKept ==
    ASSUME \A p \in Publishers : LastMessage(p)' = LastMessage(p),
           \A m, s : \/ \E p \in Publishers : m = LastMessage(p) /\ Pending(p, s)'
                     \/ Carried(m, s)'
                     <=> \/ \E p \in Publishers : m = LastMessage(p) /\ Pending(p, s)
                         \/ Carried(m, s)
    PROVE  OwedTheSame
<1>1. \A s, m : m \in Owed(s)' <=> m \in Owed(s)
  BY OwedNow, OwedAfter DEF OwedWhat
<1> QED
  <2>1. ASSUME NEW s PROVE Owed(s)' = Owed(s)
    BY <1>1
  <2> QED
    BY <2>1 DEF OwedTheSame

\* The steps of the table, of the locks and of the barrier.
LEMMA OwedUnderRegistry ==
    ASSUME NobodyDies, DInv, Calm, DInv', RegistryStep PROVE OwedTheSame
<1> USE DEF DInv
<1>1. /\ UNCHANGED <<sent, total, next, senders>>
      /\ \A p \in Publishers : pc'[p] \in Publishing <=> pc[p] \in Publishing
  BY RegistryFrame DEF deliveryVars
<1>2. ASSUME NEW p \in Publishers, NEW s PROVE Pending(p, s)' <=> Pending(p, s)
  <2>1. CASE pc[p] \notin Publishing
    BY <1>1, <2>1 DEF Pending
  <2>2. CASE pc[p] \in Publishing
    <3>1. \A i \in next[p] .. total[p] - 1 : i \in Nat /\ i < Listed(p)
      BY <2>2, LoopInList
    <3>2. \A i \in Nat : i < Listed(p) => FdOf(p, i)' = FdOf(p, i)
      <4>1. [BrokerNext]_vars
        BY DEF BrokerNext
      <4> QED
        BY <2>2, <4>1, EntriesWhilePublishing DEF NobodyDies
    <3>3. \A i \in next[p] .. total[p] - 1 : FdOf(p, i)' = FdOf(p, i)
      BY <3>1, <3>2
    <3> QED
      BY <1>1, <3>3 DEF Pending
  <2> QED
    BY <2>1, <2>2
<1>3. \A m, s : Carried(m, s)' <=> Carried(m, s)
  BY <1>1 DEF Carried
<1>4. \A p \in Publishers : LastMessage(p)' = LastMessage(p)
  BY <1>1 DEF LastMessage
<1> QED
  BY <1>2, <1>3, <1>4, OwedKept

LEMMA OwedUnderLocks ==
    ASSUME NobodyDies, DInv, Calm, NEW p \in Publishers, LockRound(p) \/ FinishPublish(p)
    PROVE  OwedTheSame
<1> USE DEF DInv
<1>1. /\ UNCHANGED <<sent, total, next, senders, tableVars>>
      /\ pc[p] \in Publishing /\ \E x \in Serving : pc' = [pc EXCEPT ![p] = x]
      /\ pc'[p] \in Publishing \/ next[p] >= total[p]
  BY DEF LockRound, FinishPublish, jobVars, Publishing, Serving, IdsInv, Inv, TypeOK, Clients
<1>2. \A q \in Publishers : \A i : FdOf(q, i)' = FdOf(q, i)
  BY <1>1 DEF tableVars, FdOf, CellAt, TopicId, get_topic_id
<1>3. ASSUME NEW q \in Publishers, NEW s PROVE Pending(q, s)' <=> Pending(q, s)
  <2>1. CASE q # p
    <3>1. pc'[q] = pc[q]
      BY <1>1, <2>1 DEF IdsInv, Inv, TypeOK, Clients
    <3> QED
      BY <1>1, <1>2, <3>1 DEF Pending
  <2>2. CASE q = p
    <3>1. next[p] \in Nat /\ total[p] \in Int
      BY DEF DeliveryTypes
    <3>2. CASE pc'[p] \in Publishing
      BY <1>1, <1>2, <2>2, <3>2 DEF Pending
    <3>3. CASE next[p] >= total[p]
      <4>1. next[p] .. total[p] - 1 = {}
        BY <3>1, <3>3
      <4> QED
        BY <1>1, <2>2, <4>1 DEF Pending
    <3> QED
      BY <1>1, <3>2, <3>3
  <2> QED
    BY <2>1, <2>2
<1>4. \A m, s : Carried(m, s)' <=> Carried(m, s)
  BY <1>1 DEF Carried
<1>5. \A q \in Publishers : LastMessage(q)' = LastMessage(q)
  BY <1>1 DEF LastMessage
<1> QED
  BY <1>3, <1>4, <1>5, OwedKept

LEMMA OwedUnderBarrier ==
    ASSUME NobodyDies, DInv, Calm, NEW t \in senders,
           EnterBarrier(t) \/ LeaveBarrier(t) \/ SpuriousWakeup(t)
    PROVE  OwedTheSame
<1>1. UNCHANGED <<sent, total, next, pc, tableVars>>
  BY DEF EnterBarrier, LeaveBarrier, SpuriousWakeup, jobVars, registryVars, threadVars
<1>2. \A q \in Publishers : \A i : FdOf(q, i)' = FdOf(q, i)
  BY <1>1 DEF tableVars, FdOf, CellAt, TopicId, get_topic_id
<1>3. \A q \in Publishers : \A s : Pending(q, s)' <=> Pending(q, s)
  BY <1>1, <1>2 DEF Pending
<1>4. \A m, s : Carried(m, s)' <=> Carried(m, s)
  BY BarrierCarriesOn
<1>5. \A q \in Publishers : LastMessage(q)' = LastMessage(q)
  BY <1>1 DEF LastMessage
<1> QED
  BY <1>3, <1>4, <1>5, OwedKept

\* What the loop had before it, a new thread has.
LEMMA OwedUnderSpawn ==
    ASSUME NobodyDies, DInv, Calm, NEW p \in Publishers, SpawnSender(p)
    PROVE  OwedTheSame
<1> USE DEF DInv
<1> SUFFICES ASSUME NEW n, n = next[p],
                    NEW new, new = [msg |-> LastMessage(p), call |-> calls[p], index |-> n, fd |-> NextFd(p),
                                    st |-> IF mode = "justo" THEN "spawned" ELSE "sending"]
             PROVE  OwedTheSame
  OBVIOUS
<1>1. /\ UNCHANGED <<sent, total, pc, tableVars>> /\ next' = [next EXCEPT ![p] = @ + 1]
      /\ senders' = senders \cup {new} /\ n < total[p] /\ pc[p] \in Publishing
  BY DEF SpawnSender, threadVars, jobVars, Publishing
<1>2. \A q \in Publishers : \A i : FdOf(q, i)' = FdOf(q, i)
  BY <1>1 DEF tableVars, FdOf, CellAt, TopicId, get_topic_id
<1>3. n \in Nat /\ total[p] \in Int /\ next'[p] = n + 1 /\ \A q \in Publishers \ {p} : next'[q] = next[q]
  BY <1>1 DEF DeliveryTypes
<1>4. \A q \in Publishers \ {p} : \A s : Pending(q, s)' <=> Pending(q, s)
  BY <1>1, <1>2, <1>3 DEF Pending
<1>5. \A s : Pending(p, s) <=> Pending(p, s)' \/ s = FdOf(p, n)
  <2>1. \A i : i \in n .. total[p] - 1 <=> i \in n + 1 .. total[p] - 1 \/ i = n
    BY <1>1, <1>3
  <2> QED
    BY <1>1, <1>2, <1>3, <2>1 DEF Pending
<1>6. \A m, s : Carried(m, s)' <=> Carried(m, s) \/ (m = LastMessage(p) /\ s = FdOf(p, n))
  <2>1. new.msg = LastMessage(p) /\ new.fd = FdOf(p, n)
    BY DEF NextFd, FdOf
  <2> QED
    BY <1>1, <2>1 DEF Carried
<1>7. \A q \in Publishers : LastMessage(q)' = LastMessage(q)
  BY <1>1 DEF LastMessage
<1> QED
  BY <1>4, <1>5, <1>6, <1>7, OwedKept

\* A send delivers a message that was owed, to a client that is a member, and
\* it is owed no more.
Delivers ==
    \E s \in Subscribers : \E m :
        /\ m \in Owed(s) /\ delivered' = [delivered EXCEPT ![s] = Append(@, m)]
        /\ \A r \in Subscribers : Owed(r)' = IF r = s THEN Owed(r) \ {m} ELSE Owed(r)

LEMMA LoopDelivers ==
    ASSUME NobodyDies, DInv, Calm, NEW p \in Publishers, SendSequential(p)
    PROVE  Delivers
<1> USE DEF DInv
<1> SUFFICES ASSUME NEW n, n = next[p], NEW s, s = FdOf(p, n), NEW m, m = LastMessage(p)
             PROVE  Delivers
  OBVIOUS
<1>1. /\ UNCHANGED <<sent, total, pc, tableVars, senders>> /\ next' = [next EXCEPT ![p] = @ + 1]
      /\ SendTo(s, m) /\ n < total[p] /\ pc[p] \in Publishing /\ mode = "secuencial"
  BY DEF SendSequential, threadVars, jobVars, Publishing, NextFd, FdOf
<1>2. \A q \in Publishers : /\ \A i : FdOf(q, i)' = FdOf(q, i)
                            /\ LastMessage(q)' = LastMessage(q)
                            /\ LastMessage(q) = m => q = p
  BY <1>1 DEF tableVars, FdOf, CellAt, TopicId, get_topic_id, LastMessage
<1>3. n \in Nat /\ total[p] \in Int /\ next'[p] = n + 1 /\ \A q \in Publishers \ {p} : next'[q] = next[q]
  BY <1>1 DEF DeliveryTypes
<1>4. \A q \in Publishers \ {p} : \A r : Pending(q, r)' <=> Pending(q, r)
  BY <1>1, <1>2, <1>3 DEF Pending
<1>5. /\ pc[p] \in Serving /\ n < Listed(p)
      /\ \A i \in n .. total[p] - 1 : i \in Nat /\ i < Listed(p)
  BY <1>1, <1>3, LoopInList
<1>6. s \in Subscribers /\ Open(s)
  <2>1. \A d \in Clients : ~Leaving(d)
    BY <1>1, NobodyLeaves DEF Calm
  <2>2. s \in Subscribers
    BY <1>3, <1>5, <2>1, CountedEntries DEF Calm
  <2> QED
    BY <1>3, <1>5, <2>1, <2>2, ListedAreMembers
<1>7. \A i \in n + 1 .. total[p] - 1 : FdOf(p, i) # s
  <2>1. \A i, j \in Nat : i < Listed(p) /\ j < Listed(p) /\ FdOf(p, i) = FdOf(p, j) => i = j
    BY <1>1, <1>5, DutiesAreApart
  <2>2. \A i \in n + 1 .. total[p] - 1 : i \in Nat /\ i < Listed(p) /\ i # n
    BY <1>3, <1>5
  <2> QED
    BY <1>3, <1>5, <2>1, <2>2
<1>8. Pending(p, s) /\ ~Pending(p, s)' /\ \A r : r # s => (Pending(p, r)' <=> Pending(p, r))
  <2>1. \A i : i \in n .. total[p] - 1 <=> i \in n + 1 .. total[p] - 1 \/ i = n
    BY <1>1, <1>3
  <2> QED
    BY <1>1, <1>2, <1>3, <1>7, <2>1 DEF Pending
<1>9. \A l, r : ~Carried(l, r) /\ ~Carried(l, r)'
  BY <1>1 DEF Carried, Threads, Rounds
<1>10. m \in Owed(s) /\ \A r, l : l \in Owed(r)' <=> l \in Owed(r) /\ ~(r = s /\ l = m)
  BY <1>2, <1>4, <1>8, <1>9, OwedNow, OwedAfter DEF OwedWhat
<1>11. ASSUME NEW r \in Subscribers PROVE Owed(r)' = IF r = s THEN Owed(r) \ {m} ELSE Owed(r)
  <2>1. CASE r = s
    <3>1. \A l : l \in Owed(r)' <=> l \in Owed(r) /\ l # m
      BY <1>10, <2>1
    <3> QED
      BY <2>1, <3>1
  <2>2. CASE r # s
    <3>1. \A l : l \in Owed(r)' <=> l \in Owed(r)
      BY <1>10, <2>2
    <3> QED
      BY <2>2, <3>1
  <2> QED
    BY <2>1, <2>2
<1> QED
  BY <1>1, <1>6, <1>10, <1>11 DEF Delivers, SendTo

LEMMA ThreadDelivers ==
    ASSUME NobodyDies, DInv, Calm, NEW t \in senders, SendParallel(t)
    PROVE  Delivers
<1> USE DEF DInv
<1> SUFFICES ASSUME NEW p, p = t.msg.pub, NEW n, n = t.index, NEW s, s = FdOf(p, n), NEW m, m = t.msg
             PROVE  Delivers
  OBVIOUS
<1>1. /\ UNCHANGED <<sent, total, pc, tableVars, next>> /\ senders' = senders \ {t} /\ SendTo(t.fd, m)
  BY DEF SendParallel, threadVars, jobVars
<1>2. \A q \in Publishers : /\ \A i : FdOf(q, i)' = FdOf(q, i)
                            /\ LastMessage(q)' = LastMessage(q)
                            /\ LastMessage(q) = m => q = p
  BY <1>1 DEF tableVars, FdOf, CellAt, TopicId, get_topic_id, LastMessage
<1>3. /\ p \in Publishers /\ pc[p] \in Serving /\ n \in Nat /\ n < Listed(p) /\ t.fd = s
      /\ m.seq = t.call /\ sent = calls
      /\ t.call = calls[p] => n < next[p]
  BY DEF DeliveryTypes, Sender, Message, Calm, Targets, Calls, Threads, Keys
<1>4. \A q \in Publishers : \A r : Pending(q, r)' <=> Pending(q, r)
  BY <1>1, <1>2 DEF Pending
<1>5. \A i, j \in Nat : i < Listed(p) /\ j < Listed(p) /\ FdOf(p, i) = FdOf(p, j) => i = j
  BY <1>3, DutiesAreApart
<1>6. s \in Subscribers /\ Open(s)
  <2>1. \A d \in Clients : ~Leaving(d)
    BY NobodyLeaves DEF Calm
  <2>2. s \in Subscribers
    BY <1>3, <2>1, CountedEntries DEF Calm
  <2> QED
    BY <1>3, <2>1, <2>2, ListedAreMembers
<1>7. \A q \in Publishers : m = LastMessage(q) => ~Pending(q, s)
  <2> SUFFICES ASSUME m = LastMessage(p), Pending(p, s) PROVE FALSE
    BY <1>2
  <2>1. n < next[p]
    BY <1>3 DEF LastMessage
  <2>2. PICK i \in next[p] .. total[p] - 1 : FdOf(p, i) = s
    BY DEF Pending
  <2>3. next[p] \in Nat /\ total[p] \in Int /\ i \in Nat /\ i < Listed(p)
    BY <1>3, <2>2, LoopInList DEF Pending
  <2>4. i = n
    BY <1>3, <1>5, <2>2, <2>3
  <2> QED
    BY <1>3, <2>1, <2>2, <2>3, <2>4
<1>8. \A u \in senders : u.msg = m /\ u.fd = s => u = t
  <2> SUFFICES ASSUME NEW u \in senders, u.msg = m, u.fd = s PROVE u = t
    OBVIOUS
  <2>1. u.call = t.call /\ u.index \in Nat /\ u.index < Listed(p) /\ u.fd = FdOf(p, u.index)
    BY <1>3 DEF DeliveryTypes, Sender, Calm, Targets, Calls
  <2>2. u.index = n
    BY <1>3, <1>5, <2>1
  <2> QED
    BY <2>1, <2>2 DEF Threads, Keys, UniqueIn, SameSender
<1>9. Carried(m, s) /\ \A l, r : Carried(l, r)' <=> Carried(l, r) /\ ~(l = m /\ r = s)
  BY <1>1, <1>3, <1>8 DEF Carried
<1>10. m \in Owed(s) /\ \A r, l : l \in Owed(r)' <=> l \in Owed(r) /\ ~(r = s /\ l = m)
  BY <1>2, <1>4, <1>7, <1>9, OwedNow, OwedAfter DEF OwedWhat
<1>11. ASSUME NEW r \in Subscribers PROVE Owed(r)' = IF r = s THEN Owed(r) \ {m} ELSE Owed(r)
  <2>1. CASE r = s
    <3>1. \A l : l \in Owed(r)' <=> l \in Owed(r) /\ l # m
      BY <1>10, <2>1
    <3> QED
      BY <2>1, <3>1
  <2>2. CASE r # s
    <3>1. \A l : l \in Owed(r)' <=> l \in Owed(r)
      BY <1>10, <2>2
    <3> QED
      BY <2>2, <3>1
  <2> QED
    BY <2>1, <2>2
<1> QED
  BY <1>1, <1>3, <1>6, <1>10, <1>11 DEF Delivers, SendTo

\* A publish makes its message owed to the members of the topic.
LEMMA PublishPosts ==
    ASSUME NobodyDies, DInv, Calm, NEW p \in Publishers, StartPublish(p, sent[p] + 1),
           \A d \in Clients : ~Leaving(d)
    PROVE  /\ sent' = [sent EXCEPT ![p] = @ + 1] /\ UNCHANGED <<delivered, bye>>
           /\ \A s \in Subscribers :
                 /\ pc'[s] = pc[s]
                 /\ Owed(s)' = IF IsMember(s) /\ TopicOf[s] = TopicOf[p]
                               THEN Owed(s) \cup {[pub |-> p, seq |-> sent[p] + 1]} ELSE Owed(s)
<1> USE DEF DInv
<1> SUFFICES ASSUME NEW n, n = Listed(p), NEW m, m = [pub |-> p, seq |-> sent[p] + 1]
             PROVE  /\ sent' = [sent EXCEPT ![p] = @ + 1] /\ UNCHANGED <<delivered, bye>>
                    /\ \A s \in Subscribers :
                          /\ pc'[s] = pc[s]
                          /\ Owed(s)' = IF IsMember(s) /\ TopicOf[s] = TopicOf[p]
                                        THEN Owed(s) \cup {m} ELSE Owed(s)
  OBVIOUS
<1>1. /\ sent' = [sent EXCEPT ![p] = @ + 1] /\ UNCHANGED <<delivered, bye, tableVars, senders>>
      /\ pc[p] = "serving" /\ pc' = [pc EXCEPT ![p] = "publish"]
      /\ next' = [next EXCEPT ![p] = 0] /\ total' = [total EXCEPT ![p] = n]
  BY DEF StartPublish, Listed, clientVars
<1>2. pc[p] \in Serving /\ pc[p] \notin Publishing /\ n \in Nat
  BY <1>1, CountedPlace DEF Serving, Publishing, Calm
<1>3. \A q \in Publishers : \A i : FdOf(q, i)' = FdOf(q, i)
  BY <1>1 DEF tableVars, FdOf, CellAt, TopicId, get_topic_id
<1>4. /\ LastMessage(p)' = m /\ pc'[p] \in Publishing /\ next'[p] = 0 /\ total'[p] = n
      /\ \A q \in Publishers \ {p} : /\ LastMessage(q)' = LastMessage(q) /\ pc'[q] = pc[q]
                                     /\ next'[q] = next[q] /\ total'[q] = total[q]
      /\ \A s \in Subscribers : pc'[s] = pc[s]
  BY <1>1, ConstantsAssumption DEF DeliveryTypes, LastMessage, Publishing, IdsInv, Inv, TypeOK, Clients
<1>5. \A s : ~Pending(p, s)
  BY <1>2 DEF Pending
<1>6. \A q \in Publishers \ {p} : \A s : Pending(q, s)' <=> Pending(q, s)
  BY <1>3, <1>4 DEF Pending
<1>7. \A s \in Subscribers : Pending(p, s)' <=> IsMember(s) /\ TopicOf[s] = TopicOf[p]
  <2> SUFFICES ASSUME NEW s \in Subscribers
               PROVE  Pending(p, s)' <=> IsMember(s) /\ TopicOf[s] = TopicOf[p]
    OBVIOUS
  <2>1. Pending(p, s)' <=> \E i \in 0 .. n - 1 : FdOf(p, i) = s
    BY <1>3, <1>4 DEF Pending
  <2>2. \A i : i \in 0 .. n - 1 <=> i \in Nat /\ i < n
    BY <1>2
  <2>3. (\E i \in Nat : i < n /\ FdOf(p, i) = s) <=> TopicOf[s] = TopicOf[p] /\ IsMember(s)
    BY <1>2, ListedAreMembers
  <2> QED
    BY <2>1, <2>2, <2>3
<1>8. \A l, s : Carried(l, s)' <=> Carried(l, s)
  BY <1>1 DEF Carried
<1>9. \A s \in Subscribers : \A l :
         l \in Owed(s)' <=> l \in Owed(s) \/ (l = m /\ IsMember(s) /\ TopicOf[s] = TopicOf[p])
  BY <1>4, <1>5, <1>6, <1>7, <1>8, OwedNow, OwedAfter DEF OwedWhat
<1>10. ASSUME NEW s \in Subscribers
       PROVE  Owed(s)' = IF IsMember(s) /\ TopicOf[s] = TopicOf[p] THEN Owed(s) \cup {m} ELSE Owed(s)
  BY <1>9
<1> QED
  BY <1>1, <1>4, <1>10

LEMMA ServiceStarts == BrokerInit => Service!Init
<1> SUFFICES ASSUME BrokerInit PROVE Service!Init
  OBVIOUS
<1>1. /\ \A s \in Subscribers : pc[s] # "serving" /\ delivered[s] = <<>>
      /\ sent = [p \in Publishers |-> 0] /\ senders = {}
      /\ \A p \in Publishers : pc[p] \notin Publishing
  BY DEF BrokerInit, Init, Clients, Publishing
<1>2. \A s : Owed(s) = {}
  <2>1. \A s, m : m \notin Owed(s)
    BY <1>1, OwedNow DEF OwedWhat, Pending, Carried
  <2> QED
    BY <2>1
<1> QED
  BY <1>1, <1>2 DEF Service!Init

LEMMA ServiceStep ==
    ASSUME NobodyDies, DInv, Calm, DInv', [BrokerNext]_vars
    PROVE  [Service!Next]_Service!vars
<1> USE DEF DInv
<1>0. delivered \in [Clients -> Seq(Message)] /\ sent \in [Publishers -> Nat]
  BY DEF DeliveryTypes
<1>1. ASSUME OwedTheSame, UNCHANGED <<sent, delivered, bye>>,
             \A s \in Subscribers : pc'[s] = pc[s]
      PROVE  UNCHANGED Service!vars
  BY <1>1 DEF Service!vars, OwedTheSame
<1>2. CASE RegistryStep
  <2>1. PICK c \in Clients : User(c) \/ ThreadStep(c) \/ ClientStep(c)
    BY <1>2 DEF RegistryStep, User
  <2>2. OwedTheSame /\ UNCHANGED <<sent, delivered>>
    BY <1>2, OwedUnderRegistry DEF RegistryStep, deliveryVars
  <2>3. \A d \in Clients \ {c} : IsMember(d)' <=> IsMember(d)
    <3>1. Alone(c)
      BY <2>1, StepsAreAlone DEF IdsInv, Inv, Calm, Orderly
    <3> QED
      BY <3>1 DEF Alone, IsMember
  <2>4. CASE c \in Subscribers /\ ~IsMember(c) /\ IsMember(c)'
    <3>1. Service!Join(c)
      BY <2>2, <2>3, <2>4 DEF Service!Join, IsMember, OwedTheSame, Clients
    <3> QED
      BY <2>4, <3>1 DEF Service!Next
  <2>5. CASE c \in Subscribers /\ IsMember(c) /\ ~IsMember(c)'
    <3>1. Service!Leave(c)
      BY <2>2, <2>3, <2>5 DEF Service!Leave, IsMember, OwedTheSame, Clients
    <3> QED
      BY <2>5, <3>1 DEF Service!Next
  <2>6. CASE \A d \in Subscribers : IsMember(d)' <=> IsMember(d)
    BY <2>2, <2>6 DEF Service!vars, IsMember, OwedTheSame
  <2> QED
    BY <2>3, <2>4, <2>5, <2>6 DEF Clients
<1>3. ASSUME NEW p \in Publishers, StartPublish(p, sent[p] + 1), \A d \in Clients : ~Leaving(d)
      PROVE  Service!Post(p)
  BY <1>3, PublishPosts DEF Service!Post, IsMember
<1>4. ASSUME Delivers, UNCHANGED <<sent, bye, pc>> PROVE \E s \in Subscribers : Service!Deliver(s)
  <2>0. PICK s \in Subscribers : \E m :
            /\ m \in Owed(s) /\ delivered' = [delivered EXCEPT ![s] = Append(@, m)]
            /\ \A r \in Subscribers : Owed(r)' = IF r = s THEN Owed(r) \ {m} ELSE Owed(r)
    BY <1>4 DEF Delivers
  <2>1. PICK m :
            /\ m \in Owed(s) /\ delivered' = [delivered EXCEPT ![s] = Append(@, m)]
            /\ \A r \in Subscribers : Owed(r)' = IF r = s THEN Owed(r) \ {m} ELSE Owed(r)
    BY <2>0
  <2>2. [r \in Subscribers |-> Owed(r)'] = [[r \in Subscribers |-> Owed(r)] EXCEPT ![s] = @ \ {m}]
    BY <2>1
  <2>3. [r \in Subscribers |-> delivered'[r]]
        = [[r \in Subscribers |-> delivered[r]] EXCEPT ![s] = Append(@, m)]
    BY <1>0, <2>1 DEF Clients
  <2>4. {r \in Subscribers : pc'[r] = "serving" /\ bye'[r] = NotSent}
        = {r \in Subscribers : pc[r] = "serving" /\ bye[r] = NotSent}
    BY <1>4
  <2>5. m \in [r \in Subscribers |-> Owed(r)][s]
    BY <2>1
  <2>6. Service!Deliver(s)
    BY <1>4, <2>2, <2>3, <2>4, <2>5 DEF Service!Deliver
  <2> QED
    BY <2>6
<1>5. ASSUME NEW p \in Publishers, SendSequential(p) PROVE \E s \in Subscribers : Service!Deliver(s)
  BY <1>4, <1>5, LoopDelivers DEF SendSequential, jobVars, threadVars
<1>6. ASSUME NEW t \in senders, SendParallel(t) PROVE \E s \in Subscribers : Service!Deliver(s)
  BY <1>4, <1>6, ThreadDelivers DEF SendParallel, jobVars, threadVars
<1>7. ASSUME NEW p \in Publishers, LockRound(p) \/ SpawnSender(p) \/ FinishPublish(p)
      PROVE  UNCHANGED Service!vars
  <2>1. UNCHANGED <<sent, delivered, bye>> /\ \A s \in Subscribers : pc'[s] = pc[s]
    BY <1>7, ConstantsAssumption DEF LockRound, SpawnSender, FinishPublish, jobVars, clientVars, threadVars,
           IdsInv, Inv, TypeOK, Clients
  <2>2. OwedTheSame
    BY <1>7, OwedUnderLocks, OwedUnderSpawn
  <2> QED
    BY <1>1, <2>1, <2>2
<1>8. ASSUME NEW t \in senders, EnterBarrier(t) \/ LeaveBarrier(t) \/ SpuriousWakeup(t)
      PROVE  UNCHANGED Service!vars
  <2>1. UNCHANGED <<sent, delivered, bye, pc>>
    BY <1>8 DEF EnterBarrier, LeaveBarrier, SpuriousWakeup, jobVars, registryVars, clientVars, threadVars
  <2> QED
    BY <1>1, <1>8, <2>1, OwedUnderBarrier
<1>9. CASE UNCHANGED vars
  <2>1. UNCHANGED <<sent, delivered, bye, pc, next, total, senders, tableVars>>
    BY <1>9 DEF vars, registryVars, clientVars, threadVars, deliveryVars
  <2>2. /\ \A q \in Publishers : \A s : Pending(q, s)' <=> Pending(q, s)
        /\ \A m, s : Carried(m, s)' <=> Carried(m, s)
        /\ \A q \in Publishers : LastMessage(q)' = LastMessage(q)
    BY <2>1 DEF Pending, Carried, LastMessage, tableVars, FdOf, CellAt, TopicId, get_topic_id
  <2> QED
    BY <1>1, <2>1, <2>2, OwedKept
<1>10. LeavingBetween
  BY DEF NobodyDies
<1> QED
  BY <1>2, <1>3, <1>5, <1>6, <1>7, <1>8, <1>9, <1>10, CalmSteps DEF Calm, Service!Next

(***************************************************************************)
(* The broker is the publish / subscribe service of PubSub: every step of  *)
(* it, in any mode and with any number of clients, joins, leaves, posts or *)
(* delivers there, or changes nothing there, when clients leave only       *)
(* between messages and none dies.  So whoever is served when              *)
(* num_subscribers is read gets that message at most once, and nobody else *)
(* does: an entry written but not counted is not owed it.                  *)
(***************************************************************************)
THEOREM ServesAsPubSub ==
    ASSUME OneAtATime, RoomForSubscribers, Crashers = {}
    PROVE  BrokerSpec => Service!Spec
<1>1. NobodyDies
  BY DEF NobodyDies, LeavingBetween, PublishersStay
<1>2. CalmInv /\ [BrokerNext]_vars => [Service!Next]_Service!vars
  <2> SUFFICES ASSUME CalmInv, [BrokerNext]_vars PROVE [Service!Next]_Service!vars
    OBVIOUS
  <2>1. DInv /\ DInv' /\ Calm
    BY <1>1, DInvStep DEF CalmInv, NobodyDies
  <2> QED
    BY <1>1, <2>1, ServiceStep
<1> QED
  BY <1>2, CalmInvAtStart, CalmInvStep, ServiceStarts, PTL DEF BrokerSpec, Service!Spec
=============================================================================
