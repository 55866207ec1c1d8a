-------------------------- MODULE TopicTable_proofs --------------------------
(***************************************************************************)
(* For any clients, topics and limits: the broker's table keeps topics and *)
(* ids apart, whatever registrations and unregistrations interleave; and   *)
(* its lists are exact if clients leave one at a time.                     *)
(***************************************************************************)
EXTENDS TopicTable, FiniteSetTheorems, SequenceTheorems, WellFoundedInduction, TLAPS

\* A set of naturals that is not empty has a least element.
LEMMA LeastNatural ==
    ASSUME NEW S \in SUBSET Nat, S # {}
    PROVE  \E i \in S : \A j \in S : i <= j
<1>1. PICK i \in S : \A j \in S : ~(<<j, i>> \in OpToRel(<, Nat))
  BY NatLessThanWellFounded, WFMin, Zenon
<1>2. \A j \in S : ~(j < i)
  BY <1>1 DEF OpToRel
<1> QED
  BY <1>2

\* Where a client is searched for, the search ends at a position of the list
\* or at the limit.
LEMMA PositionInList ==
    ASSUME NEW c \in Clients, NEW id PROVE PositionOf(c, id) \in Nat
<1> DEFINE hits == {i \in 0 .. Limit(c) - 1 : cell[TopicId(c)][Base(c) + i].id = id}
<1>1. CASE hits = {}
  BY <1>1, ConstantsAssumption DEF PositionOf, Limit
<1>2. CASE hits # {}
  <2>1. hits \in SUBSET Nat
    BY ConstantsAssumption DEF Limit
  <2>2. \E i \in hits : \A j \in hits : i <= j
    BY <1>2, <2>1, LeastNatural
  <2>3. PositionOf(c, id) = CHOOSE i \in hits : \A j \in hits : i <= j
    BY <1>2 DEF PositionOf
  <2> HIDE DEF hits
  <2>4. PositionOf(c, id) \in hits
    BY <2>2, <2>3
  <2> QED
    BY <2>1, <2>4
<1> QED
  BY <1>1, <1>2

----------------------------------------------------------------------------
Exists(name) == \E k \in TopicIds : k < current_topics /\ topic_name[k] = name

\* get_topic_id finds a name that is in the table, and only such a name.
LEMMA GetTopicId ==
    ASSUME TypeOK, NamesDistinct, NEW name
    PROVE  /\ TopicExists(name) <=> Exists(name)
           /\ Exists(name) => /\ get_topic_id(name) \in TopicIds
                              /\ get_topic_id(name) < current_topics
                              /\ topic_name[get_topic_id(name)] = name
           /\ ~Exists(name) => get_topic_id(name) = current_topics
<1> DEFINE First(k) == /\ k < current_topics /\ topic_name[k] = name
                       /\ \A j \in TopicIds : j < k => topic_name[j] # name
<1>1. current_topics \in Nat
  BY ConstantsAssumption DEF TypeOK
<1>2. ASSUME Exists(name) PROVE \E k \in TopicIds : First(k)
  BY <1>1, <1>2, ConstantsAssumption DEF Exists, NamesDistinct, TopicIds
<1>3. ASSUME Exists(name)
      PROVE  get_topic_id(name) \in TopicIds /\ First(get_topic_id(name))
  <2>1. get_topic_id(name) = CHOOSE k \in TopicIds : First(k)
    BY <1>3 DEF Exists, get_topic_id
  <2> HIDE DEF First
  <2> QED
    BY <1>2, <1>3, <2>1
<1>4. ASSUME ~Exists(name) PROVE get_topic_id(name) = current_topics
  BY <1>4 DEF Exists, get_topic_id
<1> QED
  BY <1>1, <1>3, <1>4 DEF TopicExists

\* The thread of a client works with the lists only once its topic is there.
Registered == {"serving"} \cup Registering \cup Unregistering \cup Publishing
Placed == \A c \in Clients : pc[c] \in Registered => Exists(TopicOf[c])

Table == NamesDistinct /\ Placed /\ SocketsInTheirTopic
Inv == TypeOK /\ Table

\* A thread at work on the lists works on its own topic's.
LEMMA TopicOfThread ==
    ASSUME TypeOK, Table, NEW c \in Clients, pc[c] \in Registered
    PROVE  /\ TopicId(c) \in TopicIds /\ TopicId(c) < current_topics
           /\ topic_name[TopicId(c)] = TopicOf[c]
BY GetTopicId DEF Table, Placed, TopicId

\* The two arrays hold entries, whatever index is read or written.
LEMMA Entries ==
    ASSUME cell \in [TopicIds -> [Cells -> Entry]], NEW k \in TopicIds, NEW i
    PROVE  /\ CellAt(k, i) \in Entry
           /\ \A e \in Entry : WithCell(k, i, e) \in [TopicIds -> [Cells -> Entry]]
BY DEF CellAt, WithCell, Unwritten, Entry

----------------------------------------------------------------------------
\* The operators that say what a list entry or an answer is.
LEMMA Answers == ASSUME NEW i \in Int PROVE OK(i) \in Response
BY DEF OK, Response

\* A response goes to one client, or ends the broker.
LEMMA TypeOfSendResponse ==
    ASSUME TypeOK, NEW fd \in Clients \cup {NoSocket}, NEW r \in Response, SendResponse(fd, r)
    PROVE  broker' \in {"up", "down"} /\ inbox' \in [Clients -> Seq(Response)]
<1>1. broker' \in {"up", "down"}
  BY DEF SendResponse, BrokerAfterSend
<1>2. CASE Open(fd)
  <2>1. fd \in Clients
    BY <1>2 DEF Open
  <2>2. Append(inbox[fd], r) \in Seq(Response)
    BY <2>1 DEF TypeOK
  <2> QED
    BY <1>1, <1>2, <2>1, <2>2 DEF TypeOK, SendResponse
<1>3. CASE ~Open(fd)
  BY <1>1, <1>3 DEF TypeOK, SendResponse
<1> QED
  BY <1>2, <1>3

\* A count is replaced by a count.
LEMMA TypeOfCount ==
    ASSUME num \in [TopicIds -> [Kinds -> Int]], NEW k \in TopicIds, NEW kind, NEW n \in Int
    PROVE  [num EXCEPT ![k][kind] = n] \in [TopicIds -> [Kinds -> Int]]
OBVIOUS

\* Users and client processes.
LEMMA TypeOfClientSteps ==
    ASSUME TypeOK, NEW c \in Clients, User(c) \/ ClientStep(c)
    PROVE  TypeOK'
<1>1. CASE Connect(c)
  BY <1>1 DEF TypeOK, Connect, ClientStates, ThreadStates, tableVars
<1>2. CASE HandleResponse(c)
  <2>1. Head(inbox[c]) \in Response /\ Tail(inbox[c]) \in Seq(Response)
    BY <1>2 DEF TypeOK, HandleResponse
  <2> QED
    BY <1>2, <2>1 DEF TypeOK, HandleResponse, Response, ClientStates, threadVars, tableVars
<1>3. CASE Interrupt(c)
  BY <1>3 DEF TypeOK, Interrupt, ClientStates, threadVars, tableVars
<1>4. CASE HandlerReads(c)
  <2>1. Tail(inbox[c]) \in Seq(Response)
    BY <1>4 DEF TypeOK, HandlerReads
  <2> QED
    BY <1>4, <2>1 DEF TypeOK, HandlerReads, ClientStates, threadVars, tableVars
<1>5. CASE Crash(c)
  BY <1>5 DEF TypeOK, Crash, ClientStates, threadVars, tableVars
<1> QED
  BY <1>1, <1>2, <1>3, <1>4, <1>5 DEF User, ClientStep

\* Registration.
LEMMA TypeOfRegistration ==
    ASSUME TypeOK, Table, NEW c \in Clients,
           \/ RegisterSubscriber(c) \/ RegisterPublisher(c) \/ Enlist(c) \/ Respond(c)
           \/ RefuseSubscriber(c) \/ RefusePublisher(c) \/ CountRead(c) \/ CountWrite(c)
    PROVE  TypeOK'
<1> USE ConstantsAssumption
<1>1. CASE RegisterSubscriber(c)
  <2>1. TopicId(c) \in TopicIds /\ current_topics \in TopicIds
    <3>1. current_topics \in Nat /\ current_topics < MaxTopics
      BY <1>1 DEF TypeOK, RegisterSubscriber
    <3>2. current_topics \in TopicIds
      BY <3>1 DEF TopicIds
    <3>3. TopicId(c) \in TopicIds \/ TopicId(c) = current_topics
      BY GetTopicId DEF Table, TopicId
    <3> QED
      BY <3>2, <3>3
  <2>2. FirstUnused(c) \in Int
    <3>1. num[TopicId(c)] \in [Kinds -> Int]
      BY <2>1 DEF TypeOK
    <3> QED
      BY <3>1 DEF FirstUnused, Kind, Kinds
  <2>3. current_topics' \in 0 .. MaxTopics
    <3>1. current_topics \in Nat /\ current_topics < MaxTopics
      BY <1>1 DEF TypeOK, RegisterSubscriber
    <3>2. current_topics' \in {current_topics, current_topics + 1}
      BY <1>1 DEF RegisterSubscriber
    <3> QED
      BY <3>1, <3>2
  <2>4. topic_name' \in [TopicIds -> Topics \cup {NoOne}]
    BY <1>1, <2>1 DEF TypeOK, RegisterSubscriber
  <2> QED
    BY <1>1, <2>2, <2>3, <2>4 DEF TypeOK, RegisterSubscriber, ThreadStates, Registering, clientVars
<1>2. CASE RegisterPublisher(c)
  <2>1. TopicId(c) \in TopicIds
    BY <1>2, GetTopicId DEF Table, RegisterPublisher, TopicId
  <2>2. FirstUnused(c) \in Int
    BY <2>1 DEF TypeOK, FirstUnused, Kind, Kinds
  <2> QED
    BY <1>2, <2>2 DEF TypeOK, RegisterPublisher, ThreadStates, Registering, clientVars
<1>3. CASE RefuseSubscriber(c) \/ RefusePublisher(c)
  <2>1. PICK status \in {"ERROR", "LIMIT"} : Refuse(c, status)
    BY <1>3 DEF RefuseSubscriber, RefusePublisher
  <2>2. broker' \in {"up", "down"} /\ inbox' \in [Clients -> Seq(Response)]
    <3>1. Refusal(status) \in Response
      BY <2>1 DEF Refusal, Response
    <3> QED
      BY <2>1, <3>1, TypeOfSendResponse DEF Refuse
  <2> QED
    BY <2>1, <2>2 DEF TypeOK, Refuse, ThreadStates, tableVars
<1>4. CASE Enlist(c)
  <2>1. TopicId(c) \in TopicIds
    BY <1>4, TopicOfThread DEF Enlist, Registered, Registering
  <2>2. NewId(c) \in Nat /\ Kind(c) \in Kinds
    BY DEF TypeOK, NewId, Kind, Kinds
  <2>3. [id |-> NewId(c), fd |-> c] \in Entry
    BY <2>2 DEF Entry
  <2>4. cell' \in [TopicIds -> [Cells -> Entry]]
    BY <1>4, <2>1, <2>3, Entries DEF TypeOK, Enlist
  <2>5. next_id' \in [Kinds -> Nat]
    BY <1>4, <2>2 DEF TypeOK, Enlist
  <2> QED
    BY <1>4, <2>4, <2>5 DEF TypeOK, Enlist, ThreadStates, Registering, clientVars
<1>7. CASE Respond(c)
  <2>1. next_id[Kind(c)] - 1 \in Int
    BY DEF TypeOK, Kind, Kinds
  <2>2. broker' \in {"up", "down"} /\ inbox' \in [Clients -> Seq(Response)]
    BY <1>7, <2>1, Answers, TypeOfSendResponse DEF Respond
  <2> QED
    BY <1>7, <2>2 DEF TypeOK, Respond, ThreadStates, Registering, tableVars
<1>5. CASE CountRead(c)
  <2>1. num[TopicId(c)][Kind(c)] \in Int
    BY <1>5, TopicOfThread DEF TypeOK, CountRead, ReadCount, Registered, Registering, Kind, Kinds
  <2> QED
    BY <1>5, <2>1 DEF TypeOK, CountRead, ReadCount, ThreadStates, Registering, clientVars, tableVars
<1>6. CASE CountWrite(c)
  <2>1. num' \in [TopicIds -> [Kinds -> Int]]
    <3>1. pc[c] \in Registered
      BY <1>6 DEF CountWrite, Registered, Registering
    <3>2. TopicId(c) \in TopicIds
      BY <3>1, TopicOfThread
    <3>3. val[c] + 1 \in Int
      BY DEF TypeOK
    <3> QED
      BY <1>6, <3>2, <3>3, TypeOfCount DEF TypeOK, CountWrite
  <2> QED
    BY <1>6, <2>1 DEF TypeOK, CountWrite, ThreadStates, clientVars
<1> QED
  BY <1>1, <1>2, <1>3, <1>4, <1>5, <1>6, <1>7

\* Unregistration and the end of a thread.
LEMMA TypeOfUnregistration ==
    ASSUME TypeOK, Table, NEW c \in Clients,
           \/ FindClient(c) \/ ShiftClient(c) \/ AnswerUnregister(c)
           \/ UncountRead(c) \/ UncountWrite(c) \/ EndOfFile(c)
    PROVE  TypeOK'
<1> USE ConstantsAssumption
<1>1. CASE FindClient(c)
  <2>1. TopicId(c) \in TopicIds
    BY <1>1, TopicOfThread DEF FindClient, Registered
  <2>2. PositionOf(c, bye[c]) \in Nat
    BY PositionInList
  <2>3. FdsAt(c, PositionOf(c, bye[c])) \subseteq Clients \cup {NoSocket}
    <3>1. CellAt(TopicId(c), Base(c) + PositionOf(c, bye[c])) \in Entry
      BY <2>1, Entries DEF TypeOK
    <3> QED
      BY <3>1 DEF FdsAt, Entry
  <2> QED
    BY <1>1, <2>2, <2>3 DEF TypeOK, FindClient, ThreadStates, Unregistering, clientVars, tableVars
<1>2. CASE ShiftClient(c)
  <2>1. TopicId(c) \in TopicIds
    BY <1>2, TopicOfThread DEF ShiftClient, Registered, Unregistering
  <2>2. cell' \in [TopicIds -> [Cells -> Entry]]
    BY <1>2, <2>1, Entries DEF TypeOK, ShiftClient, ShiftedLeft
  <2> QED
    BY <1>2, <2>2 DEF TypeOK, ShiftClient, clientVars
<1>3. CASE AnswerUnregister(c)
  <2>1. fd_to_del[c] \in Clients \cup {NoSocket} /\ bye[c] \in Int
    BY DEF TypeOK
  <2>2. broker' \in {"up", "down"} /\ inbox' \in [Clients -> Seq(Response)]
    BY <1>3, <2>1, Answers, TypeOfSendResponse DEF AnswerUnregister
  <2> QED
    BY <1>3, <2>2 DEF TypeOK, AnswerUnregister, ThreadStates, Unregistering, tableVars
<1>4. CASE UncountRead(c)
  <2>1. num[TopicId(c)][Kind(c)] \in Int
    BY <1>4, TopicOfThread DEF TypeOK, UncountRead, ReadCount, Registered, Unregistering, Kind, Kinds
  <2> QED
    BY <1>4, <2>1 DEF TypeOK, UncountRead, ReadCount, ThreadStates, Unregistering, clientVars, tableVars
<1>5. CASE UncountWrite(c)
  <2>1. num' \in [TopicIds -> [Kinds -> Int]]
    <3>1. pc[c] \in Registered
      BY <1>5 DEF UncountWrite, Registered, Unregistering
    <3>2. TopicId(c) \in TopicIds
      BY <3>1, TopicOfThread
    <3>3. val[c] - 1 \in Int
      BY DEF TypeOK
    <3> QED
      BY <1>5, <3>2, <3>3, TypeOfCount DEF TypeOK, UncountWrite
  <2> QED
    BY <1>5, <2>1 DEF TypeOK, UncountWrite, ThreadStates, clientVars
<1>6. CASE EndOfFile(c)
  BY <1>6 DEF TypeOK, EndOfFile, ThreadStates, clientVars, tableVars
<1> QED
  BY <1>1, <1>2, <1>3, <1>4, <1>5, <1>6

----------------------------------------------------------------------------
\* Registration and the copy loop are what changes names and lists.
LEMMA TableOfRegisterSubscriber ==
    ASSUME TypeOK, Table, NEW c \in Clients, RegisterSubscriber(c)
    PROVE  Table'
<1> USE ConstantsAssumption
<1>1. current_topics \in Nat /\ current_topics \in TopicIds /\ TopicOf[c] \in Topics
  <2>1. current_topics \in Nat /\ current_topics < MaxTopics
    BY DEF TypeOK, RegisterSubscriber
  <2> QED
    BY <2>1 DEF TopicIds
<1>2. UNCHANGED cell /\ pc' = [pc EXCEPT ![c] = "enlist"]
  BY DEF RegisterSubscriber
<1>3. CASE TopicExists(TopicOf[c])
  <2>1. UNCHANGED <<current_topics, topic_name>> /\ Exists(TopicOf[c])
    BY <1>3, GetTopicId DEF Table, RegisterSubscriber
  <2>2. Placed'
    BY <1>2, <2>1 DEF TypeOK, Table, Placed, Exists
  <2> QED
    BY <1>2, <2>1, <2>2 DEF Table, NamesDistinct, SocketsInTheirTopic
<1>4. CASE ~TopicExists(TopicOf[c])
  <2>1. /\ current_topics' = current_topics + 1
        /\ topic_name' = [topic_name EXCEPT ![current_topics] = TopicOf[c]]
    BY <1>4 DEF RegisterSubscriber
  <2>2. \A k \in TopicIds : k < current_topics => topic_name[k] # TopicOf[c]
    BY <1>4, GetTopicId DEF Table, Exists
  <2>3. /\ \A k \in TopicIds : k < current_topics => topic_name'[k] = topic_name[k]
        /\ topic_name'[current_topics] = TopicOf[c]
    BY <1>1, <2>1 DEF TypeOK, TopicIds
  <2>4. NamesDistinct'
    BY <1>1, <2>1, <2>2, <2>3 DEF Table, NamesDistinct, TopicIds
  <2>5. Exists(TopicOf[c])' /\ \A name : Exists(name) => Exists(name)'
    BY <1>1, <2>1, <2>3 DEF Exists, TopicIds
  <2>6. Placed'
    BY <1>2, <2>5 DEF TypeOK, Table, Placed
  <2>7. SocketsInTheirTopic'
    BY <1>1, <1>2, <2>1, <2>3 DEF Table, SocketsInTheirTopic, TopicIds
  <2> QED
    BY <2>4, <2>6, <2>7 DEF Table
<1> QED
  BY <1>3, <1>4

\* A thread writes its own entry, and moves entries within its topic's lists.
LEMMA TableOfLists ==
    ASSUME TypeOK, Table, NEW c \in Clients, Enlist(c) \/ ShiftClient(c)
    PROVE  Table'
<1> USE ConstantsAssumption
<1>1. TopicId(c) \in TopicIds /\ TopicId(c) < current_topics /\ topic_name[TopicId(c)] = TopicOf[c]
  BY TopicOfThread DEF Enlist, ShiftClient, Registered, Registering, Unregistering
<1>2. UNCHANGED <<current_topics, topic_name>>
  BY DEF Enlist, ShiftClient
<1>3. \A d \in Clients : pc'[d] \in Registered => pc[d] \in Registered
  BY DEF TypeOK, Enlist, ShiftClient, Registered, Registering
<1>4. \E i, e : /\ cell' = WithCell(TopicId(c), i, e)
                /\ e.fd = c \/ \E j : e = CellAt(TopicId(c), j)
  <2>1. CASE Enlist(c)
    BY <2>1 DEF Enlist
  <2>2. CASE ShiftClient(c)
    BY <2>2 DEF ShiftClient, ShiftedLeft
  <2> QED
    BY <2>1, <2>2
<1>5. SocketsInTheirTopic'
  <2>1. PICK i, e : /\ cell' = WithCell(TopicId(c), i, e)
                    /\ e.fd = c \/ \E j : e = CellAt(TopicId(c), j)
    BY <1>4
  <2>2. e.fd = NoSocket \/ topic_name[TopicId(c)] = TopicOf[e.fd]
    BY <1>1, <2>1 DEF Table, SocketsInTheirTopic, CellAt, Unwritten
  <2>3. \A k \in TopicIds, j \in Cells :
            cell'[k][j] = cell[k][j] \/ (k = TopicId(c) /\ cell'[k][j] = e)
    BY <1>1, <2>1 DEF TypeOK, WithCell
  <2> QED
    BY <1>1, <1>2, <2>2, <2>3 DEF Table, SocketsInTheirTopic
<1>6. NamesDistinct' /\ Placed'
  BY <1>2, <1>3 DEF Table, NamesDistinct, Placed, Exists
<1> QED
  BY <1>5, <1>6 DEF Table

\* Nothing else does: a thread's topic was there before it went on.
LEMMA TableStep ==
    ASSUME TypeOK, Table, [Next]_registryVars
    PROVE  Table'
<1>1. ASSUME UNCHANGED <<current_topics, topic_name, cell>>,
             \A d \in Clients : pc'[d] \in Registered => pc[d] \in Registered \/ Exists(TopicOf[d])
      PROVE  Table'
  BY <1>1 DEF Table, NamesDistinct, Placed, SocketsInTheirTopic, Exists
<1>2. ASSUME NEW c \in Clients, User(c) \/ ClientStep(c) PROVE Table'
  <2>1. UNCHANGED tableVars /\ (UNCHANGED pc \/ pc' = [pc EXCEPT ![c] = "recv_register"])
    BY <1>2 DEF User, ClientStep, Connect, Interrupt, Crash, HandleResponse, HandlerReads, threadVars
  <2> QED
    BY <1>1, <2>1 DEF TypeOK, tableVars, Registered, Registering, Unregistering, Publishing
<1>3. ASSUME NEW c \in Clients, RegisterPublisher(c) PROVE Table'
  <2>1. Exists(TopicOf[c])
    BY <1>3, GetTopicId DEF Table, RegisterPublisher
  <2> QED
    BY <1>1, <1>3, <2>1 DEF TypeOK, RegisterPublisher
<1>4. ASSUME NEW c \in Clients, RefuseSubscriber(c) \/ RefusePublisher(c) PROVE Table'
  BY <1>1, <1>4 DEF TypeOK, RefuseSubscriber, RefusePublisher, Refuse, tableVars,
                    Registered, Registering, Unregistering, Publishing
<1>5. ASSUME NEW c \in Clients, CountRead(c) \/ UncountRead(c) PROVE Table'
  BY <1>1, <1>5 DEF TypeOK, CountRead, UncountRead, ReadCount, tableVars,
                    Registered, Registering, Unregistering
<1>6. ASSUME NEW c \in Clients, CountWrite(c) \/ UncountWrite(c) PROVE Table'
  BY <1>1, <1>6 DEF TypeOK, CountWrite, UncountWrite, Registered, Registering, Unregistering, Publishing
<1>7. ASSUME NEW c \in Clients,
             Respond(c) \/ FindClient(c) \/ AnswerUnregister(c) \/ EndOfFile(c)
      PROVE  Table'
  BY <1>1, <1>7 DEF TypeOK, Respond, FindClient, AnswerUnregister, EndOfFile, tableVars,
                    Registered, Registering, Unregistering, Publishing
<1>8. CASE UNCHANGED registryVars
  BY <1>1, <1>8 DEF registryVars, tableVars, threadVars
<1> QED
  BY <1>2, <1>3, <1>4, <1>5, <1>6, <1>7, <1>8, TableOfRegisterSubscriber, TableOfLists
     DEF Next, ThreadStep

\* The inductive invariant.
LEMMA InvStep == Inv /\ [Next]_registryVars => Inv'
<1> SUFFICES ASSUME TypeOK, Table, [Next]_registryVars PROVE TypeOK'
  BY TableStep DEF Inv
<1>1. CASE UNCHANGED registryVars
  BY <1>1 DEF TypeOK, registryVars, clientVars, threadVars, tableVars
<1>2. CASE Next
  BY <1>2, TypeOfClientSteps, TypeOfRegistration, TypeOfUnregistration DEF Next, ThreadStep
<1> QED
  BY <1>1, <1>2

\* The empty table satisfies it.
LEMMA InvAtStart == Init => Inv
<1> SUFFICES ASSUME Init PROVE TypeOK /\ Table
  BY DEF Inv
<1> USE ConstantsAssumption
<1>1. \A c \in Clients : <<>> \in Seq(Response)
  OBVIOUS
<1>2. TypeOK
  BY <1>1 DEF Init, TypeOK, ClientStates, ThreadStates, NotSent, Entry, Unwritten, Kinds
<1>3. Table
  BY DEF Init, Table, NamesDistinct, Placed, SocketsInTheirTopic, Unwritten, TopicIds,
         Registered, Registering, Unregistering, Publishing
<1> QED
  BY <1>2, <1>3

(***************************************************************************)
(* Every variable of the table, the threads and the clients keeps its      *)
(* type; an index is never used for a topic that is not in the table.      *)
(***************************************************************************)
THEOREM TypesAreKept == Spec => []TypeOK
<1>1. Inv => TypeOK
  BY DEF Inv
<1> QED
  BY <1>1, InvAtStart, InvStep, PTL DEF Spec

(***************************************************************************)
(* create_topic never enters a name twice, and no list of a topic ever     *)
(* holds the socket of a client of another, although unregister moves      *)
(* entries with no lock while others register.                             *)
(***************************************************************************)
THEOREM TopicsAreIsolated == Spec => []TopicIsolation
<1>1. Inv => TopicIsolation
  BY DEF Inv, Table, TopicIsolation
<1> QED
  BY <1>1, InvAtStart, InvStep, PTL DEF Spec
----------------------------------------------------------------------------
(* Ids.  A thread enlists its client once, with an id no entry has yet.    *)
NotEnlisted == {"idle", "recv_register", "enlist"}
IdsTaken ==
    /\ \A c \in Clients : client[c] = "idle" => pc[c] = "idle"
    /\ \A k \in TopicIds, i \in Cells :
          LET e == cell[k][i]
          IN  e.fd # NoSocket => pc[e.fd] \notin NotEnlisted /\ e.id < next_id[Kind(e.fd)]
IdsInv == Inv /\ IdsTaken /\ IdsNameOneClient

\* An entry found in the lists, or none.
LEMMA CopiesOfEntries ==
    ASSUME NEW k, NEW j
    PROVE  CellAt(k, j).fd = NoSocket \/ (j \in Cells /\ CellAt(k, j) = cell[k][j])
BY DEF CellAt, Unwritten

\* A new entry has an id above all others of its kind.
LEMMA IdsOfEnlist ==
    ASSUME TypeOK, Table, IdsTaken, IdsNameOneClient, NEW c \in Clients, Enlist(c)
    PROVE  (IdsTaken /\ IdsNameOneClient)'
<1> DEFINE new == [id |-> NewId(c), fd |-> c]
<1> USE ConstantsAssumption
<1>1. TopicId(c) \in TopicIds
  BY TopicOfThread DEF Enlist, Registered, Registering
<1>2. /\ pc' = [pc EXCEPT ![c] = "respond"]
      /\ next_id' = [next_id EXCEPT ![Kind(c)] = @ + 1]
      /\ UNCHANGED client
      /\ pc[c] = "enlist"
  BY DEF Enlist, clientVars
<1>3. NewId(c) = next_id[Kind(c)] /\ NewId(c) \in Nat /\ \A d \in Clients : Kind(d) \in Kinds
  BY DEF TypeOK, NewId, Kind, Kinds
<1>4. \A k \in TopicIds, i \in Cells : cell'[k][i] = cell[k][i] \/ cell'[k][i] = new
  <2>1. cell' = WithCell(TopicId(c), Base(c) + at[c], new)
    BY DEF Enlist
  <2> QED
    BY <1>1, <2>1 DEF TypeOK, WithCell
<1>5. \A k \in TopicIds, i \in Cells : cell[k][i] \in Entry
  BY DEF TypeOK
<1>6. \A k \in TopicIds, i \in Cells :
          cell[k][i].fd # NoSocket =>
            /\ cell[k][i].fd \in Clients
            /\ cell[k][i].fd # c
            /\ cell[k][i].id \in Int
            /\ cell[k][i].id < next_id[Kind(cell[k][i].fd)]
            /\ pc[cell[k][i].fd] \notin NotEnlisted
  BY <1>2, <1>5 DEF IdsTaken, Entry, NotEnlisted
<1>7. \A d \in Clients : /\ next_id[Kind(d)] \in Nat /\ next_id'[Kind(d)] \in Nat
                         /\ next_id[Kind(d)] <= next_id'[Kind(d)]
  BY <1>2, <1>3 DEF TypeOK
<1>8. next_id'[Kind(c)] = NewId(c) + 1
  BY <1>2, <1>3 DEF TypeOK
<1>9. IdsTaken'
  <2>1. \A d \in Clients : client'[d] = "idle" => pc'[d] = "idle"
    BY <1>2 DEF TypeOK, IdsTaken
  <2>2. ASSUME NEW k \in TopicIds, NEW i \in Cells, cell'[k][i].fd # NoSocket
        PROVE  /\ pc'[cell'[k][i].fd] \notin NotEnlisted
               /\ cell'[k][i].id < next_id'[Kind(cell'[k][i].fd)]
    <3>1. CASE cell'[k][i] = new
      BY <1>2, <1>3, <1>8, <3>1 DEF TypeOK, NotEnlisted
    <3>2. CASE cell'[k][i] = cell[k][i]
      <4>1. pc'[cell[k][i].fd] = pc[cell[k][i].fd]
        BY <1>2, <1>6, <2>2, <3>2 DEF TypeOK
      <4> QED
        BY <1>6, <1>7, <2>2, <3>2, <4>1
    <3> QED
      BY <1>4, <3>1, <3>2
  <2> QED
    BY <2>1, <2>2 DEF IdsTaken, Kind
<1>10. IdsNameOneClient'
  <2>1. ASSUME NEW k \in TopicIds, NEW i \in Cells, NEW l \in TopicIds, NEW j \in Cells,
               cell'[k][i].fd # NoSocket, cell'[l][j].fd # NoSocket,
               Kind(cell'[k][i].fd) = Kind(cell'[l][j].fd)
        PROVE  cell'[k][i].id = cell'[l][j].id <=> cell'[k][i].fd = cell'[l][j].fd
    <3>1. CASE cell'[k][i] = cell[k][i] /\ cell'[l][j] = cell[l][j]
      BY <2>1, <3>1 DEF IdsNameOneClient
    <3>2. CASE cell'[k][i] = new /\ cell'[l][j] = new
      BY <3>2
    <3>3. CASE cell'[k][i] = new /\ cell'[l][j] = cell[l][j]
      BY <1>3, <1>6, <2>1, <3>3
    <3>4. CASE cell'[k][i] = cell[k][i] /\ cell'[l][j] = new
      BY <1>3, <1>6, <2>1, <3>4
    <3> QED
      BY <1>4, <3>1, <3>2, <3>3, <3>4
  <2> QED
    BY <2>1 DEF IdsNameOneClient, Kind
<1> QED
  BY <1>9, <1>10

\* A copy is a copy: of an entry that was there.
LEMMA IdsOfShift ==
    ASSUME TypeOK, Table, IdsTaken, IdsNameOneClient, NEW c \in Clients, ShiftClient(c)
    PROVE  (IdsTaken /\ IdsNameOneClient)'
<1>1. TopicId(c) \in TopicIds
  BY TopicOfThread DEF ShiftClient, Registered, Unregistering
<1>2. UNCHANGED <<pc, next_id, client>>
  BY DEF ShiftClient, clientVars
<1>3. \A k \in TopicIds, i \in Cells :
          cell'[k][i].fd # NoSocket => \E l \in TopicIds, j \in Cells : cell'[k][i] = cell[l][j]
  <2> DEFINE from == Base(c) + at[c] + 1
  <2>1. cell' = WithCell(TopicId(c), Base(c) + at[c], CellAt(TopicId(c), from))
    BY DEF ShiftClient, ShiftedLeft
  <2>2. \A k \in TopicIds, i \in Cells :
            cell'[k][i] = cell[k][i] \/ cell'[k][i] = CellAt(TopicId(c), from)
    BY <1>1, <2>1 DEF TypeOK, WithCell
  <2> QED
    BY <1>1, <2>2, CopiesOfEntries
<1>4. IdsTaken'
  BY <1>2, <1>3 DEF IdsTaken, Kind
<1>5. IdsNameOneClient'
  <2>1. ASSUME NEW k \in TopicIds, NEW i \in Cells, NEW l \in TopicIds, NEW j \in Cells,
               cell'[k][i].fd # NoSocket, cell'[l][j].fd # NoSocket,
               Kind(cell'[k][i].fd) = Kind(cell'[l][j].fd)
        PROVE  cell'[k][i].id = cell'[l][j].id <=> cell'[k][i].fd = cell'[l][j].fd
    <3>1. PICK k0 \in TopicIds, i0 \in Cells : cell'[k][i] = cell[k0][i0]
      BY <1>3, <2>1
    <3>2. PICK l0 \in TopicIds, j0 \in Cells : cell'[l][j] = cell[l0][j0]
      BY <1>3, <2>1
    <3> QED
      BY <2>1, <3>1, <3>2 DEF IdsNameOneClient
  <2> QED
    BY <2>1 DEF IdsNameOneClient, Kind
<1> QED
  BY <1>4, <1>5

\* The other steps leave the lists and the ids alone, and no thread goes back
\* to where its client is not enlisted yet.
LEMMA IdsStep == IdsInv /\ [Next]_registryVars => IdsInv'
<1> SUFFICES ASSUME TypeOK, Table, IdsTaken, IdsNameOneClient, [Next]_registryVars
             PROVE  (IdsTaken /\ IdsNameOneClient)'
  BY InvStep DEF IdsInv, Inv
<1>1. ASSUME UNCHANGED <<cell, next_id>>,
             \A d \in Clients : /\ client'[d] = "idle" => pc'[d] = "idle"
                                /\ pc'[d] \in NotEnlisted => pc[d] \in NotEnlisted
      PROVE  (IdsTaken /\ IdsNameOneClient)'
  <2>1. IdsNameOneClient'
    BY <1>1 DEF IdsNameOneClient, Kind
  <2>2. \A k \in TopicIds, i \in Cells : cell[k][i].fd # NoSocket => cell[k][i].fd \in Clients
    BY DEF TypeOK, Entry
  <2>3. IdsTaken'
    BY <1>1, <2>2 DEF IdsTaken, Kind
  <2> QED
    BY <2>1, <2>3
<1>2. ASSUME NEW c \in Clients, User(c) \/ ClientStep(c)
      PROVE  (IdsTaken /\ IdsNameOneClient)'
  <2>1. UNCHANGED <<cell, next_id>>
    BY <1>2 DEF User, ClientStep, Connect, Interrupt, Crash, HandleResponse, HandlerReads, tableVars
  <2>2. CASE Connect(c)
    BY <1>1, <2>1, <2>2 DEF TypeOK, IdsTaken, Connect, NotEnlisted
  <2>3. CASE Interrupt(c) \/ Crash(c)
    BY <1>1, <2>1, <2>3 DEF TypeOK, IdsTaken, Interrupt, Crash, threadVars
  <2>4. CASE HandleResponse(c) \/ HandlerReads(c)
    BY <1>1, <2>1, <2>4 DEF TypeOK, IdsTaken, HandleResponse, HandlerReads, threadVars
  <2> QED
    BY <1>2, <2>2, <2>3, <2>4 DEF User, ClientStep
<1>3. ASSUME NEW c \in Clients, UNCHANGED <<cell, next_id, client>>, pc[c] # "idle",
             NEW to, pc' = [pc EXCEPT ![c] = to],
             to \in NotEnlisted => pc[c] \in NotEnlisted
      PROVE  (IdsTaken /\ IdsNameOneClient)'
  BY <1>1, <1>3 DEF TypeOK, IdsTaken
<1>4. ASSUME NEW c \in Clients, RegisterSubscriber(c) \/ RegisterPublisher(c)
      PROVE  (IdsTaken /\ IdsNameOneClient)'
  BY <1>3, <1>4 DEF RegisterSubscriber, RegisterPublisher, ReceivesRegister, NotEnlisted, clientVars
<1>5. ASSUME NEW c \in Clients, RefuseSubscriber(c) \/ RefusePublisher(c)
      PROVE  (IdsTaken /\ IdsNameOneClient)'
  BY <1>3, <1>5 DEF RefuseSubscriber, RefusePublisher, ReceivesRegister, Refuse, NotEnlisted, tableVars
<1>6. ASSUME NEW c \in Clients, CountRead(c) \/ UncountRead(c) \/ CountWrite(c) \/ UncountWrite(c)
      PROVE  (IdsTaken /\ IdsNameOneClient)'
  BY <1>3, <1>6 DEF CountRead, UncountRead, ReadCount, CountWrite, UncountWrite, NotEnlisted,
                    clientVars, tableVars
<1>7. ASSUME NEW c \in Clients,
             Respond(c) \/ FindClient(c) \/ AnswerUnregister(c) \/ EndOfFile(c)
      PROVE  (IdsTaken /\ IdsNameOneClient)'
  BY <1>3, <1>7 DEF Respond, FindClient, AnswerUnregister, EndOfFile, NotEnlisted, clientVars, tableVars
<1>8. CASE UNCHANGED registryVars
  BY <1>1, <1>8 DEF IdsTaken, registryVars, clientVars, threadVars, tableVars
<1> QED
  BY <1>2, <1>4, <1>5, <1>6, <1>7, <1>8, IdsOfEnlist, IdsOfShift DEF Next, ThreadStep

(***************************************************************************)
(* unregister may trust the id it is sent: however copies of entries lie   *)
(* about after overlapping shifts, an id stands for one client of a kind.  *)
(***************************************************************************)
THEOREM IdsNameClients == Spec => []IdsNameOneClient
<1>1. Init => IdsInv
  BY InvAtStart DEF Init, IdsInv, IdsTaken, IdsNameOneClient, Unwritten
<1>2. IdsInv => IdsNameOneClient
  BY DEF IdsInv
<1> QED
  BY <1>1, <1>2, IdsStep, PTL DEF Spec
----------------------------------------------------------------------------
(* Leaving one at a time.  The lists are followed through every step of a  *)
(* registration and of an unregistration.                                  *)

OneAtATime == "leave" \notin Overlap

\* The code does not enforce MAX_SUBSCRIBERS: it holds if nobody exceeds it.
SubscribersOf(t) == {s \in Subscribers : TopicOf[s] = t}
RoomForSubscribers ==
    \A t \in Topics :
        IsFiniteSet(SubscribersOf(t)) /\ Cardinality(SubscribersOf(t)) <= MaxSubscribers

Asking == {"recv_register", "enlist", "respond"}
Entered == {"respond", "count_read", "count_write"}   \* in the list, not counted yet
Serving == {"serving"} \cup Publishing

\* mutex3 keeps registrations apart, and users keep departures apart from
\* everything.
Phases ==
    /\ \A c \in Clients : pc[c] \in Registering <=> mutex3 = c
    /\ \A c \in Clients : pc[c] \in Unregistering => bye[c] # NotSent
    /\ \A c \in Clients : Leaving(c) =>
          /\ pc[c] \in {"serving"} \cup Unregistering
          /\ \A d \in Clients \ {c} : ~Leaving(d) /\ pc[d] \in {"idle", "gone"} \cup Serving

\* What a process has sent and may read, by where it and its thread are.
Life(c) ==
    /\ pc[c] \in Asking => client[c] = "registering" /\ inbox[c] = <<>>
    /\ client[c] = "idle" => pc[c] = "idle" /\ bye[c] = NotSent /\ inbox[c] = <<>>
    /\ client[c] = "registering" =>
          /\ bye[c] = NotSent
          /\ \/ pc[c] \in Asking
             \/ pc[c] \in {"count_read", "count_write"} \cup Serving
                /\ Len(inbox[c]) = 1 /\ Head(inbox[c]) = OK(Head(inbox[c]).id)
                /\ Head(inbox[c]).id \in Nat
             \/ pc[c] = "gone" /\ Len(inbox[c]) = 1
                /\ Head(inbox[c]) \in {Refusal("ERROR"), Refusal("LIMIT")}
    /\ client[c] = "active" =>
          /\ bye[c] = NotSent /\ inbox[c] = <<>> /\ client_id[c] \in Nat
          /\ pc[c] \in {"count_read", "count_write"} \cup Serving
    /\ client[c] = "leaving" =>
          /\ bye[c] \in Nat /\ pc[c] \in {"serving", "gone"} \cup Unregistering
          /\ inbox[c] = IF pc[c] \in {"serving", "shift"} THEN <<>> ELSE <<OK(bye[c])>>
    /\ client[c] = "closed" =>
          \/ /\ bye[c] = NotSent /\ client_id[c] \in Nat
             /\ pc[c] \in {"count_read", "count_write", "gone"} \cup Serving
          \/ bye[c] = NotSent /\ client_id[c] = -1 /\ pc[c] = "gone"
          \/ bye[c] \in Nat /\ pc[c] \in {"uncount_read", "uncount_write", "gone"}
    /\ pc[c] = "shift" => fd_to_del[c] = c
Lives == \A c \in Clients : Life(c)

\* An entry has the id its client has been told, or is about to be.
Tells(c, id) ==
    /\ id \in Nat
    /\ pc[c] = "respond" => id = next_id[Kind(c)] - 1
    /\ client[c] = "registering" /\ inbox[c] # <<>> => id = Head(inbox[c]).id
    /\ client[c] = "active" => id = client_id[c]
    /\ client[c] = "leaving" => id = bye[c]
Told ==
    \A k \in TopicIds, i \in Cells :
        cell[k][i].fd # NoSocket => Tells(cell[k][i].fd, cell[k][i].id)

\* Whose entry ought to be in a list: everyone's from Enlist to FindClient.
Member(c) == pc[c] \in Entered \cup Serving \/ DiedRegistered(c)
Rooted == \A c \in Clients : Member(c) => Exists(TopicOf[c])

BaseOf(kind) == IF kind = "sub" THEN 0 ELSE MaxSubscribers
LimitOf(kind) == IF kind = "sub" THEN MaxSubscribers ELSE MaxPublishers
EntryAt(k, kind, i) == cell[k][BaseOf(kind) + i]
On(c, k, kind) == Kind(c) = kind /\ topic_name[k] = TopicOf[c]
Positions == 0 .. MaxSubscribers + MaxPublishers

\* Where the copy loop has a position to overwrite, its own or the last one.
Hole(c, n) == IF at[c] < n THEN at[c] ELSE n - 1

\* The positions of a list that hold the members' entries: the counted ones,
\* one more from Enlist to CountWrite, one less during an unregistration.
InUse(k, kind, i) ==
    /\ \/ i < num[k][kind]
       \/ i = num[k][kind] /\ \E c \in Clients : On(c, k, kind) /\ pc[c] \in Entered
    /\ \A c \in Clients :
          On(c, k, kind) /\ pc[c] \in Unregistering => i # Hole(c, num[k][kind])

ListRight(k, kind) ==
    /\ num[k][kind] \in 0 .. LimitOf(kind)
    /\ kind = "pub" => num[k][kind] <= next_id["pub"]
    /\ \A i \in Positions : InUse(k, kind, i) =>
          /\ i < LimitOf(kind)
          /\ kind = "pub" => i < next_id["pub"]
          /\ EntryAt(k, kind, i).fd \in Clients
          /\ On(EntryAt(k, kind, i).fd, k, kind) /\ Member(EntryAt(k, kind, i).fd)
    /\ \A c \in Clients : On(c, k, kind) /\ Member(c) =>
          \E i \in Positions : InUse(k, kind, i) /\ EntryAt(k, kind, i).fd = c
    /\ \A i, j \in Positions : InUse(k, kind, i) /\ InUse(k, kind, j) /\ i < j =>
          EntryAt(k, kind, i).id < EntryAt(k, kind, j).id
Lists ==
    \A k \in TopicIds, kind \in Kinds :
        IF k < current_topics THEN ListRight(k, kind) ELSE num[k][kind] = 0

\* What a thread at work on a list remembers of it.
Remembers(c, k) ==
    LET n == num[k][Kind(c)]
    IN  /\ pc[c] = "enlist" => at[c] = n /\ n < LimitOf(Kind(c))
        /\ pc[c] \in {"count_write", "uncount_write"} => val[c] = n
        /\ pc[c] \in Unregistering => n >= 1 /\ at[c] \in Nat
        /\ pc[c] \in {"uncount_read", "uncount_write"} => at[c] >= LimitOf(Kind(c))
AtWork ==
    \A c \in Clients, k \in TopicIds :
        k < current_topics /\ topic_name[k] = TopicOf[c] => Remembers(c, k)

\* An id has been given out before its client is answered.
Numbered == \A c \in Clients : pc[c] = "respond" => next_id[Kind(c)] > 0

Orderly == Phases /\ Lives /\ Told /\ Rooted /\ Lists /\ AtWork /\ Numbered

----------------------------------------------------------------------------
\* What a thread sends to its own client arrives.
LEMMA Arrives ==
    ASSUME TypeOK, Lives, NEW c \in Clients, NEW r, SendResponse(c, r),
           broker = "up", pc[c] \in Asking \cup {"shift"}
    PROVE  UNCHANGED broker /\ inbox' = [inbox EXCEPT ![c] = Append(@, r)]
<1>1. client[c] # "closed"
  BY DEF TypeOK, Lives, Life, Asking, Serving, Publishing, Unregistering, ClientStates
<1> QED
  BY <1>1, ConstantsAssumption DEF SendResponse, BrokerAfterSend, Open

\* What the threads' steps send.
LEMMA Refuses ==
    ASSUME TypeOK, Lives, NEW c \in Clients, RefuseSubscriber(c) \/ RefusePublisher(c)
    PROVE  \E r \in {Refusal("ERROR"), Refusal("LIMIT")} :
              /\ UNCHANGED broker /\ inbox' = [inbox EXCEPT ![c] = Append(@, r)]
              /\ pc[c] = "recv_register" /\ pc' = [pc EXCEPT ![c] = "gone"]
              /\ UNCHANGED <<client, client_id, bye, at, val, fd_to_del, tableVars>>
<1>1. PICK status \in {"ERROR", "LIMIT"} : Refuse(c, status)
  BY DEF RefuseSubscriber, RefusePublisher
<1>2. broker = "up" /\ pc[c] = "recv_register"
  BY DEF RefuseSubscriber, RefusePublisher, ReceivesRegister
<1>3. SendResponse(c, Refusal(status))
  BY <1>1 DEF Refuse
<1>4. UNCHANGED broker /\ inbox' = [inbox EXCEPT ![c] = Append(@, Refusal(status))]
  BY <1>2, <1>3, Arrives DEF Asking
<1> QED
  BY <1>1, <1>2, <1>4 DEF Refuse

LEMMA Responds ==
    ASSUME TypeOK, Lives, NEW c \in Clients, Respond(c)
    PROVE  UNCHANGED broker /\ inbox' = [inbox EXCEPT ![c] = Append(@, OK(next_id[Kind(c)] - 1))]
BY Arrives DEF Respond, Asking

LEMMA AnswersSender ==
    ASSUME TypeOK, Lives, NEW c \in Clients, AnswerUnregister(c)
    PROVE  UNCHANGED broker /\ inbox' = [inbox EXCEPT ![c] = Append(@, OK(bye[c]))]
<1>1. fd_to_del[c] = c
  BY DEF AnswerUnregister, Lives, Life
<1> QED
  BY <1>1, Arrives DEF AnswerUnregister

\* A step changes nothing that belongs to another client or its thread.
Alone(c) ==
    \A d \in Clients \ {c} :
        /\ client'[d] = client[d] /\ client_id'[d] = client_id[d]
        /\ bye'[d] = bye[d] /\ inbox'[d] = inbox[d]
        /\ pc'[d] = pc[d] /\ at'[d] = at[d] /\ val'[d] = val[d] /\ fd_to_del'[d] = fd_to_del[d]

LEMMA StepsAreAlone ==
    ASSUME TypeOK, Lives, NEW c \in Clients, User(c) \/ ThreadStep(c) \/ ClientStep(c)
    PROVE  Alone(c)
<1>1. CASE User(c)
  BY <1>1 DEF User, Connect, Interrupt, Crash, TypeOK, Alone, threadVars
<1>2. CASE ClientStep(c)
  BY <1>2 DEF ClientStep, HandleResponse, HandlerReads, TypeOK, Alone, threadVars
<1>3. ASSUME UNCHANGED <<client, client_id, bye>>,
             inbox' = inbox \/ \E r : inbox' = [inbox EXCEPT ![c] = r],
             \E x : pc' = [pc EXCEPT ![c] = x],
             UNCHANGED at \/ \E x : at' = [at EXCEPT ![c] = x],
             UNCHANGED val \/ \E x : val' = [val EXCEPT ![c] = x],
             UNCHANGED fd_to_del \/ \E x : fd_to_del' = [fd_to_del EXCEPT ![c] = x]
      PROVE  Alone(c)
  BY <1>3 DEF TypeOK, Alone
<1>4. CASE RegisterSubscriber(c) \/ RegisterPublisher(c)
  BY <1>3, <1>4 DEF RegisterSubscriber, RegisterPublisher, clientVars
<1>5. CASE RefuseSubscriber(c) \/ RefusePublisher(c)
  BY <1>3, <1>5, Refuses
<1>6. CASE Respond(c)
  BY <1>3, <1>6, Responds DEF Respond
<1>7. CASE AnswerUnregister(c)
  BY <1>3, <1>7, AnswersSender DEF AnswerUnregister
<1>8. CASE Enlist(c)
  BY <1>3, <1>8 DEF Enlist, clientVars
<1>9. CASE CountRead(c) \/ UncountRead(c)
  BY <1>3, <1>9 DEF CountRead, UncountRead, ReadCount, clientVars
<1>10. CASE CountWrite(c) \/ UncountWrite(c)
  BY <1>3, <1>10 DEF CountWrite, UncountWrite, clientVars
<1>11. CASE FindClient(c)
  BY <1>3, <1>11 DEF FindClient, clientVars
<1>12. CASE ShiftClient(c)
  BY <1>12 DEF ShiftClient, clientVars, TypeOK, Alone
<1>13. CASE EndOfFile(c)
  BY <1>3, <1>13 DEF EndOfFile, clientVars
<1> QED
  BY <1>1, <1>2, <1>4, <1>5, <1>6, <1>7, <1>8, <1>9, <1>10, <1>11, <1>12, <1>13 DEF ThreadStep

----------------------------------------------------------------------------
(* Each step keeps the parts of the invariant that it can disturb.         *)

\* What users and client processes do.
LEMMA LifeOfClientSteps ==
    ASSUME OneAtATime, TypeOK, Lives, NEW c \in Clients, User(c) \/ ClientStep(c)
    PROVE  Life(c)'
<1> USE DEF Serving, Publishing, Registering, Unregistering, Asking
<1>1. Life(c)
  BY DEF Lives
<1>2. CASE Connect(c)
  BY <1>1, <1>2 DEF TypeOK, Connect, Life
<1>3. CASE Interrupt(c)
  <2>1. client[c] = "active" /\ pc[c] \in {"idle", "serving", "gone"}
    BY <1>3 DEF Interrupt, OneAtATime, Settled
  <2>2. client' = [client EXCEPT ![c] = "leaving"] /\ bye' = [bye EXCEPT ![c] = client_id[c]]
        /\ UNCHANGED <<inbox, pc, fd_to_del, client_id>>
    BY <1>3 DEF Interrupt, threadVars
  <2> QED
    BY <1>1, <2>1, <2>2 DEF TypeOK, Life
<1>4. CASE Crash(c)
  BY <1>1, <1>4 DEF TypeOK, Crash, Life, threadVars
<1>5. CASE HandleResponse(c)
  <2>1. /\ client[c] = "registering" /\ inbox[c] # <<>>
        /\ client_id' = [client_id EXCEPT ![c] = Head(inbox[c]).id]
        /\ client' = [client EXCEPT ![c] =
                        IF Head(inbox[c]).status = "OK" THEN "active" ELSE "closed"]
        /\ inbox' = [inbox EXCEPT ![c] = Tail(@)]
        /\ UNCHANGED <<bye, pc, fd_to_del>>
    BY <1>5 DEF HandleResponse, threadVars
  <2>2. bye[c] = NotSent /\ Len(inbox[c]) = 1
    BY <1>1, <2>1 DEF Life
  <2>3. Tail(inbox[c]) = <<>>
    <3>1. Tail(inbox[c]) \in Seq(Response) /\ Len(Tail(inbox[c])) = 0
      BY <2>1, <2>2 DEF TypeOK
    <3> QED
      BY <3>1, EmptySeq
  <2>4. CASE pc[c] = "gone"
    <3>1. Head(inbox[c]).status # "OK" /\ Head(inbox[c]).id = -1
      BY <1>1, <2>1, <2>4 DEF Life, Refusal
    <3>2. client'[c] = "closed" /\ client_id'[c] = -1 /\ bye'[c] = NotSent /\ pc'[c] = "gone"
      BY <2>1, <2>2, <2>4, <3>1 DEF TypeOK
    <3> QED
      BY <3>2 DEF Life
  <2>5. CASE pc[c] # "gone"
    <3>1. /\ Head(inbox[c]).status = "OK" /\ Head(inbox[c]).id \in Nat
          /\ pc[c] \in {"count_read", "count_write"} \cup Serving
      BY <1>1, <2>1, <2>5 DEF Life, OK
    <3>2. /\ client'[c] = "active" /\ client_id'[c] \in Nat /\ bye'[c] = NotSent
          /\ pc'[c] = pc[c] /\ inbox'[c] = <<>>
      BY <2>1, <2>2, <2>3, <3>1 DEF TypeOK
    <3> QED
      BY <3>1, <3>2 DEF Life
  <2> QED
    BY <2>4, <2>5
<1>6. CASE HandlerReads(c)
  <2>1. /\ client[c] = "leaving" /\ inbox[c] # <<>>
        /\ client' = [client EXCEPT ![c] =
                        IF Head(inbox[c]).status = "OK" THEN "closed" ELSE @]
        /\ UNCHANGED <<bye, pc, fd_to_del, client_id>>
    BY <1>6 DEF HandlerReads, threadVars
  <2>2. bye[c] \in Nat /\ pc[c] \in {"uncount_read", "uncount_write", "gone"} /\ inbox[c] = <<OK(bye[c])>>
    BY <1>1, <2>1 DEF Life
  <2>3. Head(inbox[c]).status = "OK"
    BY <2>2 DEF OK
  <2>4. client'[c] = "closed" /\ bye'[c] = bye[c] /\ pc'[c] = pc[c]
    BY <2>1, <2>3 DEF TypeOK
  <2> QED
    BY <2>2, <2>4 DEF Life
<1> QED
  BY <1>2, <1>3, <1>4, <1>5, <1>6 DEF User, ClientStep

\* What a client's thread does.
LEMMA LifeOfThreadSteps ==
    ASSUME TypeOK, Lives, Phases, Numbered, NEW c \in Clients, ThreadStep(c),
           FindClient(c) => fd_to_del'[c] = c
    PROVE  Life(c)'
<1> USE DEF Serving, Publishing, Registering, Unregistering, Asking
<1>1. Life(c)
  BY DEF Lives
<1>2. CASE RegisterSubscriber(c) \/ RegisterPublisher(c)
  <2>1. UNCHANGED clientVars /\ pc[c] = "recv_register" /\ pc'[c] = "enlist"
    BY <1>2 DEF TypeOK, RegisterSubscriber, RegisterPublisher, ReceivesRegister
  <2> QED
    BY <1>1, <2>1 DEF Life, clientVars
<1>3. CASE RefuseSubscriber(c) \/ RefusePublisher(c)
  <2>1. PICK r \in {Refusal("ERROR"), Refusal("LIMIT")} :
           /\ inbox' = [inbox EXCEPT ![c] = Append(@, r)]
           /\ pc[c] = "recv_register" /\ pc' = [pc EXCEPT ![c] = "gone"]
           /\ UNCHANGED <<client, client_id, bye, fd_to_del>>
    BY <1>3, Refuses
  <2>2. inbox[c] = <<>> /\ client[c] = "registering" /\ bye[c] = NotSent
    BY <1>1, <2>1 DEF Life
  <2>3. Len(inbox'[c]) = 1 /\ Head(inbox'[c]) = r /\ pc'[c] = "gone"
    BY <2>1, <2>2 DEF TypeOK
  <2> QED
    BY <2>1, <2>2, <2>3 DEF Life
<1>4. CASE Enlist(c)
  BY <1>1, <1>4 DEF Life, Enlist, TypeOK, clientVars
<1>5. CASE Respond(c)
  <2>1. /\ pc[c] = "respond" /\ pc' = [pc EXCEPT ![c] = "count_read"]
        /\ UNCHANGED <<client, client_id, bye, fd_to_del>>
        /\ inbox' = [inbox EXCEPT ![c] = Append(@, OK(next_id[Kind(c)] - 1))]
    BY <1>5, Responds DEF Respond
  <2>2. next_id[Kind(c)] - 1 \in Nat
    BY <2>1 DEF Numbered, TypeOK, Kind, Kinds
  <2>3. inbox[c] = <<>> /\ client[c] = "registering" /\ bye[c] = NotSent
    BY <1>1, <2>1 DEF Life
  <2>4. Len(inbox'[c]) = 1 /\ Head(inbox'[c]) = OK(next_id[Kind(c)] - 1) /\ pc'[c] = "count_read"
    BY <2>1, <2>3 DEF TypeOK
  <2>5. Head(inbox'[c]) = OK(Head(inbox'[c]).id) /\ Head(inbox'[c]).id \in Nat
    BY <2>2, <2>4 DEF OK
  <2> QED
    BY <2>1, <2>3, <2>4, <2>5 DEF Life
<1>6. CASE CountRead(c) \/ UncountRead(c) \/ CountWrite(c) \/ EndOfFile(c)
  <2>1. /\ UNCHANGED clientVars
        /\ <<pc[c], pc'[c]>> \in {<<"count_read", "count_write">>, <<"uncount_read", "uncount_write">>,
                                  <<"count_write", "serving">>, <<"serving", "gone">>}
        /\ pc'[c] = "gone" => client[c] = "closed" /\ bye[c] = NotSent
    BY <1>6 DEF TypeOK, CountRead, UncountRead, ReadCount, CountWrite, EndOfFile
  <2>2. CASE pc[c] = "count_read" \/ pc[c] = "uncount_read"
    BY <1>1, <2>1, <2>2 DEF Life, clientVars
  <2>3. CASE pc[c] = "count_write" \/ pc[c] = "serving"
    BY <1>1, <2>1, <2>3 DEF Life, clientVars
  <2> QED
    BY <2>1, <2>2, <2>3
<1>7. CASE FindClient(c)
  BY <1>1, <1>7 DEF TypeOK, Life, FindClient, clientVars, ClientStates
<1>8. CASE ShiftClient(c)
  BY <1>1, <1>8 DEF Life, ShiftClient, clientVars
<1>9. CASE AnswerUnregister(c)
  <2>1. /\ pc[c] = "shift" /\ pc' = [pc EXCEPT ![c] = "uncount_read"]
        /\ UNCHANGED <<client, client_id, bye>>
        /\ inbox' = [inbox EXCEPT ![c] = Append(@, OK(bye[c]))]
    BY <1>9, AnswersSender DEF AnswerUnregister
  <2>2. client[c] = "leaving" /\ bye[c] \in Nat /\ inbox[c] = <<>>
    BY <1>1, <2>1 DEF Life, TypeOK, ClientStates
  <2>3. inbox'[c] = <<OK(bye[c])>> /\ pc'[c] = "uncount_read"
    BY <2>1, <2>2 DEF TypeOK
  <2> QED
    BY <2>1, <2>2, <2>3 DEF Life
<1>10. CASE UncountWrite(c)
  BY <1>1, <1>10 DEF TypeOK, Life, UncountWrite, clientVars, ClientStates
<1> QED
  BY <1>2, <1>3, <1>4, <1>5, <1>6, <1>7, <1>8, <1>9, <1>10 DEF ThreadStep

\* A registration meets no departure, and a departure nothing but threads at
\* rest.
LEMMA PhasesStep ==
    ASSUME OneAtATime, TypeOK, Phases, Lives,
           NEW c \in Clients, User(c) \/ ThreadStep(c) \/ ClientStep(c), Alone(c)
    PROVE  Phases'
<1> USE ConstantsAssumption DEF Serving, Publishing, Registering, Unregistering, Leaving
<1>1. \A d \in Clients \ {c} : pc'[d] = pc[d] /\ bye'[d] = bye[d]
  BY DEF Alone
<1>2. CASE UNCHANGED <<pc, bye, mutex3>>
  BY <1>2 DEF Phases
<1>3. CASE Connect(c)
  <2>1. /\ \A d \in Clients : ~Leaving(d)
        /\ pc[c] = "idle" /\ pc'[c] = "recv_register" /\ UNCHANGED <<bye, mutex3>>
    BY <1>3 DEF TypeOK, OneAtATime, Connect, Lives, Life, tableVars
  <2>2. \A d \in Clients : bye'[d] = NotSent \/ pc'[d] = "gone"
    BY <1>1, <2>1
  <2> QED
    BY <1>1, <2>1, <2>2 DEF Phases
<1>4. CASE Interrupt(c)
  <2>1. /\ \A d \in Clients : Settled(d)
        /\ client[c] = "active" /\ UNCHANGED <<pc, mutex3>>
    BY <1>4 DEF OneAtATime, Interrupt, threadVars, tableVars
  <2>2. pc[c] = "serving"
    BY <2>1 DEF Settled, Lives, Life
  <2> QED
    BY <1>1, <2>1, <2>2 DEF Settled, Phases
<1>5. ASSUME UNCHANGED bye, pc[c] \in Asking \cup Registering
      PROVE  \A d \in Clients : ~Leaving(d) /\ ~Leaving(d)'
  <2>1. \A d \in Clients : ~Leaving(d)
    BY <1>5 DEF Phases, Asking
  <2>2. bye[c] = NotSent
    BY <1>5, <2>1 DEF Asking
  <2> QED
    BY <1>1, <1>5, <2>1, <2>2
<1>6. CASE RegisterSubscriber(c) \/ RegisterPublisher(c)
  <2>1. /\ pc[c] = "recv_register" /\ pc'[c] = "enlist" /\ UNCHANGED bye
        /\ mutex3 = NoOne /\ mutex3' = c
    BY <1>6 DEF TypeOK, RegisterSubscriber, RegisterPublisher, ReceivesRegister, clientVars
  <2>2. \A d \in Clients : ~Leaving(d)'
    BY <1>5, <2>1 DEF Asking
  <2> QED
    BY <1>1, <2>1, <2>2 DEF Phases
<1>7. CASE RefuseSubscriber(c) \/ RefusePublisher(c)
  <2>1. pc[c] = "recv_register" /\ pc'[c] = "gone" /\ UNCHANGED <<bye, mutex3>>
    BY <1>7, Refuses DEF TypeOK, tableVars
  <2>2. \A d \in Clients : ~Leaving(d)'
    BY <1>5, <2>1 DEF Asking
  <2> QED
    BY <1>1, <2>1, <2>2 DEF Phases
<1>8. CASE Enlist(c) \/ Respond(c) \/ CountRead(c)
  <2>1. pc[c] \in Registering /\ pc'[c] \in Registering /\ UNCHANGED <<bye, mutex3>>
    BY <1>8 DEF TypeOK, Enlist, Respond, CountRead, ReadCount, clientVars, tableVars
  <2>2. \A d \in Clients : ~Leaving(d)'
    BY <1>5, <2>1
  <2>3. \A d \in Clients : pc'[d] \in Registering <=> pc[d] \in Registering
    BY <1>1, <2>1
  <2>4. \A d \in Clients : pc'[d] \in Unregistering => bye'[d] # NotSent
    BY <1>1, <2>1 DEF Phases
  <2> QED
    BY <2>1, <2>2, <2>3, <2>4 DEF Phases
<1>9. CASE CountWrite(c)
  <2>1. pc[c] \in Registering /\ pc'[c] = "serving" /\ UNCHANGED bye /\ mutex3' = NoOne
    BY <1>9 DEF TypeOK, CountWrite, clientVars
  <2>2. \A d \in Clients : ~Leaving(d)'
    BY <1>5, <2>1
  <2>3. \A d \in Clients : pc'[d] \notin Registering
    BY <1>1, <2>1 DEF Phases
  <2> QED
    BY <1>1, <2>1, <2>2, <2>3 DEF Phases
<1>10. CASE FindClient(c) \/ ShiftClient(c) \/ AnswerUnregister(c) \/ UncountRead(c) \/ UncountWrite(c)
  <2>1. /\ Leaving(c) /\ UNCHANGED <<bye, mutex3>>
        /\ pc[c] \notin Registering /\ pc'[c] \in Unregistering \cup {"gone"}
    BY <1>10 DEF Phases, TypeOK, FindClient, ShiftClient, AnswerUnregister, UncountRead, ReadCount,
                 UncountWrite, clientVars, tableVars
  <2> QED
    BY <1>1, <2>1 DEF Phases
<1>11. CASE EndOfFile(c)
  <2>1. pc[c] = "serving" /\ pc'[c] = "gone" /\ UNCHANGED <<bye, mutex3>>
    BY <1>11 DEF TypeOK, EndOfFile, clientVars, tableVars
  <2> QED
    BY <1>1, <2>1 DEF Phases
<1>12. CASE ClientStep(c) \/ Crash(c)
  BY <1>2, <1>12 DEF ClientStep, HandleResponse, HandlerReads, Crash, threadVars, tableVars
<1> QED
  BY <1>3, <1>4, <1>6, <1>7, <1>8, <1>9, <1>10, <1>11, <1>12 DEF User, ThreadStep

\* An entry is a copy of an entry, or new.
LEMMA EntriesAfter ==
    ASSUME TypeOK, Table, NEW c \in Clients, User(c) \/ ThreadStep(c) \/ ClientStep(c)
    PROVE  \A k \in TopicIds, i \in Cells : cell'[k][i].fd # NoSocket =>
              \/ \E l \in TopicIds, j \in Cells : cell'[k][i] = cell[l][j]
              \/ Enlist(c) /\ cell'[k][i] = [id |-> NewId(c), fd |-> c]
<1>1. CASE UNCHANGED cell
  BY <1>1
<1>2. CASE Enlist(c)
  <2>1. TopicId(c) \in TopicIds
    BY <1>2, TopicOfThread DEF Enlist, Registered, Registering
  <2>2. cell' = WithCell(TopicId(c), Base(c) + at[c], [id |-> NewId(c), fd |-> c])
    BY <1>2 DEF Enlist
  <2>3. \A k \in TopicIds, i \in Cells :
            cell'[k][i] = cell[k][i] \/ cell'[k][i] = [id |-> NewId(c), fd |-> c]
    BY <2>1, <2>2 DEF TypeOK, WithCell
  <2> QED
    BY <1>2, <2>3
<1>3. CASE ShiftClient(c)
  <2> DEFINE from == Base(c) + at[c] + 1
  <2>1. TopicId(c) \in TopicIds
    BY <1>3, TopicOfThread DEF ShiftClient, Registered, Unregistering
  <2>2. cell' = WithCell(TopicId(c), Base(c) + at[c], CellAt(TopicId(c), from))
    BY <1>3 DEF ShiftClient, ShiftedLeft
  <2>3. \A k \in TopicIds, i \in Cells :
            cell'[k][i] = cell[k][i] \/ cell'[k][i] = CellAt(TopicId(c), from)
    BY <2>1, <2>2 DEF TypeOK, WithCell
  <2> QED
    BY <2>1, <2>3, CopiesOfEntries
<1>4. CASE User(c) \/ ClientStep(c)
  BY <1>1, <1>4 DEF User, ClientStep, Connect, Interrupt, Crash, HandleResponse, HandlerReads, tableVars
<1> QED
  BY <1>1, <1>2, <1>3, <1>4
     DEF ThreadStep, RegisterSubscriber, RegisterPublisher, RefuseSubscriber, RefusePublisher, Refuse,
         Respond, CountRead, ReadCount, CountWrite, FindClient, AnswerUnregister, UncountRead,
         UncountWrite, EndOfFile, tableVars

\* What an enlisted client is told is the id of its entry.
LEMMA TellsStep ==
    ASSUME OneAtATime, TypeOK, Phases, Lives,
           NEW c \in Clients, User(c) \/ ThreadStep(c) \/ ClientStep(c), Alone(c),
           NEW d \in Clients, pc[d] \notin NotEnlisted, NEW id, Tells(d, id)
    PROVE  Tells(d, id)'
<1> USE DEF Serving, Publishing, Registering, Unregistering, Asking, NotEnlisted
<1>1. Life(c) /\ Kind(d) \in Kinds
  BY DEF Lives, Kind, Kinds
<1>2. ASSUME Enlist(c) PROVE Tells(d, id)'
  <2>1. c # d /\ pc[d] # "respond" /\ pc'[d] # "respond"
    BY <1>2 DEF Enlist, Phases, Alone
  <2> QED
    BY <2>1 DEF Alone, Tells
<1>3. ASSUME ~Enlist(c) PROVE UNCHANGED next_id
  BY <1>3 DEF User, ClientStep, Connect, Interrupt, Crash, HandleResponse, HandlerReads, tableVars,
         ThreadStep, RegisterSubscriber, RegisterPublisher, RefuseSubscriber, RefusePublisher, Refuse,
         Respond, CountRead, ReadCount, CountWrite, FindClient, ShiftClient, AnswerUnregister,
         UncountRead, UncountWrite, EndOfFile
<1>4. ASSUME ~Enlist(c), c # d PROVE Tells(d, id)'
  BY <1>3, <1>4 DEF Alone, Tells, Kind
<1>5. ASSUME c = d, UNCHANGED clientVars, pc'[c] # "respond" PROVE Tells(d, id)'
  BY <1>5 DEF Tells, clientVars
<1>6. CASE User(c) /\ c = d
  <2>1. CASE Interrupt(c)
    <3>1. client[c] = "active" /\ pc[c] \in {"idle", "serving", "gone"}
      BY <2>1 DEF Interrupt, OneAtATime, Settled
    <3> QED
      BY <1>6, <2>1, <3>1 DEF TypeOK, Interrupt, Tells, threadVars, tableVars
  <2>2. CASE Crash(c)
    BY <1>6, <2>2 DEF TypeOK, Crash, Tells, threadVars, tableVars
  <2>3. CASE Connect(c)
    BY <1>1, <1>6, <2>3 DEF Connect, Life
  <2> QED
    BY <1>6, <2>1, <2>2, <2>3 DEF User
<1>7. CASE HandleResponse(c) /\ c = d
  <2>1. /\ id = Head(inbox[c]).id /\ client_id'[c] = Head(inbox[c]).id
        /\ client'[c] \in {"active", "closed"}
        /\ pc'[c] = pc[c] /\ pc[c] # "respond"
    BY <1>1, <1>7 DEF TypeOK, HandleResponse, Tells, Life, threadVars
  <2> QED
    BY <1>7, <2>1 DEF Tells
<1>8. CASE HandlerReads(c) /\ c = d
  <2>1. /\ client[c] = "leaving" /\ client'[c] \in {"leaving", "closed"} /\ UNCHANGED <<bye, pc>>
        /\ pc[c] # "respond"
    BY <1>1, <1>8 DEF TypeOK, HandlerReads, Life, threadVars
  <2> QED
    BY <1>8, <2>1 DEF Tells
<1>9. CASE Respond(c) /\ c = d
  <2>1. /\ pc[c] = "respond" /\ pc'[c] = "count_read"
        /\ UNCHANGED <<client, client_id, bye>>
        /\ inbox' = [inbox EXCEPT ![c] = Append(@, OK(next_id[Kind(c)] - 1))]
    BY <1>9, Responds DEF TypeOK, Respond
  <2>2. inbox[c] = <<>> /\ client[c] = "registering"
    BY <1>1, <2>1 DEF Life
  <2>3. Head(inbox'[c]) = OK(next_id[Kind(c)] - 1)
    BY <2>1, <2>2 DEF TypeOK
  <2>4. id \in Nat /\ id = next_id[Kind(c)] - 1
    BY <1>9, <2>1 DEF Tells
  <2>5. client'[c] = "registering" /\ Head(inbox'[c]).id = id
    BY <2>1, <2>2, <2>3, <2>4 DEF OK
  <2> QED
    BY <1>9, <2>1, <2>4, <2>5 DEF Tells
<1>10. CASE AnswerUnregister(c) /\ c = d
  <2>1. /\ pc[c] = "shift" /\ pc'[c] = "uncount_read" /\ UNCHANGED <<client, client_id, bye>>
    BY <1>10 DEF TypeOK, AnswerUnregister
  <2>2. client[c] = "leaving"
    BY <1>1, <2>1 DEF TypeOK, Life, ClientStates
  <2> QED
    BY <1>10, <2>1, <2>2 DEF Tells
<1>11. CASE /\ c = d
            /\ \/ CountRead(c) \/ CountWrite(c) \/ FindClient(c)
               \/ ShiftClient(c) \/ UncountRead(c) \/ UncountWrite(c) \/ EndOfFile(c)
  BY <1>5, <1>11 DEF TypeOK, CountRead, ReadCount, CountWrite, FindClient, ShiftClient, UncountRead,
                     UncountWrite, EndOfFile
<1>12. CASE c = d /\ (RegisterSubscriber(c) \/ RegisterPublisher(c) \/ RefuseSubscriber(c) \/ RefusePublisher(c))
  BY <1>12 DEF RegisterSubscriber, RegisterPublisher, RefuseSubscriber, RefusePublisher, ReceivesRegister
<1> QED
  BY <1>2, <1>4, <1>6, <1>7, <1>8, <1>9, <1>10, <1>11, <1>12 DEF ThreadStep, ClientStep

LEMMA ToldStep ==
    ASSUME OneAtATime, IdsInv, Phases, Lives, Told, Numbered,
           NEW c \in Clients, User(c) \/ ThreadStep(c) \/ ClientStep(c), Alone(c)
    PROVE  Told'
<1> USE DEF IdsInv, Inv
<1> SUFFICES ASSUME NEW k \in TopicIds, NEW i \in Cells, cell'[k][i].fd # NoSocket,
                    NEW d, d = cell'[k][i].fd, NEW id, id = cell'[k][i].id
             PROVE  Tells(d, id)'
  BY DEF Told, Tells, Kind
<1>1. CASE \E l \in TopicIds, j \in Cells : cell'[k][i] = cell[l][j]
  <2>1. PICK l \in TopicIds, j \in Cells : cell'[k][i] = cell[l][j]
    BY <1>1
  <2>2. cell[l][j].fd = d /\ cell[l][j].id = id /\ d # NoSocket /\ d \in Clients
    BY <2>1 DEF TypeOK, Entry
  <2>3. pc[d] \notin NotEnlisted /\ Tells(d, id)
    BY <2>2 DEF IdsTaken, Told
  <2> QED
    BY <2>2, <2>3, TellsStep
<1>2. CASE Enlist(c) /\ cell'[k][i] = [id |-> NewId(c), fd |-> c]
  <2>1. /\ d = c /\ id = next_id[Kind(c)]
        /\ next_id[Kind(c)] \in Nat /\ next_id'[Kind(c)] = next_id[Kind(c)] + 1
    BY <1>2 DEF TypeOK, Enlist, NewId, Kind, Kinds
  <2>2. client'[c] = "registering" /\ inbox'[c] = <<>>
    BY <1>2 DEF Enlist, Lives, Life, Asking, clientVars
  <2> QED
    BY <2>1, <2>2 DEF Tells
<1> QED
  BY <1>1, <1>2, EntriesAfter

\* Whether a client has an entry, waits to be counted or is being removed.
SameStanding(c) ==
    /\ Member(c)' <=> Member(c)
    /\ pc'[c] \in Entered <=> pc[c] \in Entered
    /\ pc'[c] \in Unregistering <=> pc[c] \in Unregistering
Quiet(c) ==
    /\ UNCHANGED <<current_topics, topic_name, cell, num, next_id>>
    /\ SameStanding(c)
    /\ pc[c] \in Unregistering => at'[c] = at[c]

LEMMA OthersStand ==
    ASSUME NEW c \in Clients, Alone(c)
    PROVE  \A d \in Clients \ {c} : SameStanding(d) /\ pc'[d] = pc[d] /\ at'[d] = at[d] /\ val'[d] = val[d]
BY DEF Alone, SameStanding, Member, DiedRegistered

\* The steps that change a list, or whose client comes to stand otherwise.
Moves(c) ==
    \/ RegisterSubscriber(c) \/ Enlist(c) \/ CountWrite(c)
    \/ FindClient(c) \/ ShiftClient(c) \/ UncountWrite(c)

LEMMA QuietSteps ==
    ASSUME TypeOK, Lives, OneAtATime,
           NEW c \in Clients, User(c) \/ ThreadStep(c) \/ ClientStep(c)
    PROVE  Quiet(c) \/ Moves(c)
<1> USE DEF Serving, Publishing, Registering, Unregistering, Asking, Entered, Quiet, SameStanding
<1>1. Life(c)
  BY DEF Lives
<1>2. ASSUME UNCHANGED <<tableVars, pc, at>>, Member(c)' <=> Member(c) PROVE Quiet(c)
  BY <1>2 DEF tableVars
<1>3. CASE Interrupt(c) \/ Crash(c)
  <2>1. UNCHANGED <<pc, at, tableVars>> /\ client[c] = "active"
    BY <1>3 DEF OneAtATime, Interrupt, Crash, threadVars
  <2>2. pc[c] \in {"count_read", "count_write"} \cup Serving
    BY <1>1, <2>1 DEF Life
  <2>3. Member(c)' <=> Member(c)
    BY <2>1, <2>2 DEF Member
  <2> QED
    BY <1>2, <2>1, <2>3
<1>4. CASE HandleResponse(c)
  <2>1. /\ client[c] = "registering" /\ inbox[c] # <<>>
        /\ client_id' = [client_id EXCEPT ![c] = Head(inbox[c]).id]
        /\ UNCHANGED <<bye, pc, at, tableVars>>
    BY <1>4 DEF HandleResponse, threadVars
  <2>2. pc[c] = "gone" => client_id'[c] = -1
    BY <1>1, <2>1 DEF TypeOK, Life, Refusal
  <2>3. Member(c)' <=> Member(c)
    BY <2>1, <2>2 DEF Member, DiedRegistered
  <2> QED
    BY <1>2, <2>1, <2>3
<1>5. CASE HandlerReads(c)
  <2>1. client[c] = "leaving" /\ UNCHANGED <<bye, pc, at, tableVars>>
    BY <1>5 DEF HandlerReads, threadVars
  <2>2. bye[c] # NotSent
    BY <1>1, <2>1 DEF Life, NotSent
  <2>3. Member(c)' <=> Member(c)
    BY <2>1, <2>2 DEF Member, DiedRegistered
  <2> QED
    BY <1>2, <2>1, <2>3
<1>6. CASE Connect(c)
  <2>1. /\ client[c] = "idle" /\ pc' = [pc EXCEPT ![c] = "recv_register"]
        /\ UNCHANGED <<bye, at, tableVars>>
    BY <1>6 DEF Connect
  <2>2. pc[c] = "idle" /\ pc'[c] = "recv_register"
    BY <1>1, <2>1 DEF Life, TypeOK
  <2> QED
    BY <2>1, <2>2 DEF Member, DiedRegistered, tableVars
<1>7. CASE RegisterPublisher(c)
  BY <1>7 DEF RegisterPublisher, ReceivesRegister, TypeOK, Member, DiedRegistered
<1>8. CASE RefuseSubscriber(c) \/ RefusePublisher(c)
  <2>1. /\ pc[c] = "recv_register" /\ pc' = [pc EXCEPT ![c] = "gone"]
        /\ UNCHANGED <<client, tableVars>>
    BY <1>8, Refuses
  <2>2. client'[c] = "registering"
    BY <1>1, <2>1 DEF Life
  <2> QED
    BY <2>1, <2>2 DEF TypeOK, Member, DiedRegistered, tableVars
<1>9. CASE Respond(c) \/ CountRead(c)
  BY <1>9 DEF Respond, CountRead, ReadCount, TypeOK, Member, tableVars
<1>10. CASE AnswerUnregister(c) \/ UncountRead(c)
  BY <1>10 DEF AnswerUnregister, UncountRead, ReadCount, TypeOK, Member, DiedRegistered, tableVars
<1>11. CASE EndOfFile(c)
  <2>1. /\ pc[c] = "serving" /\ client[c] = "closed" /\ bye[c] = NotSent
        /\ pc' = [pc EXCEPT ![c] = "gone"] /\ UNCHANGED <<clientVars, tableVars>>
    BY <1>11 DEF EndOfFile
  <2>2. client_id[c] # -1
    BY <1>1, <2>1 DEF Life, NotSent
  <2> QED
    BY <2>1, <2>2 DEF TypeOK, Member, DiedRegistered, tableVars, clientVars
<1> QED
  BY <1>3, <1>4, <1>5, <1>6, <1>7, <1>8, <1>9, <1>10, <1>11 DEF User, ThreadStep, ClientStep, Moves

----------------------------------------------------------------------------
(* The lists.                                                              *)

\* A list is told by a topic and a kind; a client is on one list only.
LEMMA OnOneList ==
    ASSUME TypeOK, Table, NEW c \in Clients, NEW k \in TopicIds, k < current_topics,
           topic_name[k] = TopicOf[c]
    PROVE  /\ TopicId(c) = k
           /\ \A l \in TopicIds : l < current_topics /\ topic_name[l] = TopicOf[c] => l = k
<1>1. current_topics \in Nat
  BY ConstantsAssumption DEF TypeOK
<1>2. \A l \in TopicIds : l < current_topics /\ topic_name[l] = TopicOf[c] => l = k
  BY <1>1, ConstantsAssumption DEF Table, NamesDistinct, TopicIds
<1> QED
  BY <1>2, GetTopicId DEF Table, Exists, TopicId

LEMMA KindOf ==
    ASSUME NEW c \in Clients
    PROVE  /\ Kind(c) \in Kinds /\ Base(c) = BaseOf(Kind(c)) /\ Limit(c) = LimitOf(Kind(c))
           /\ LimitOf(Kind(c)) \in Nat /\ BaseOf(Kind(c)) \in Nat
           /\ BaseOf(Kind(c)) + LimitOf(Kind(c)) <= MaxSubscribers + MaxPublishers
BY ConstantsAssumption DEF Kind, Kinds, Base, BaseOf, Limit, LimitOf

\* A list whose positions hold the same entries stays right.
LEMMA ListSame ==
    ASSUME TypeOK, NEW k \in TopicIds, NEW kind \in Kinds, ListRight(k, kind),
           num'[k][kind] \in 0 .. LimitOf(kind), kind = "pub" => num'[k][kind] <= next_id'["pub"],
           next_id'["pub"] \in Nat, next_id["pub"] <= next_id'["pub"],
           \A i \in Positions : InUse(k, kind, i)' <=> InUse(k, kind, i),
           \A i \in Positions : InUse(k, kind, i) => EntryAt(k, kind, i)' = EntryAt(k, kind, i),
           \A d \in Clients : On(d, k, kind)' <=> On(d, k, kind),
           \A d \in Clients : On(d, k, kind) => (Member(d)' <=> Member(d))
    PROVE  ListRight(k, kind)'
<1>1. next_id["pub"] \in Nat
  BY DEF TypeOK, Kinds
<1>2. (num[k][kind] \in 0 .. LimitOf(kind) /\ (kind = "pub" => num[k][kind] <= next_id["pub"]))'
  BY DEF LimitOf
<1>3. ASSUME NEW i \in Positions, InUse(k, kind, i)'
      PROVE  (/\ i < LimitOf(kind)
              /\ kind = "pub" => i < next_id["pub"]
              /\ EntryAt(k, kind, i).fd \in Clients
              /\ On(EntryAt(k, kind, i).fd, k, kind) /\ Member(EntryAt(k, kind, i).fd))'
  <2>1. InUse(k, kind, i) /\ EntryAt(k, kind, i)' = EntryAt(k, kind, i)
    BY <1>3
  <2>2. PICK d \in Clients : d = EntryAt(k, kind, i).fd /\ On(d, k, kind) /\ Member(d)
    BY <2>1 DEF ListRight
  <2>3. On(d, k, kind)' /\ Member(d)'
    BY <2>2
  <2>4. i < LimitOf(kind) /\ (kind = "pub" => i < next_id'["pub"])
    BY <1>1, <2>1 DEF ListRight, Positions
  <2> QED
    BY <2>1, <2>2, <2>3, <2>4 DEF LimitOf
<1>4. ASSUME NEW c \in Clients, On(c, k, kind)', Member(c)'
      PROVE  \E i \in Positions : InUse(k, kind, i)' /\ EntryAt(k, kind, i)'.fd = c
  <2>1. PICK i \in Positions : InUse(k, kind, i) /\ EntryAt(k, kind, i).fd = c
    BY <1>4 DEF ListRight
  <2> QED
    BY <2>1
<1>5. \A i, j \in Positions : InUse(k, kind, i)' /\ InUse(k, kind, j)' /\ i < j =>
          EntryAt(k, kind, i)'.id < EntryAt(k, kind, j)'.id
  BY DEF ListRight
<1> HIDE DEF InUse, EntryAt, On, Member
<1> QED
  BY <1>2, <1>3, <1>4, <1>5 DEF ListRight, Positions

\* So does one that is not touched.
LEMMA ListKept ==
    ASSUME TypeOK, NEW k \in TopicIds, NEW kind \in Kinds, ListRight(k, kind),
           topic_name'[k] = topic_name[k], num'[k][kind] = num[k][kind],
           next_id'["pub"] \in Nat, next_id["pub"] <= next_id'["pub"],
           \A i \in Positions : InUse(k, kind, i) => EntryAt(k, kind, i)' = EntryAt(k, kind, i),
           \A d \in Clients : On(d, k, kind) =>
              SameStanding(d) /\ (pc[d] \in Unregistering => at'[d] = at[d])
    PROVE  ListRight(k, kind)'
<1>1. \A d \in Clients : On(d, k, kind)' <=> On(d, k, kind)
  BY DEF On, Kind
<1>2. \A i \in Positions : InUse(k, kind, i)' <=> InUse(k, kind, i)
  <2>1. \A d \in Clients : On(d, k, kind) /\ pc[d] \in Unregistering =>
            Hole(d, num[k][kind])' = Hole(d, num[k][kind])
    BY DEF Hole
  <2> QED
    BY <1>1, <2>1 DEF InUse, SameStanding
<1>3. \A d \in Clients : On(d, k, kind) => (Member(d)' <=> Member(d))
  BY DEF SameStanding
<1>4. /\ num'[k][kind] \in 0 .. LimitOf(kind)
      /\ kind = "pub" => num'[k][kind] <= next_id'["pub"]
  <2>1. num[k][kind] \in 0 .. LimitOf(kind) /\ LimitOf(kind) \in Nat /\ next_id["pub"] \in Nat
    BY ConstantsAssumption DEF ListRight, TypeOK, Kinds, LimitOf
  <2> QED
    BY <2>1 DEF ListRight
<1> QED
  BY <1>1, <1>2, <1>3, <1>4, ListSame

\* A write within a client's own array changes one entry of one list.
LEMMA OneEntryWritten ==
    ASSUME TypeOK, NEW c \in Clients, NEW k \in TopicIds, NEW a \in 0 .. Limit(c) - 1, NEW e,
           cell' = WithCell(k, Base(c) + a, e)
    PROVE  \A l \in TopicIds, kind \in Kinds : \A i \in 0 .. LimitOf(kind) - 1 :
              EntryAt(l, kind, i)' = IF l = k /\ kind = Kind(c) /\ i = a THEN e ELSE EntryAt(l, kind, i)
<1> USE ConstantsAssumption
<1>1. Base(c) + a \in Cells
  BY DEF Base, Limit, Cells
<1>2. cell' = [cell EXCEPT ![k][Base(c) + a] = e]
  BY <1>1 DEF WithCell
<1>3. ASSUME NEW l \in TopicIds, NEW kind \in Kinds, NEW i \in 0 .. LimitOf(kind) - 1
      PROVE  EntryAt(l, kind, i)' = IF l = k /\ kind = Kind(c) /\ i = a THEN e ELSE EntryAt(l, kind, i)
  <2>1. BaseOf(kind) + i \in Cells
    BY DEF BaseOf, LimitOf, Cells
  <2>2. BaseOf(kind) + i = Base(c) + a <=> kind = Kind(c) /\ i = a
    BY DEF BaseOf, LimitOf, Base, Limit, Kind, Kinds
  <2>3. cell'[l][BaseOf(kind) + i] =
            IF l = k /\ BaseOf(kind) + i = Base(c) + a THEN e ELSE cell[l][BaseOf(kind) + i]
    BY <1>1, <1>2, <2>1 DEF TypeOK
  <2> QED
    BY <2>2, <2>3 DEF EntryAt, BaseOf
<1> QED
  BY <1>3

\* A thread that works on a list works on its own, which is right.
LEMMA AtOwnList ==
    ASSUME IdsInv, Lists, NEW c \in Clients, pc[c] \in Registered
    PROVE  /\ TopicId(c) \in TopicIds /\ TopicId(c) < current_topics
           /\ topic_name[TopicId(c)] = TopicOf[c] /\ On(c, TopicId(c), Kind(c))
           /\ ListRight(TopicId(c), Kind(c))
           /\ \A l \in TopicIds, kind \in Kinds :
                 l < current_topics /\ On(c, l, kind) => l = TopicId(c) /\ kind = Kind(c)
<1>1. /\ TopicId(c) \in TopicIds /\ TopicId(c) < current_topics
      /\ topic_name[TopicId(c)] = TopicOf[c]
  BY TopicOfThread DEF IdsInv, Inv
<1> QED
  BY <1>1, OnOneList, KindOf DEF On, Lists, IdsInv, Inv

\* The lists a client is not on are not changed by its thread.
LEMMA OtherListsKept ==
    ASSUME IdsInv, Phases, Lists, AtWork, NEW c \in Clients, Alone(c), Moves(c),
           NEW k \in TopicIds, NEW kind \in Kinds, k < current_topics,
           On(c, k, kind) => RegisterSubscriber(c)
    PROVE  ListRight(k, kind)'
<1> USE DEF IdsInv, Inv
<1>1. /\ ListRight(k, kind)
      /\ \A d \in Clients \ {c} : SameStanding(d) /\ at'[d] = at[d]
  BY OthersStand DEF Lists
<1>2. \A i \in Positions : InUse(k, kind, i) => i \in 0 .. LimitOf(kind) - 1
  BY <1>1, ConstantsAssumption DEF ListRight, Positions, LimitOf
<1>3. next_id["pub"] \in Nat
  BY DEF TypeOK, Kinds
<1>4. CASE RegisterSubscriber(c)
  <2>1. /\ UNCHANGED <<cell, num, next_id, client, bye, client_id>> /\ topic_name'[k] = topic_name[k]
        /\ pc[c] = "recv_register" /\ pc'[c] = "enlist"
    <3>1. current_topics \in Nat
      BY ConstantsAssumption DEF TypeOK
    <3> QED
      BY <1>4, <3>1 DEF TypeOK, RegisterSubscriber, ReceivesRegister, clientVars
  <2>2. SameStanding(c) /\ pc[c] \notin Unregistering
    BY <2>1 DEF SameStanding, Member, DiedRegistered, Entered, Serving, Publishing, Unregistering
  <2>3. \A i \in Positions : InUse(k, kind, i) => EntryAt(k, kind, i)' = EntryAt(k, kind, i)
    BY <2>1 DEF EntryAt, BaseOf
  <2> QED
    BY <1>1, <1>3, <2>1, <2>2, <2>3, ListKept
<1>5. ASSUME ~RegisterSubscriber(c) PROVE ListRight(k, kind)'
  <2>1. pc[c] \in Registered /\ UNCHANGED topic_name /\ Kind(c) \in Kinds
    BY <1>5, KindOf DEF Moves, Enlist, CountWrite, FindClient, ShiftClient, UncountWrite, tableVars,
                Registered, Registering, Unregistering
  <2>2. ~(k = TopicId(c) /\ kind = Kind(c)) /\ ~On(c, k, kind)
    BY <1>5, <2>1, AtOwnList
  <2>3. num'[k][kind] = num[k][kind]
    <3>1. UNCHANGED num \/ \E x : num' = [num EXCEPT ![TopicId(c)][Kind(c)] = x]
      BY <1>5 DEF Moves, Enlist, CountWrite, FindClient, ShiftClient, UncountWrite, tableVars
    <3>2. num \in [TopicIds -> [Kinds -> Int]]
      BY DEF TypeOK
    <3> QED
      BY <2>2, <3>1, <3>2
  <2>4. next_id'["pub"] \in Nat /\ next_id["pub"] <= next_id'["pub"]
    <3>1. UNCHANGED next_id \/ next_id' = [next_id EXCEPT ![Kind(c)] = @ + 1]
      BY <1>5 DEF Moves, Enlist, CountWrite, FindClient, ShiftClient, UncountWrite, tableVars
    <3> QED
      BY <1>3, <2>1, <3>1 DEF TypeOK, Kinds
  <2>5. \A i \in Positions : InUse(k, kind, i) => EntryAt(k, kind, i)' = EntryAt(k, kind, i)
    <3>1. CASE UNCHANGED cell
      BY <3>1 DEF EntryAt, BaseOf
    <3>2. CASE Enlist(c) \/ ShiftClient(c)
      <4>1. at[c] \in 0 .. Limit(c) - 1
        <5>1. /\ pc[c] = "enlist" => /\ at[c] = num[TopicId(c)][Kind(c)]
                                     /\ num[TopicId(c)][Kind(c)] < LimitOf(Kind(c))
              /\ pc[c] \in Unregistering => at[c] \in Nat
              /\ num[TopicId(c)][Kind(c)] \in 0 .. LimitOf(Kind(c))
          BY <2>1, AtOwnList DEF AtWork, Remembers, ListRight
        <5> QED
          BY <3>2, <5>1, KindOf DEF Enlist, ShiftClient, Unregistering
      <4>2. \E e : cell' = WithCell(TopicId(c), Base(c) + at[c], e)
        BY <3>2 DEF Enlist, ShiftClient, ShiftedLeft
      <4> QED
        BY <1>2, <2>1, <2>2, <4>1, <4>2, AtOwnList, OneEntryWritten
    <3> QED
      BY <1>5, <3>1, <3>2 DEF Moves, CountWrite, FindClient, UncountWrite, tableVars
  <2> QED
    BY <1>1, <2>1, <2>2, <2>3, <2>4, <2>5, ListKept
<1> QED
  BY <1>4, <1>5

\* The positions in use where one thread is at work.
AloneAtWork(c) == \A d \in Clients \ {c} : pc[d] \notin Registering \cup Unregistering
PositionsInUse ==
    \A c \in Clients, k \in TopicIds, kind \in Kinds, i \in Positions :
        AloneAtWork(c) /\ On(c, k, kind) =>
            (InUse(k, kind, i) <=> /\ i < num[k][kind] \/ (i = num[k][kind] /\ pc[c] \in Entered)
                                   /\ pc[c] \in Unregistering => i # Hole(c, num[k][kind]))
LEMMA InUseAlone == PositionsInUse
BY DEF PositionsInUse, AloneAtWork, InUse, Registering, Entered
LEMMA InUseAloneAfter == PositionsInUse'
BY InUseAlone, PTL

LEMMA OneAtWork ==
    ASSUME Phases, NEW c \in Clients, pc[c] \in Registering \/ Leaving(c)
    PROVE  AloneAtWork(c)
<1>1. CASE Leaving(c)
  BY <1>1 DEF Phases, AloneAtWork, Serving, Publishing, Registering, Unregistering
<1>2. CASE pc[c] \in Registering
  <2>1. \A d \in Clients : ~Leaving(d)
    BY <1>2 DEF Phases, Registering, Unregistering, Serving, Publishing
  <2> QED
    BY <1>2, <2>1 DEF Phases, AloneAtWork, Leaving, Unregistering
<1> QED
  BY <1>1, <1>2

\* What is known of the list a thread works on, before and after its step.
OwnList(c) ==
    /\ ListRight(TopicId(c), Kind(c)) /\ On(c, TopicId(c), Kind(c))
    /\ TopicId(c) \in TopicIds /\ TopicId(c) < current_topics /\ Kind(c) \in Kinds
    /\ num[TopicId(c)][Kind(c)] \in 0 .. LimitOf(Kind(c)) /\ LimitOf(Kind(c)) \in Nat
    /\ 0 .. LimitOf(Kind(c)) \subseteq Positions

LEMMA OwnListBefore ==
    ASSUME IdsInv, Phases, Lists, NEW c \in Clients, pc[c] \in Registered
    PROVE  /\ OwnList(c)
           /\ pc[c] \in Registering \/ Leaving(c) =>
                 \A i \in Positions :
                    InUse(TopicId(c), Kind(c), i) <=>
                      LET n == num[TopicId(c)][Kind(c)]
                      IN  /\ i < n \/ (i = n /\ pc[c] \in Entered)
                          /\ pc[c] \in Unregistering => i # Hole(c, n)
<1>1. OwnList(c)
  BY AtOwnList, KindOf, ConstantsAssumption DEF OwnList, ListRight, Positions, LimitOf
<1>2. pc[c] \in Registering \/ Leaving(c) => AloneAtWork(c)
  BY OneAtWork
<1> QED
  BY <1>1, <1>2, InUseAlone DEF OwnList, PositionsInUse

LEMMA OwnListAfter ==
    ASSUME IdsInv, Phases, Lists, NEW c \in Clients, pc[c] \in Registering \/ Leaving(c), Alone(c),
           pc[c] \in Registered, UNCHANGED topic_name,
           NEW k, k = TopicId(c)
    PROVE  /\ \A d \in Clients : On(d, k, Kind(c))' <=> On(d, k, Kind(c))
           /\ \A i \in Positions :
                 InUse(k, Kind(c), i)' <=>
                    /\ i < num'[k][Kind(c)] \/ (i = num'[k][Kind(c)] /\ pc'[c] \in Entered)
                    /\ pc'[c] \in Unregistering => i # Hole(c, num[k][Kind(c)])'
<1>1. AloneAtWork(c)'
  BY OneAtWork DEF AloneAtWork, Alone
<1>2. \A d \in Clients : On(d, k, Kind(c))' <=> On(d, k, Kind(c))
  BY DEF On, Kind
<1>3. On(c, k, Kind(c)) /\ k \in TopicIds /\ Kind(c) \in Kinds
  BY OwnListBefore DEF OwnList
<1> QED
  BY <1>1, <1>2, <1>3, InUseAloneAfter DEF PositionsInUse, Kind

\* The new entry goes behind the others, with a new id.
LEMMA EnlistOwnList ==
    ASSUME IdsInv, Phases, Lists, AtWork, NEW c \in Clients, Enlist(c), Alone(c),
           NEW k, k = TopicId(c), NEW kind, kind = Kind(c)
    PROVE  ListRight(k, kind)'
<1> DEFINE n == num[k][kind]
           new == [id |-> NewId(c), fd |-> c]
<1> USE DEF IdsInv, Inv
<1>1. pc[c] = "enlist" /\ pc[c] \in Registering /\ pc[c] \in Registered /\ pc[c] \notin Entered
  BY DEF Enlist, Registering, Registered, Entered
<1>2. pc'[c] = "respond" /\ pc'[c] \in Entered /\ pc'[c] \notin Unregistering /\ pc[c] \notin Unregistering
  BY <1>1 DEF TypeOK, Enlist, Entered, Unregistering
<1>3. OwnList(c) /\ \A i \in Positions : InUse(k, kind, i) <=> i < n
  BY <1>1, <1>2, OwnListBefore
<1>4. /\ at[c] = n /\ n < LimitOf(kind)
      /\ kind = "pub" => n <= next_id["pub"]
  BY <1>1, <1>3 DEF OwnList, AtWork, Remembers, On, ListRight
<1>5. /\ \A d \in Clients : On(d, k, kind)' <=> On(d, k, kind)
      /\ \A i \in Positions : InUse(k, kind, i)' <=> (i < num'[k][kind] \/ i = num'[k][kind])
  <2>1. UNCHANGED topic_name
    BY DEF Enlist
  <2> QED
    BY <1>1, <1>2, <2>1, OwnListAfter
<1>6. num' = num /\ n \in Nat
  BY <1>3 DEF Enlist, OwnList
<1>7. \A i \in 0 .. LimitOf(kind) - 1 :
          EntryAt(k, kind, i)' = IF i = n THEN new ELSE EntryAt(k, kind, i)
  <2>1. cell' = WithCell(k, Base(c) + at[c], new)
    BY DEF Enlist
  <2>2. at[c] \in 0 .. Limit(c) - 1
    BY <1>3, <1>4, <1>6, KindOf DEF OwnList
  <2> QED
    BY <1>3, <1>4, <2>1, <2>2, OneEntryWritten DEF OwnList
<1>8. /\ next_id["pub"] \in Nat /\ next_id[kind] \in Nat /\ next_id'[kind] = next_id[kind] + 1 /\ NewId(c) = next_id[kind]
      /\ kind = "pub" => next_id'["pub"] = next_id["pub"] + 1
  BY <1>3 DEF TypeOK, Enlist, NewId, OwnList, Kinds
<1>9. /\ \A d \in Clients \ {c} : Member(d)' <=> Member(d)
      /\ Member(c)' /\ ~Member(c)
  <2>1. ~Member(c)
    BY <1>1 DEF Member, DiedRegistered, Entered, Serving, Publishing
  <2> QED
    BY <1>2, <2>1, OthersStand DEF SameStanding, Member
<1>10. ASSUME NEW i \in Positions, InUse(k, kind, i)
       PROVE  /\ i \in 0 .. LimitOf(kind) - 1 /\ i < n /\ i < LimitOf(kind)
              /\ EntryAt(k, kind, i).fd \in Clients /\ EntryAt(k, kind, i).fd # c
              /\ On(EntryAt(k, kind, i).fd, k, kind) /\ Member(EntryAt(k, kind, i).fd)
              /\ EntryAt(k, kind, i).id < next_id[kind] /\ EntryAt(k, kind, i).id \in Int
  <2>1. /\ i \in 0 .. LimitOf(kind) - 1 /\ i < n /\ i < LimitOf(kind) /\ k \in TopicIds
        /\ EntryAt(k, kind, i).fd \in Clients
        /\ On(EntryAt(k, kind, i).fd, k, kind) /\ Member(EntryAt(k, kind, i).fd)
    BY <1>3, <1>10 DEF ListRight, OwnList, Positions
  <2>2. BaseOf(kind) + i \in Cells
    BY <2>1, ConstantsAssumption DEF BaseOf, LimitOf, Cells
  <2>3. EntryAt(k, kind, i).id < next_id[kind] /\ EntryAt(k, kind, i).id \in Int
    <3>1. PICK l \in Cells : EntryAt(k, kind, i) = cell[k][l]
      BY <2>2 DEF EntryAt
    <3>2. cell[k][l].fd # NoSocket /\ Kind(cell[k][l].fd) = kind
      BY <2>1, <3>1, ConstantsAssumption DEF On
    <3>3. cell[k][l].id < next_id[Kind(cell[k][l].fd)] /\ cell[k][l] \in Entry
      BY <2>1, <3>2 DEF IdsTaken, TypeOK
    <3> QED
      BY <3>1, <3>2, <3>3 DEF Entry
  <2> QED
    BY <1>9, <2>1, <2>3
<1> HIDE DEF new
<1>11. \A i \in Positions : InUse(k, kind, i)' <=> InUse(k, kind, i) \/ i = n
  BY <1>3, <1>5, <1>6 DEF Positions
<1>12. n \in Positions /\ n \in 0 .. LimitOf(kind) - 1
  BY <1>3, <1>4, <1>6 DEF OwnList
<1>13. new.fd = c /\ new.id = next_id[kind] /\ On(c, k, kind)'
  BY <1>3, <1>5, <1>8 DEF new, OwnList
<1>14. (num[k][kind] \in 0 .. LimitOf(kind) /\ (kind = "pub" => num[k][kind] <= next_id["pub"]))'
  BY <1>3, <1>4, <1>6, <1>8 DEF OwnList, LimitOf
<1>15. ASSUME NEW i \in Positions, InUse(k, kind, i)'
       PROVE  (/\ i < LimitOf(kind)
               /\ kind = "pub" => i < next_id["pub"]
               /\ EntryAt(k, kind, i).fd \in Clients
               /\ On(EntryAt(k, kind, i).fd, k, kind) /\ Member(EntryAt(k, kind, i).fd))'
  <2>1. CASE i = n
    <3>1. EntryAt(k, kind, i)' = new
      BY <1>7, <1>12, <2>1
    <3>2. i < LimitOf(kind) /\ (kind = "pub" => i < next_id'["pub"])
      BY <1>3, <1>4, <1>6, <1>8, <2>1 DEF OwnList
    <3> QED
      BY <1>9, <1>13, <3>1, <3>2 DEF LimitOf
  <2>2. CASE i # n
    <3>1. InUse(k, kind, i)
      BY <1>11, <1>15, <2>2
    <3>2. PICK d \in Clients : d = EntryAt(k, kind, i).fd /\ d # c /\ On(d, k, kind) /\ Member(d)
      BY <1>10, <3>1
    <3>3. EntryAt(k, kind, i)' = EntryAt(k, kind, i)
      BY <1>7, <1>10, <2>2, <3>1
    <3>4. i < LimitOf(kind) /\ (kind = "pub" => i < next_id'["pub"])
      <4>1. i < n /\ i \in Int /\ i < LimitOf(kind)
        BY <1>10, <3>1 DEF Positions
      <4> QED
        BY <1>4, <1>6, <1>8, <4>1
    <3>5. On(d, k, kind)' /\ Member(d)'
      BY <1>5, <1>9, <3>2
    <3> QED
      BY <3>2, <3>3, <3>4, <3>5 DEF LimitOf
  <2> QED
    BY <2>1, <2>2
<1>16. ASSUME NEW d \in Clients, On(d, k, kind)', Member(d)'
       PROVE  \E i \in Positions : InUse(k, kind, i)' /\ EntryAt(k, kind, i)'.fd = d
  <2>1. CASE d = c
    BY <1>7, <1>11, <1>12, <1>13, <2>1
  <2>2. CASE d # c
    <3>1. On(d, k, kind) /\ Member(d)
      BY <1>5, <1>9, <1>16, <2>2
    <3>2. PICK i \in Positions : InUse(k, kind, i) /\ EntryAt(k, kind, i).fd = d
      BY <1>3, <3>1 DEF OwnList, ListRight
    <3>3. i # n /\ i \in 0 .. LimitOf(kind) - 1
      BY <1>6, <1>10, <3>2
    <3> QED
      BY <1>7, <1>11, <3>2, <3>3
  <2> QED
    BY <2>1, <2>2
<1>17. ASSUME NEW i \in Positions, NEW j \in Positions, InUse(k, kind, i)', InUse(k, kind, j)', i < j
       PROVE  EntryAt(k, kind, i)'.id < EntryAt(k, kind, j)'.id
  <2>1. InUse(k, kind, i) /\ i < n
    BY <1>3, <1>5, <1>6, <1>11, <1>17 DEF Positions
  <2>2. EntryAt(k, kind, i)' = EntryAt(k, kind, i)
    BY <1>7, <1>10, <2>1
  <2>3. CASE j = n
    BY <1>7, <1>10, <1>12, <1>13, <2>1, <2>2, <2>3
  <2>4. CASE j # n
    <3>1. InUse(k, kind, j) /\ EntryAt(k, kind, j)' = EntryAt(k, kind, j)
      BY <1>7, <1>10, <1>11, <1>17, <2>4
    <3> QED
      BY <1>3, <1>17, <2>1, <2>2, <3>1 DEF OwnList, ListRight
  <2> QED
    BY <2>3, <2>4
<1> HIDE DEF InUse, EntryAt, On, Member, n
<1> QED
  BY <1>14, <1>15, <1>16, <1>17 DEF ListRight, Positions

\* Counting the new entry changes nothing about who is in the list.
LEMMA CountOwnList ==
    ASSUME IdsInv, Phases, Lists, AtWork, NEW c \in Clients, CountWrite(c), Alone(c),
           NEW k, k = TopicId(c), NEW kind, kind = Kind(c)
    PROVE  ListRight(k, kind)'
<1> DEFINE n == num[k][kind]
<1> USE DEF IdsInv, Inv
<1>1. /\ pc[c] = "count_write" /\ pc[c] \in Registering /\ pc[c] \in Registered /\ pc[c] \in Entered
      /\ pc[c] \notin Unregistering
  BY DEF CountWrite, Registering, Registered, Entered, Unregistering
<1>2. pc'[c] = "serving" /\ pc'[c] \notin Entered /\ pc'[c] \notin Unregistering
  BY DEF TypeOK, CountWrite, Entered, Unregistering
<1>3. OwnList(c) /\ \A i \in Positions : InUse(k, kind, i) <=> i < n \/ i = n
  BY <1>1, OwnListBefore
<1>4. /\ \A d \in Clients : On(d, k, kind)' <=> On(d, k, kind)
      /\ \A i \in Positions : InUse(k, kind, i)' <=> i < num'[k][kind]
  <2>1. UNCHANGED topic_name
    BY DEF CountWrite
  <2> QED
    BY <1>1, <1>2, <2>1, OwnListAfter
<1>5. num'[k][kind] = n + 1 /\ n \in Nat
  <2>1. val[c] = n
    BY <1>1, <1>3 DEF OwnList, AtWork, Remembers, On
  <2> QED
    BY <1>3, <2>1 DEF OwnList, TypeOK, CountWrite
<1>6. /\ num'[k][kind] \in 0 .. LimitOf(kind)
      /\ kind = "pub" => num'[k][kind] <= next_id'["pub"]
      /\ next_id'["pub"] \in Nat /\ next_id' = next_id
  <2>1. next_id["pub"] \in Nat /\ next_id' = next_id
    BY DEF TypeOK, Kinds, CountWrite
  <2>2. n \in Positions
    BY <1>3 DEF OwnList
  <2>3. n < LimitOf(kind) /\ (kind = "pub" => n < next_id["pub"])
    BY <1>3, <2>2 DEF OwnList, ListRight
  <2> QED
    BY <1>3, <1>5, <2>1, <2>3 DEF OwnList
<1>7. \A d \in Clients : Member(d)' <=> Member(d)
  <2>1. Member(c)' /\ Member(c)
    BY <1>1, <1>2 DEF Member, Serving
  <2> QED
    BY <2>1, OthersStand DEF SameStanding
<1>8. \A i \in Positions : InUse(k, kind, i)' <=> InUse(k, kind, i)
  BY <1>3, <1>4, <1>5 DEF Positions
<1>9. \A i \in Positions : EntryAt(k, kind, i)' = EntryAt(k, kind, i)
  BY DEF EntryAt, BaseOf, CountWrite
<1>10. next_id["pub"] <= next_id'["pub"]
  BY <1>6
<1> HIDE DEF InUse, EntryAt, On, Member, n
<1> QED
  BY <1>3, <1>4, <1>6, <1>7, <1>8, <1>9, <1>10, ListSame DEF OwnList

\* Nor does counting off one that is not there any more.
LEMMA UncountOwnList ==
    ASSUME IdsInv, Phases, Lists, AtWork, NEW c \in Clients, UncountWrite(c), Alone(c),
           NEW k, k = TopicId(c), NEW kind, kind = Kind(c)
    PROVE  ListRight(k, kind)'
<1> DEFINE n == num[k][kind]
<1> USE DEF IdsInv, Inv
<1>1. /\ pc[c] = "uncount_write" /\ pc[c] \in Registered /\ pc[c] \notin Entered
      /\ pc[c] \in Unregistering /\ Leaving(c)
  BY DEF UncountWrite, Registered, Entered, Unregistering, Phases, Leaving
<1>2. pc'[c] = "gone" /\ pc'[c] \notin Entered /\ pc'[c] \notin Unregistering
  BY DEF TypeOK, UncountWrite, Entered, Unregistering
<1>3. OwnList(c) /\ \A i \in Positions : InUse(k, kind, i) <=> i < n /\ i # Hole(c, n)
  BY <1>1, OwnListBefore
<1>4. /\ \A d \in Clients : On(d, k, kind)' <=> On(d, k, kind)
      /\ \A i \in Positions : InUse(k, kind, i)' <=> i < num'[k][kind]
  <2>1. UNCHANGED topic_name
    BY DEF UncountWrite
  <2> QED
    BY <1>1, <1>2, <2>1, OwnListAfter
<1>5. val[c] = n /\ n >= 1 /\ at[c] >= LimitOf(kind) /\ at[c] \in Nat
  BY <1>1, <1>3 DEF OwnList, AtWork, Remembers, On
<1>6. num'[k][kind] = n - 1 /\ n \in Nat /\ Hole(c, n) = n - 1
  BY <1>3, <1>5 DEF OwnList, TypeOK, UncountWrite, Hole
<1>7. /\ num'[k][kind] \in 0 .. LimitOf(kind)
      /\ kind = "pub" => num'[k][kind] <= next_id'["pub"]
      /\ next_id'["pub"] \in Nat /\ next_id["pub"] <= next_id'["pub"]
  <2>1. next_id["pub"] \in Nat /\ next_id' = next_id
    BY DEF TypeOK, Kinds, UncountWrite
  <2> QED
    BY <1>3, <1>5, <1>6, <2>1 DEF OwnList, ListRight
<1>8. \A d \in Clients : Member(d)' <=> Member(d)
  <2>1. ~Member(c)' /\ ~Member(c)
    BY <1>1, <1>2 DEF UncountWrite, clientVars, Leaving, Member, DiedRegistered, Entered, Serving, Publishing
  <2> QED
    BY <2>1, OthersStand DEF SameStanding
<1>9. \A i \in Positions : InUse(k, kind, i)' <=> InUse(k, kind, i)
  BY <1>3, <1>4, <1>6 DEF Positions
<1>10. \A i \in Positions : EntryAt(k, kind, i)' = EntryAt(k, kind, i)
  BY DEF EntryAt, BaseOf, UncountWrite
<1> HIDE DEF InUse, EntryAt, On, Member, n
<1> QED
  BY <1>3, <1>4, <1>7, <1>8, <1>9, <1>10, ListSame DEF OwnList

\* The search stops at the first entry with the id.
LEMMA PositionIsFirst ==
    ASSUME NEW c \in Clients, NEW id, NEW i \in 0 .. Limit(c) - 1,
           cell[TopicId(c)][Base(c) + i].id = id
    PROVE  /\ PositionOf(c, id) \in 0 .. Limit(c) - 1 /\ PositionOf(c, id) <= i
           /\ cell[TopicId(c)][Base(c) + PositionOf(c, id)].id = id
<1> DEFINE hits == {j \in 0 .. Limit(c) - 1 : cell[TopicId(c)][Base(c) + j].id = id}
<1>1. i \in hits /\ hits \in SUBSET Nat
  OBVIOUS
<1>2. PICK first \in hits : \A j \in hits : first <= j
  BY <1>1, LeastNatural
<1>3. PositionOf(c, id) = CHOOSE j \in hits : \A l \in hits : j <= l
  BY <1>1 DEF PositionOf
<1>4. PositionOf(c, id) \in hits /\ \A j \in hits : PositionOf(c, id) <= j
  <2> HIDE DEF hits
  <2> QED
    BY <1>2, <1>3
<1> QED
  BY <1>1, <1>4

\* An unregistering client's id is that of its entry, so it finds its entry.
LEMMA FindsOwn ==
    ASSUME IdsInv, Phases, Lives, Told, Lists, NEW c \in Clients, FindClient(c),
           NEW k, k = TopicId(c), NEW kind, kind = Kind(c), NEW a, a = PositionOf(c, bye[c])
    PROVE  /\ OwnList(c) /\ \A i \in Positions : InUse(k, kind, i) <=> i < num[k][kind]
           /\ a \in 0 .. num[k][kind] - 1 /\ EntryAt(k, kind, a).fd = c
           /\ at'[c] = a /\ fd_to_del'[c] = c
<1> DEFINE n == num[k][kind]
<1> USE DEF IdsInv, Inv
<1>1. /\ pc[c] = "serving" /\ pc[c] \in Registered /\ pc[c] \notin Entered /\ pc[c] \notin Unregistering
      /\ bye[c] # NotSent /\ Leaving(c)
  BY DEF FindClient, Registered, Entered, Unregistering, Leaving
<1>2. OwnList(c) /\ \A i \in Positions : InUse(k, kind, i) <=> i < n
  BY <1>1, OwnListBefore
<1>3. client[c] = "leaving"
  BY <1>1 DEF Lives, Life, TypeOK, ClientStates
<1>4. PICK i \in Positions : InUse(k, kind, i) /\ EntryAt(k, kind, i).fd = c
  <2>1. Member(c)
    BY <1>1 DEF Member, Serving
  <2> QED
    BY <1>2, <2>1 DEF OwnList, ListRight
<1>5. /\ k \in TopicIds /\ n \in 0 .. Limit(c) /\ Limit(c) \in Nat /\ LimitOf(kind) = Limit(c)
      /\ Base(c) = BaseOf(kind) /\ Base(c) \in Nat
      /\ \A j \in 0 .. Limit(c) - 1 : Base(c) + j \in Cells
  BY <1>2, KindOf, ConstantsAssumption DEF OwnList, Cells
<1>6. i < n /\ i \in 0 .. Limit(c) - 1
  BY <1>2, <1>4, <1>5 DEF Positions
<1>7. EntryAt(k, kind, i).id = bye[c]
  BY <1>3, <1>4, <1>5, <1>6, ConstantsAssumption DEF EntryAt, Told, Tells
<1>8. a \in 0 .. Limit(c) - 1 /\ a <= i /\ EntryAt(k, kind, a).id = bye[c]
  BY <1>5, <1>6, <1>7, PositionIsFirst DEF EntryAt
<1>9. InUse(k, kind, a) /\ a < n
  BY <1>2, <1>5, <1>6, <1>8 DEF OwnList
<1>10. a = i
  <2>1. bye[c] \in Int /\ a \in Positions
    BY <1>2, <1>5, <1>8 DEF TypeOK, OwnList
  <2>2. ~(a < i)
    BY <1>2, <1>4, <1>7, <1>8, <1>9, <2>1 DEF OwnList, ListRight
  <2> QED
    BY <1>8, <2>2 DEF Positions
<1>11. FdsAt(c, a) = {c}
  <2>1. CellAt(k, Base(c) + a) = EntryAt(k, kind, a)
    BY <1>5, <1>8 DEF CellAt, EntryAt
  <2> QED
    BY <1>4, <1>5, <1>8, <1>10, <2>1 DEF FdsAt
<1>12. at'[c] = a /\ fd_to_del'[c] = c
  BY <1>11 DEF FindClient, TypeOK
<1> QED
  BY <1>2, <1>4, <1>5, <1>6, <1>10, <1>12

\* From then on its position is the hole.
LEMMA FindOwnList ==
    ASSUME IdsInv, Phases, Lives, Told, Lists, NEW c \in Clients, FindClient(c), Alone(c),
           NEW k, k = TopicId(c), NEW kind, kind = Kind(c)
    PROVE  ListRight(k, kind)'
<1> DEFINE n == num[k][kind]
<1> SUFFICES ASSUME NEW a, a = PositionOf(c, bye[c]) PROVE ListRight(k, kind)'
  OBVIOUS
<1> USE DEF IdsInv, Inv
<1>1. /\ pc[c] = "serving" /\ pc[c] \in Registered /\ Leaving(c)
      /\ pc'[c] = "shift" /\ pc'[c] \notin Entered /\ pc'[c] \in Unregistering
      /\ UNCHANGED <<client, bye, client_id, cell, num, next_id, topic_name>>
  BY DEF TypeOK, FindClient, Registered, Entered, Unregistering, Leaving, clientVars, tableVars
<1>2. /\ OwnList(c) /\ \A i \in Positions : InUse(k, kind, i) <=> i < n
      /\ a \in 0 .. n - 1 /\ EntryAt(k, kind, a).fd = c /\ at'[c] = a
  BY FindsOwn
<1>3. /\ \A d \in Clients : On(d, k, kind)' <=> On(d, k, kind)
      /\ \A i \in Positions : InUse(k, kind, i)' <=> i < n /\ i # a
  <2>1. at'[c] = a /\ a < num'[k][kind] /\ num'[k][kind] = n
    BY <1>1, <1>2 DEF OwnList
  <2>2. Hole(c, num[k][kind])' = a
    BY <2>1 DEF Hole
  <2> QED
    BY <1>1, <1>2, <2>1, <2>2, OwnListAfter
<1>4. \A i \in Positions : EntryAt(k, kind, i)' = EntryAt(k, kind, i)
  BY <1>1 DEF EntryAt, BaseOf
<1>5. /\ \A d \in Clients \ {c} : Member(d)' <=> Member(d)
      /\ ~Member(c)'
  <2>1. ~Member(c)'
    BY <1>1 DEF Member, DiedRegistered, Entered, Serving, Publishing
  <2> QED
    BY <2>1, OthersStand DEF SameStanding
<1>6. a \in Positions /\ InUse(k, kind, a) /\ n \in Nat /\ n \in 0 .. LimitOf(kind)
  BY <1>2 DEF OwnList
<1>7. ASSUME NEW i \in Positions, InUse(k, kind, i), i # a PROVE EntryAt(k, kind, i).fd # c
  <2>1. /\ i \in 0 .. LimitOf(kind) - 1 /\ a \in 0 .. LimitOf(kind) - 1 /\ k \in TopicIds /\ kind \in Kinds
    BY <1>2, <1>6, <1>7 DEF OwnList, Positions
  <2>2. BaseOf(kind) + i \in Cells /\ BaseOf(kind) + a \in Cells
    BY <2>1, ConstantsAssumption DEF BaseOf, LimitOf, Cells
  <2>3. EntryAt(k, kind, i).id # EntryAt(k, kind, a).id
    <3>1. EntryAt(k, kind, i).id \in Int /\ EntryAt(k, kind, a).id \in Int
      BY <2>1, <2>2 DEF EntryAt, TypeOK, Entry
    <3>2. i < a \/ a < i
      BY <1>7, <1>6 DEF Positions
    <3> QED
      BY <1>2, <1>6, <1>7, <3>1, <3>2 DEF OwnList, ListRight
  <2>4. c # NoSocket
    BY ConstantsAssumption
  <2> QED
    BY <1>2, <2>1, <2>2, <2>3, <2>4 DEF EntryAt, IdsNameOneClient
<1>8. (num[k][kind] \in 0 .. LimitOf(kind) /\ (kind = "pub" => num[k][kind] <= next_id["pub"]))'
  BY <1>1, <1>2 DEF OwnList, ListRight, LimitOf
<1>9. ASSUME NEW i \in Positions, InUse(k, kind, i)'
      PROVE  (/\ i < LimitOf(kind)
              /\ kind = "pub" => i < next_id["pub"]
              /\ EntryAt(k, kind, i).fd \in Clients
              /\ On(EntryAt(k, kind, i).fd, k, kind) /\ Member(EntryAt(k, kind, i).fd))'
  <2>1. InUse(k, kind, i) /\ i # a
    BY <1>2, <1>3, <1>9
  <2>2. PICK d \in Clients : d = EntryAt(k, kind, i).fd /\ d # c /\ On(d, k, kind) /\ Member(d)
    BY <1>2, <1>7, <2>1 DEF OwnList, ListRight
  <2>3. On(d, k, kind)' /\ Member(d)'
    BY <1>3, <1>5, <2>2
  <2>4. i < LimitOf(kind) /\ (kind = "pub" => i < next_id'["pub"])
    BY <1>1, <1>2, <2>1 DEF OwnList, ListRight
  <2> QED
    BY <1>4, <2>2, <2>3, <2>4 DEF LimitOf
<1>10. ASSUME NEW d \in Clients, On(d, k, kind)', Member(d)'
       PROVE  \E i \in Positions : InUse(k, kind, i)' /\ EntryAt(k, kind, i)'.fd = d
  <2>1. d # c /\ On(d, k, kind) /\ Member(d)
    BY <1>3, <1>5, <1>10
  <2>2. PICK i \in Positions : InUse(k, kind, i) /\ EntryAt(k, kind, i).fd = d
    BY <1>2, <2>1 DEF OwnList, ListRight
  <2> QED
    BY <1>2, <1>3, <1>4, <2>1, <2>2
<1>11. \A i, j \in Positions : InUse(k, kind, i)' /\ InUse(k, kind, j)' /\ i < j =>
           EntryAt(k, kind, i)'.id < EntryAt(k, kind, j)'.id
  BY <1>2, <1>3, <1>4 DEF OwnList, ListRight
<1> HIDE DEF InUse, EntryAt, On, Member, n
<1> QED
  BY <1>8, <1>9, <1>10, <1>11 DEF ListRight, Positions

\* A turn of the copy loop moves the hole up by one, until it is the last
\* counted position.
LEMMA ShiftOwnList ==
    ASSUME IdsInv, Phases, Lists, AtWork, NEW c \in Clients, ShiftClient(c), Alone(c),
           NEW k, k = TopicId(c), NEW kind, kind = Kind(c)
    PROVE  ListRight(k, kind)'
<1> DEFINE n == num[k][kind]
<1> SUFFICES ASSUME NEW a, a = at[c] PROVE ListRight(k, kind)'
  OBVIOUS
<1> USE DEF IdsInv, Inv
<1>1. /\ pc[c] = "shift" /\ pc'[c] = "shift" /\ pc[c] \in Registered /\ Leaving(c)
      /\ pc[c] \notin Entered /\ pc[c] \in Unregistering
      /\ UNCHANGED <<client, bye, client_id, pc, num, next_id, topic_name>>
  BY DEF TypeOK, ShiftClient, Registered, Entered, Unregistering, Leaving, Phases, clientVars
<1>2. /\ OwnList(c) /\ \A i \in Positions : InUse(k, kind, i) <=> i < n /\ i # Hole(c, n)
  BY <1>1, OwnListBefore
<1>3. /\ n \in Nat /\ n >= 1 /\ n <= LimitOf(kind) /\ LimitOf(kind) \in Nat
      /\ a \in 0 .. LimitOf(kind) - 1 /\ a \in 0 .. Limit(c) - 1 /\ at'[c] = a + 1
  <2>1. n >= 1 /\ a \in Nat
    BY <1>1, <1>2 DEF OwnList, AtWork, Remembers, On
  <2>2. a < Limit(c) /\ at'[c] = a + 1
    BY DEF ShiftClient, TypeOK
  <2> QED
    BY <1>2, <2>1, <2>2, KindOf DEF OwnList
<1>4. /\ \A d \in Clients : On(d, k, kind)' <=> On(d, k, kind)
      /\ \A i \in Positions : InUse(k, kind, i)' <=> i < n /\ i # Hole(c, num[k][kind])'
  BY <1>1, OwnListAfter
<1>5. Hole(c, n) = IF a < n - 1 THEN a ELSE n - 1
  BY <1>3 DEF Hole
<1>6. Hole(c, num[k][kind])' = IF a < n - 1 THEN a + 1 ELSE n - 1
  <2>1. num'[k][kind] = n
    BY <1>1
  <2>2. (IF at[c] < num[k][kind] THEN at[c] ELSE num[k][kind] - 1)' = IF a + 1 < n THEN a + 1 ELSE n - 1
    BY <1>3, <2>1
  <2> QED
    BY <1>3, <2>2 DEF Hole
<1>7. \A i \in 0 .. LimitOf(kind) - 1 :
          EntryAt(k, kind, i)' = IF i = a THEN CellAt(k, Base(c) + a + 1) ELSE EntryAt(k, kind, i)
  <2>1. cell' = WithCell(k, Base(c) + a, CellAt(k, Base(c) + a + 1))
    BY DEF ShiftClient, ShiftedLeft
  <2> QED
    BY <1>2, <1>3, <2>1, OneEntryWritten DEF OwnList
<1>8. \A d \in Clients : Member(d)' <=> Member(d)
  BY <1>1 DEF Member, DiedRegistered
<1>9. /\ num'[k][kind] \in 0 .. LimitOf(kind)
      /\ kind = "pub" => num'[k][kind] <= next_id'["pub"]
      /\ next_id["pub"] \in Nat /\ next_id' = next_id
  BY <1>1, <1>2 DEF OwnList, ListRight, TypeOK, Kinds
<1>10. CASE a >= n - 1
  <2>1. \A i \in Positions : InUse(k, kind, i)' <=> InUse(k, kind, i)
    BY <1>2, <1>3, <1>4, <1>5, <1>6, <1>10
  <2>2. \A i \in Positions : InUse(k, kind, i) => EntryAt(k, kind, i)' = EntryAt(k, kind, i)
    <3>1. \A i \in Positions : InUse(k, kind, i) => i \in 0 .. LimitOf(kind) - 1 /\ i # a
      BY <1>2, <1>3, <1>5, <1>10 DEF Positions
    <3> QED
      BY <1>7, <3>1
  <2>3. next_id'["pub"] \in Nat /\ next_id["pub"] <= next_id'["pub"]
    BY <1>9
  <2> HIDE DEF InUse, EntryAt, On, Member, n
  <2> QED
    BY <1>2, <1>4, <1>8, <1>9, <2>1, <2>2, <2>3, ListSame DEF OwnList
<1>11. CASE a < n - 1
  <2> DEFINE o(i) == IF i = a THEN a + 1 ELSE i
  <2>1. \A i \in Positions : InUse(k, kind, i) <=> i < n /\ i # a
    BY <1>2, <1>5, <1>11
  <2>2. \A i \in Positions : InUse(k, kind, i)' <=> i < n /\ i # a + 1
    BY <1>4, <1>6, <1>11
  <2>3. a \in Positions /\ a + 1 \in Positions /\ a + 1 < n
    BY <1>2, <1>3, <1>11 DEF OwnList
  <2>4. \A i \in Positions : InUse(k, kind, i)' => o(i) \in Positions /\ InUse(k, kind, o(i))
    BY <1>3, <2>1, <2>2, <2>3 DEF Positions
  <2>5. \A i \in 0 .. LimitOf(kind) - 1 : i # a => EntryAt(k, kind, i)' = EntryAt(k, kind, i)
    BY <1>7
  <2>6. EntryAt(k, kind, a)' = EntryAt(k, kind, a + 1)
    <3>1. BaseOf(kind) + (a + 1) \in Cells /\ Base(c) + a + 1 = BaseOf(kind) + (a + 1)
      <4>1. BaseOf(kind) \in Nat /\ Base(c) = BaseOf(kind)
            /\ BaseOf(kind) + LimitOf(kind) <= MaxSubscribers + MaxPublishers
        BY KindOf
      <4> QED
        BY <1>3, <2>3, <4>1, ConstantsAssumption DEF Cells
    <3> QED
      BY <1>3, <1>7, <3>1 DEF CellAt, EntryAt
  <2>7. \A i \in Positions : InUse(k, kind, i)' => EntryAt(k, kind, i)' = EntryAt(k, kind, o(i))
    <3>1. \A i \in Positions : InUse(k, kind, i)' => i \in 0 .. LimitOf(kind) - 1
      BY <1>3, <2>2 DEF Positions
    <3> QED
      BY <2>5, <2>6, <3>1
  <2>8. (num[k][kind] \in 0 .. LimitOf(kind) /\ (kind = "pub" => num[k][kind] <= next_id["pub"]))'
    BY <1>9 DEF LimitOf
  <2>9. ASSUME NEW i \in Positions, InUse(k, kind, i)'
        PROVE  (/\ i < LimitOf(kind)
                /\ kind = "pub" => i < next_id["pub"]
                /\ EntryAt(k, kind, i).fd \in Clients
                /\ On(EntryAt(k, kind, i).fd, k, kind) /\ Member(EntryAt(k, kind, i).fd))'
    <3>1. /\ o(i) \in Positions /\ InUse(k, kind, o(i))
          /\ EntryAt(k, kind, i)' = EntryAt(k, kind, o(i))
      BY <2>4, <2>7, <2>9
    <3>2. /\ o(i) < LimitOf(kind) /\ (kind = "pub" => o(i) < next_id["pub"])
          /\ EntryAt(k, kind, o(i)).fd \in Clients
          /\ On(EntryAt(k, kind, o(i)).fd, k, kind) /\ Member(EntryAt(k, kind, o(i)).fd)
      <4> HIDE DEF o
      <4> QED
        BY <1>2, <3>1 DEF OwnList, ListRight
    <3>3. PICK d \in Clients : d = EntryAt(k, kind, i)'.fd /\ On(d, k, kind) /\ Member(d)
      BY <3>1, <3>2
    <3>4. On(d, k, kind)' /\ Member(d)'
      BY <1>4, <1>8, <3>3
    <3>5. i < LimitOf(kind) /\ (kind = "pub" => i < next_id'["pub"])
      BY <1>3, <1>9, <3>2 DEF Positions
    <3> QED
      BY <3>3, <3>4, <3>5 DEF LimitOf
  <2>10. ASSUME NEW d \in Clients, On(d, k, kind)', Member(d)'
         PROVE  \E i \in Positions : InUse(k, kind, i)' /\ EntryAt(k, kind, i)'.fd = d
    <3>1. On(d, k, kind) /\ Member(d)
      BY <1>4, <1>8, <2>10
    <3>2. PICK j \in Positions : InUse(k, kind, j) /\ EntryAt(k, kind, j).fd = d
      BY <1>2, <3>1 DEF OwnList, ListRight
    <3>3. j < n /\ j # a
      BY <2>1, <3>2
    <3>4. CASE j = a + 1
      BY <1>3, <2>2, <2>3, <2>6, <3>2, <3>4
    <3>5. CASE j # a + 1
      <4>1. InUse(k, kind, j)' /\ j \in 0 .. LimitOf(kind) - 1
        BY <1>3, <2>2, <3>3, <3>5 DEF Positions
      <4> QED
        BY <2>5, <3>2, <3>3, <4>1
    <3> QED
      BY <3>4, <3>5
  <2>11. ASSUME NEW i \in Positions, NEW j \in Positions,
                InUse(k, kind, i)', InUse(k, kind, j)', i < j
         PROVE  EntryAt(k, kind, i)'.id < EntryAt(k, kind, j)'.id
    <3>1. o(i) < o(j)
      BY <1>3, <2>2, <2>11 DEF Positions
    <3>2. /\ o(i) \in Positions /\ InUse(k, kind, o(i)) /\ EntryAt(k, kind, i)' = EntryAt(k, kind, o(i))
          /\ o(j) \in Positions /\ InUse(k, kind, o(j)) /\ EntryAt(k, kind, j)' = EntryAt(k, kind, o(j))
      BY <2>4, <2>7, <2>11
    <3> HIDE DEF o
    <3> QED
      BY <1>2, <3>1, <3>2 DEF OwnList, ListRight
  <2> HIDE DEF InUse, EntryAt, On, Member, n, o
  <2> QED
    BY <2>8, <2>9, <2>10, <2>11 DEF ListRight, Positions
<1> QED
  BY <1>3, <1>10, <1>11

\* A list nobody is on yet.
LEMMA NewList ==
    ASSUME IdsInv, Phases, Rooted, Lists, NEW c \in Clients, RegisterSubscriber(c), Alone(c),
           NEW k \in TopicIds, NEW kind \in Kinds, ~(k < current_topics), k < current_topics'
    PROVE  ListRight(k, kind)'
<1> USE DEF IdsInv, Inv
<1>1. current_topics \in Nat
  BY ConstantsAssumption DEF TypeOK
<1>2. /\ ~TopicExists(TopicOf[c]) /\ k = current_topics
      /\ topic_name'[k] = TopicOf[c]
  <2>1. ~TopicExists(TopicOf[c])
    BY DEF RegisterSubscriber
  <2>2. current_topics' = current_topics + 1
    BY <2>1 DEF RegisterSubscriber
  <2>3. k = current_topics
    BY <1>1, <2>2 DEF TopicIds
  <2>4. topic_name' = [topic_name EXCEPT ![current_topics] = TopicOf[c]]
    BY <2>1 DEF RegisterSubscriber
  <2> QED
    BY <2>1, <2>3, <2>4 DEF TypeOK
<1>3. /\ pc[c] = "recv_register" /\ pc'[c] = "enlist" /\ mutex3 = NoOne
      /\ UNCHANGED <<num, next_id, client, bye, client_id>>
  BY DEF TypeOK, RegisterSubscriber, ReceivesRegister, clientVars
<1>4. num'[k][kind] = 0
  BY <1>3 DEF Lists
<1>5. \A d \in Clients : pc'[d] \notin Entered
  <2>1. \A d \in Clients : pc[d] \notin Registering
    BY <1>3, ConstantsAssumption DEF Phases
  <2> QED
    BY <1>3, <2>1 DEF Alone, Entered, Registering
<1>6. \A d \in Clients : Member(d)' => Member(d)
  <2>1. ~Member(c)'
    BY <1>3 DEF Member, DiedRegistered, Entered, Serving, Publishing
  <2> QED
    BY <2>1, OthersStand DEF SameStanding
<1>7. \A i \in Positions : ~InUse(k, kind, i)'
  BY <1>4, <1>5 DEF InUse, Positions
<1>8. \A d \in Clients : On(d, k, kind)' => ~Member(d)'
  <2>1. ~Exists(TopicOf[c])
    BY <1>2, GetTopicId DEF Table
  <2>2. ASSUME NEW d \in Clients, On(d, k, kind)' PROVE TopicOf[d] = TopicOf[c]
    BY <1>2, <2>2 DEF On
  <2>3. \A d \in Clients : TopicOf[d] = TopicOf[c] => ~Member(d)
    BY <2>1 DEF Rooted
  <2> QED
    BY <1>6, <2>2, <2>3
<1>9. (num[k][kind] \in 0 .. LimitOf(kind) /\ (kind = "pub" => num[k][kind] <= next_id["pub"]))'
  BY <1>3, <1>4, ConstantsAssumption DEF LimitOf, TypeOK, Kinds
<1> HIDE DEF InUse, EntryAt, On, Member
<1> QED
  BY <1>7, <1>8, <1>9 DEF ListRight, Positions

\* The lists a thread does not work on keep their counts.
LEMMA ListsStep ==
    ASSUME OneAtATime, IdsInv, Phases, Lives, Told, Rooted, Lists, AtWork,
           NEW c \in Clients, User(c) \/ ThreadStep(c) \/ ClientStep(c), Alone(c)
    PROVE  Lists'
<1> USE DEF IdsInv, Inv
<1> SUFFICES ASSUME NEW k \in TopicIds, NEW kind \in Kinds
             PROVE  /\ k < current_topics' => ListRight(k, kind)'
                    /\ ~(k < current_topics') => num'[k][kind] = 0
  BY DEF Lists
<1>1. CASE Quiet(c)
  <2>1. /\ UNCHANGED <<current_topics, topic_name, cell, num, next_id>>
        /\ SameStanding(c) /\ (pc[c] \in Unregistering => at'[c] = at[c])
    BY <1>1 DEF Quiet
  <2>2. \A d \in Clients : SameStanding(d) /\ (pc[d] \in Unregistering => at'[d] = at[d])
    BY <2>1, OthersStand
  <2>3. \A i \in Positions : EntryAt(k, kind, i)' = EntryAt(k, kind, i)
    BY <2>1 DEF EntryAt, BaseOf
  <2>4. next_id'["pub"] \in Nat /\ next_id["pub"] <= next_id'["pub"]
    BY <2>1 DEF TypeOK, Kinds
  <2>5. CASE k < current_topics
    <3>1. ListRight(k, kind) /\ num'[k][kind] = num[k][kind] /\ topic_name'[k] = topic_name[k]
      BY <2>1, <2>5 DEF Lists
    <3> QED
      BY <2>1, <2>2, <2>3, <2>4, <2>5, <3>1, ListKept
  <2>6. CASE ~(k < current_topics)
    BY <2>1, <2>6 DEF Lists
  <2> QED
    BY <2>5, <2>6
<1>2. CASE RegisterSubscriber(c)
  <2>1. UNCHANGED num /\ (k < current_topics => k < current_topics')
    <3>1. current_topics \in Nat /\ current_topics' \in {current_topics, current_topics + 1}
      BY <1>2, ConstantsAssumption DEF TypeOK, RegisterSubscriber
    <3> QED
      BY <1>2, <3>1 DEF RegisterSubscriber, TopicIds
  <2>2. CASE k < current_topics
    BY <1>2, <2>1, <2>2, OtherListsKept DEF Moves
  <2>3. CASE ~(k < current_topics)
    BY <1>2, <2>1, <2>3, NewList DEF Lists
  <2> QED
    BY <2>2, <2>3
<1>3. CASE Enlist(c) \/ CountWrite(c) \/ FindClient(c) \/ ShiftClient(c) \/ UncountWrite(c)
  <2>1. pc[c] \in Registered /\ UNCHANGED current_topics /\ Kind(c) \in Kinds
    BY <1>3, KindOf DEF Enlist, CountWrite, FindClient, ShiftClient, UncountWrite, tableVars,
                Registered, Registering, Unregistering
  <2>2. CASE k < current_topics /\ On(c, k, kind)
    <3>1. k = TopicId(c) /\ kind = Kind(c)
      BY <2>1, <2>2, AtOwnList
    <3> QED
      BY <1>3, <2>1, <2>2, <3>1, EnlistOwnList, CountOwnList, FindOwnList, ShiftOwnList, UncountOwnList
  <2>3. CASE k < current_topics /\ ~On(c, k, kind)
    BY <1>3, <2>1, <2>3, OtherListsKept DEF Moves
  <2>4. CASE ~(k < current_topics)
    <3>1. k # TopicId(c)
      BY <2>1, <2>4, AtOwnList
    <3>2. UNCHANGED num \/ \E x : num' = [num EXCEPT ![TopicId(c)][Kind(c)] = x]
      BY <1>3 DEF Enlist, CountWrite, FindClient, ShiftClient, UncountWrite, tableVars
    <3>3. num'[k] = num[k]
      BY <3>1, <3>2 DEF TypeOK
    <3> QED
      BY <2>1, <2>4, <3>3 DEF Lists
  <2> QED
    BY <2>2, <2>3, <2>4
<1> QED
  BY <1>1, <1>2, <1>3, QuietSteps DEF Moves

\* The topic of a client that has an entry is in the table and stays there.
LEMMA RootedStep ==
    ASSUME OneAtATime, TypeOK, Table, Lives, Rooted,
           NEW c \in Clients, User(c) \/ ThreadStep(c) \/ ClientStep(c), Alone(c)
    PROVE  Rooted'
<1> USE ConstantsAssumption
<1>1. \A name : Exists(name) => Exists(name)'
  <2>1. CASE RegisterSubscriber(c)
    <3>1. current_topics \in Nat
      BY DEF TypeOK
    <3>2. UNCHANGED <<current_topics, topic_name>> \/
          (current_topics' = current_topics + 1 /\ topic_name' = [topic_name EXCEPT ![current_topics] = TopicOf[c]])
      BY <2>1 DEF RegisterSubscriber
    <3>3. current_topics < current_topics' \/ current_topics = current_topics'
      BY <3>1, <3>2
    <3>4. ASSUME NEW k \in TopicIds, k < current_topics
          PROVE  k < current_topics' /\ topic_name'[k] = topic_name[k]
      BY <3>1, <3>2, <3>4 DEF TypeOK, TopicIds
    <3> QED
      BY <3>4 DEF Exists
  <2>2. CASE Quiet(c)
    BY <2>2 DEF Quiet, Exists
  <2>3. CASE Enlist(c) \/ CountWrite(c) \/ FindClient(c) \/ ShiftClient(c) \/ UncountWrite(c)
    BY <2>3 DEF Enlist, CountWrite, FindClient, ShiftClient, UncountWrite, tableVars, Exists
  <2> QED
    BY <2>1, <2>2, <2>3, QuietSteps DEF Moves
<1>2. Member(c)' => Exists(TopicOf[c])
  <2>1. CASE RegisterSubscriber(c)
    <3>1. pc'[c] = "enlist"
      BY <2>1 DEF TypeOK, RegisterSubscriber
    <3> QED
      BY <3>1 DEF Member, DiedRegistered, Entered, Serving, Publishing
  <2>2. CASE Quiet(c)
    BY <2>2 DEF Quiet, SameStanding, Rooted
  <2>3. CASE Enlist(c) \/ CountWrite(c) \/ FindClient(c) \/ ShiftClient(c) \/ UncountWrite(c)
    <3>1. pc[c] \in Registered
      BY <2>3 DEF Enlist, CountWrite, FindClient, ShiftClient, UncountWrite,
                  Registered, Registering, Unregistering
    <3> QED
      BY <3>1 DEF Table, Placed
  <2> QED
    BY <2>1, <2>2, <2>3, QuietSteps DEF Moves
<1>3. \A d \in Clients \ {c} : Member(d)' <=> Member(d)
  BY OthersStand DEF SameStanding
<1>4. \A d \in Clients : Member(d)' => Exists(TopicOf[d])'
  BY <1>1, <1>2, <1>3 DEF Rooted
<1> HIDE DEF Member, Exists
<1> QED
  BY <1>4 DEF Rooted

\* Ids only go up.
LEMMA NumberedStep ==
    ASSUME OneAtATime, TypeOK, Lives, Numbered,
           NEW c \in Clients, User(c) \/ ThreadStep(c) \/ ClientStep(c), Alone(c)
    PROVE  Numbered'
<1>1. \A d \in Clients : Kind(d) \in Kinds /\ next_id[Kind(d)] \in Nat
  BY KindOf DEF TypeOK
<1>2. CASE Enlist(c)
  <2>1. \A d \in Clients : next_id'[Kind(d)] \in {next_id[Kind(d)], next_id[Kind(d)] + 1}
    BY <1>1, <1>2 DEF TypeOK, Enlist
  <2>2. next_id'[Kind(c)] > 0
    BY <1>1, <1>2 DEF TypeOK, Enlist
  <2>3. \A d \in Clients \ {c} : pc'[d] = "respond" => next_id'[Kind(d)] > 0
    BY <1>1, <2>1 DEF Numbered, Alone
  <2> QED
    BY <2>2, <2>3 DEF Numbered, Kind
<1>3. ASSUME UNCHANGED next_id, pc'[c] = "respond" => pc[c] = "respond" PROVE Numbered'
  BY <1>3 DEF Numbered, Alone, Kind
<1>4. CASE User(c) \/ ClientStep(c)
  <2>1. UNCHANGED next_id
    BY <1>4 DEF User, ClientStep, Connect, Interrupt, Crash, HandleResponse, HandlerReads, tableVars
  <2>2. pc'[c] = "respond" => pc[c] = "respond"
    BY <1>4 DEF TypeOK, User, ClientStep, Connect, Interrupt, Crash, HandleResponse, HandlerReads, threadVars
  <2> QED
    BY <1>3, <2>1, <2>2
<1>5. CASE RefuseSubscriber(c) \/ RefusePublisher(c)
  BY <1>3, <1>5, Refuses DEF TypeOK, tableVars
<1>6. CASE \/ RegisterSubscriber(c) \/ RegisterPublisher(c) \/ Respond(c) \/ CountRead(c) \/ CountWrite(c)
           \/ FindClient(c) \/ ShiftClient(c) \/ AnswerUnregister(c) \/ UncountRead(c) \/ UncountWrite(c)
           \/ EndOfFile(c)
  <2>1. UNCHANGED next_id
    BY <1>6 DEF RegisterSubscriber, RegisterPublisher, Respond, CountRead, ReadCount, CountWrite, FindClient,
                ShiftClient, AnswerUnregister, UncountRead, UncountWrite, EndOfFile, tableVars
  <2>2. pc'[c] = "respond" => pc[c] = "respond"
    BY <1>6 DEF TypeOK, RegisterSubscriber, RegisterPublisher, Respond, CountRead, ReadCount, CountWrite,
                FindClient, ShiftClient, AnswerUnregister, UncountRead, UncountWrite, EndOfFile
  <2> QED
    BY <1>3, <2>1, <2>2
<1> QED
  BY <1>2, <1>4, <1>5, <1>6 DEF ThreadStep

----------------------------------------------------------------------------
(* How many are in a list.                                                 *)

\* No client has two entries in use.
LEMMA OneEntryEach ==
    ASSUME IdsInv, NEW k \in TopicIds, NEW kind \in Kinds, ListRight(k, kind),
           NEW i \in Positions, NEW j \in Positions, InUse(k, kind, i), InUse(k, kind, j),
           EntryAt(k, kind, i).fd = EntryAt(k, kind, j).fd
    PROVE  i = j
<1> USE DEF IdsInv, Inv
<1>1. /\ i \in 0 .. LimitOf(kind) - 1 /\ j \in 0 .. LimitOf(kind) - 1
      /\ EntryAt(k, kind, i).fd \in Clients
  BY ConstantsAssumption DEF ListRight, Positions, LimitOf
<1>2. BaseOf(kind) + i \in Cells /\ BaseOf(kind) + j \in Cells
  BY <1>1, ConstantsAssumption DEF BaseOf, LimitOf, Cells
<1>3. EntryAt(k, kind, i).id = EntryAt(k, kind, j).id /\ EntryAt(k, kind, i).id \in Int
  <2>1. EntryAt(k, kind, i).fd # NoSocket /\ EntryAt(k, kind, j).fd # NoSocket
    BY <1>1, ConstantsAssumption
  <2>2. EntryAt(k, kind, i).id = EntryAt(k, kind, j).id
    BY <1>2, <2>1 DEF EntryAt, IdsNameOneClient
  <2>3. EntryAt(k, kind, i) \in Entry
    BY <1>2 DEF EntryAt, TypeOK
  <2> QED
    BY <2>2, <2>3 DEF Entry
<1>4. ~(i < j) /\ ~(j < i)
  BY <1>3 DEF ListRight
<1> QED
  BY <1>4 DEF Positions

\* Where every counted position is in use, a list has no more entries than
\* there are clients they can be of, and as many as there are if each has one.
LEMMA CountedClients ==
    ASSUME IdsInv, NEW k \in TopicIds, NEW kind \in Kinds, ListRight(k, kind),
           \A i \in Positions : InUse(k, kind, i) <=> i < num[k][kind],
           NEW T, \A i \in 0 .. num[k][kind] - 1 : EntryAt(k, kind, i).fd \in T
    PROVE  /\ IsFiniteSet(T) => num[k][kind] <= Cardinality(T)
           /\ T = {EntryAt(k, kind, i).fd : i \in 0 .. num[k][kind] - 1} => num[k][kind] = Cardinality(T)
<1> DEFINE n == num[k][kind]
           f == [i \in 0 .. n - 1 |-> EntryAt(k, kind, i).fd]
<1>1. n \in Nat /\ 0 .. n - 1 \subseteq Positions
  BY ConstantsAssumption DEF ListRight, Positions, LimitOf
<1>2. f \in Injection(0 .. n - 1, T)
  <2>1. \A i, j \in 0 .. n - 1 : f[i] = f[j] => i = j
    BY <1>1, OneEntryEach
  <2>2. f \in [0 .. n - 1 -> T]
    OBVIOUS
  <2> HIDE DEF f
  <2> QED
    BY <2>1, <2>2 DEF Injection, IsInjective
<1>3. IsFiniteSet(0 .. n - 1) /\ Cardinality(0 .. n - 1) = n
  <2>1. n - 1 \in Int /\ 0 \in Int /\ (IF 0 > n - 1 THEN 0 ELSE n - 1 - 0 + 1) = n
    BY <1>1
  <2> HIDE DEF n
  <2> QED
    BY <2>1, FS_Interval
<1>4. T = {EntryAt(k, kind, i).fd : i \in 0 .. n - 1} => f \in Surjection(0 .. n - 1, T)
  <2>1. f \in [0 .. n - 1 -> T]
    OBVIOUS
  <2>2. T = {EntryAt(k, kind, i).fd : i \in 0 .. n - 1} => \A t \in T : \E i \in 0 .. n - 1 : f[i] = t
    OBVIOUS
  <2> HIDE DEF f, n
  <2> QED
    BY <2>1, <2>2 DEF Surjection
<1> HIDE DEF f, n
<1>5. IsFiniteSet(T) => n <= Cardinality(T)
  BY <1>2, <1>3, FS_Injection
<1>6. f \in Surjection(0 .. n - 1, T) => Cardinality(T) = n
  BY <1>2, <1>3, FS_Bijection DEF ExistsBijection, Bijection
<1> QED
  BY <1>4, <1>5, <1>6 DEF n

\* When a registration begins, no thread is at work on a list.
LEMMA NobodyAtWork ==
    ASSUME Phases, NEW c \in Clients, ReceivesRegister(c)
    PROVE  \A d \in Clients : pc[d] \notin Registering \cup Unregistering
<1>1. pc[c] = "recv_register" /\ mutex3 = NoOne
  BY DEF ReceivesRegister
<1>2. \A d \in Clients : pc[d] \notin Registering
  BY <1>1, ConstantsAssumption DEF Phases
<1>3. \A d \in Clients : ~Leaving(d)
  BY <1>1 DEF Phases, Serving, Publishing, Unregistering
<1> QED
  BY <1>2, <1>3 DEF Phases, Leaving, Unregistering

\* A subscriber that registers is not in the list, so there is room for it.
LEMMA RoomForOne ==
    ASSUME RoomForSubscribers, IdsInv, Phases, Lists, NEW c \in Clients, RegisterSubscriber(c),
           TopicExists(TopicOf[c]), NEW k, k = TopicId(c)
    PROVE  num[k]["sub"] < MaxSubscribers
<1> DEFINE S == SubscribersOf(TopicOf[c])
           T == S \ {c}
           n == num[k]["sub"]
<1> USE DEF IdsInv, Inv
<1>1. c \in Subscribers /\ pc[c] = "recv_register" /\ ReceivesRegister(c) /\ TopicOf[c] \in Topics
  BY ConstantsAssumption DEF RegisterSubscriber, ReceivesRegister
<1>2. k \in TopicIds /\ k < current_topics /\ topic_name[k] = TopicOf[c]
  BY GetTopicId DEF Table, TopicId
<1>3. ListRight(k, "sub") /\ "sub" \in Kinds
  BY <1>2 DEF Lists, Kinds
<1>4. n \in Nat /\ 0 .. n - 1 \subseteq Positions
  BY <1>3, ConstantsAssumption DEF ListRight, LimitOf, Positions
<1>5. \A i \in Positions : InUse(k, "sub", i) <=> i < n
  BY <1>1, NobodyAtWork DEF InUse, Entered, Registering, Unregistering
<1>6. ~Member(c)
  BY <1>1 DEF Member, DiedRegistered, Entered, Serving, Publishing
<1>7. \A i \in 0 .. n - 1 : EntryAt(k, "sub", i).fd \in T
  <2> SUFFICES ASSUME NEW i \in 0 .. n - 1, NEW d, d = EntryAt(k, "sub", i).fd PROVE d \in T
    OBVIOUS
  <2>1. d \in Clients /\ On(d, k, "sub") /\ Member(d)
    BY <1>3, <1>4, <1>5 DEF ListRight
  <2>2. d \in Subscribers /\ TopicOf[d] = TopicOf[c]
    BY <1>2, <2>1 DEF On, Kind
  <2> QED
    BY <1>6, <2>1, <2>2 DEF SubscribersOf
<1>8. IsFiniteSet(S) /\ Cardinality(S) <= MaxSubscribers /\ c \in S
  BY <1>1 DEF RoomForSubscribers, SubscribersOf
<1>9. IsFiniteSet(T) /\ Cardinality(T) = Cardinality(S) - 1 /\ Cardinality(S) \in Nat
  BY <1>8, FS_RemoveElement, FS_CardinalityType
<1>10. n <= Cardinality(T)
  <2> HIDE DEF T
  <2> QED
    BY <1>2, <1>3, <1>5, <1>7, <1>9, CountedClients
<1> QED
  BY <1>4, <1>8, <1>9, <1>10, ConstantsAssumption

\* A thread that is about to enlist its client.
LEMMA RemembersPlace ==
    ASSUME RoomForSubscribers, IdsInv, Phases, Lists, NEW c \in Clients,
           RegisterSubscriber(c) \/ RegisterPublisher(c),
           NEW k \in TopicIds, k < current_topics', topic_name'[k] = TopicOf[c]
    PROVE  Remembers(c, k)'
<1> USE DEF IdsInv, Inv
<1> USE ConstantsAssumption
<1>1. /\ pc'[c] = "enlist" /\ UNCHANGED num /\ at'[c] = FirstUnused(c)
      /\ current_topics \in Nat /\ Kind(c) \in Kinds
  BY KindOf DEF TypeOK, RegisterSubscriber, RegisterPublisher
<1>2. TopicId(c) = k
  <2>1. CASE TopicExists(TopicOf[c])
    <3>1. UNCHANGED <<current_topics, topic_name>>
      BY <2>1 DEF RegisterSubscriber, RegisterPublisher
    <3> QED
      BY <3>1, OnOneList
  <2>2. CASE ~TopicExists(TopicOf[c])
    <3>1. /\ current_topics' = current_topics + 1
          /\ topic_name' = [topic_name EXCEPT ![current_topics] = TopicOf[c]]
      BY <2>2 DEF RegisterSubscriber, RegisterPublisher
    <3>2. ~Exists(TopicOf[c]) /\ TopicId(c) = current_topics
      BY <2>2, GetTopicId DEF Table, TopicId
    <3>3. ~(k < current_topics)
      BY <3>1, <3>2 DEF TypeOK, Exists, TopicIds
    <3> QED
      BY <1>1, <3>1, <3>2, <3>3 DEF TopicIds
  <2> QED
    BY <2>1, <2>2
<1>3. at'[c] = num[k][Kind(c)]
  BY <1>1, <1>2 DEF FirstUnused
<1>4. num[k][Kind(c)] < LimitOf(Kind(c))
  <2>1. CASE RegisterSubscriber(c) /\ TopicExists(TopicOf[c])
    BY <1>2, <2>1, RoomForOne DEF RegisterSubscriber, Kind, LimitOf
  <2>2. CASE RegisterSubscriber(c) /\ ~TopicExists(TopicOf[c])
    <3>1. ~(k < current_topics)
      BY <1>2, <2>2 DEF TopicExists, TopicId
    <3> QED
      BY <1>1, <3>1 DEF Lists, LimitOf
  <2>3. CASE RegisterPublisher(c)
    <3>1. /\ Kind(c) = "pub" /\ k < current_topics
          /\ next_id["pub"] \in Nat /\ next_id["pub"] < MaxPublishers
      BY <1>2, <2>3 DEF RegisterPublisher, Kind, TypeOK, Kinds, TopicExists, TopicId
    <3>2. num[k]["pub"] <= next_id["pub"] /\ num[k]["pub"] \in 0 .. MaxPublishers
      BY <1>1, <3>1 DEF Lists, ListRight, LimitOf
    <3> QED
      BY <3>1, <3>2 DEF LimitOf
  <2> QED
    BY <2>1, <2>2, <2>3
<1> QED
  BY <1>1, <1>3, <1>4 DEF Remembers, Unregistering, Kind, LimitOf

\* What a thread remembers of its list stays true: no other thread is at work.
LEMMA AtWorkStep ==
    ASSUME OneAtATime, RoomForSubscribers, IdsInv, Phases, Lives, Told, Lists, AtWork,
           NEW c \in Clients, User(c) \/ ThreadStep(c) \/ ClientStep(c), Alone(c)
    PROVE  AtWork'
<1> USE DEF IdsInv, Inv
<1> SUFFICES ASSUME NEW d \in Clients, NEW k \in TopicIds, k < current_topics', topic_name'[k] = TopicOf[d]
             PROVE  Remembers(d, k)'
  BY DEF AtWork, Remembers, Kind, LimitOf
<1>1. ASSUME pc'[d] \notin {"enlist", "count_write"} \cup Unregistering PROVE Remembers(d, k)'
  BY <1>1 DEF Remembers, Unregistering
<1>2. ASSUME UNCHANGED <<current_topics, topic_name, num>>,
             pc'[d] = pc[d], at'[d] = at[d], val'[d] = val[d]
      PROVE  Remembers(d, k)'
  BY <1>2 DEF AtWork, Remembers, Kind, LimitOf
<1>3. CASE RegisterSubscriber(c) \/ RegisterPublisher(c)
  <2>1. CASE d = c
    BY <1>3, <2>1, RemembersPlace
  <2>2. CASE d # c
    <3>1. pc[d] \notin Registering \cup Unregistering
      BY <1>3, NobodyAtWork DEF RegisterSubscriber, RegisterPublisher
    <3> QED
      BY <1>1, <2>2, <3>1 DEF Alone, Registering
  <2> QED
    BY <2>1, <2>2
<1>4. CASE Enlist(c) \/ CountWrite(c) \/ FindClient(c) \/ ShiftClient(c) \/ UncountWrite(c)
  <2>1. pc[c] \in Registering \/ Leaving(c)
    BY <1>4 DEF Enlist, CountWrite, FindClient, ShiftClient, UncountWrite, Registering, Unregistering,
                Leaving, Phases
  <2>2. CASE d # c
    <3>1. pc[d] \notin Registering \cup Unregistering
      BY <2>1, <2>2, OneAtWork DEF AloneAtWork
    <3> QED
      BY <1>1, <2>2, <3>1 DEF Alone, Registering
  <2>3. CASE d = c /\ (Enlist(c) \/ CountWrite(c) \/ UncountWrite(c))
    <3>1. pc'[c] \in {"respond", "serving", "gone"}
      BY <2>3 DEF TypeOK, Enlist, CountWrite, UncountWrite
    <3> QED
      BY <1>1, <2>3, <3>1 DEF Unregistering
  <2>4. CASE d = c /\ FindClient(c)
    <3>1. /\ pc'[c] = "shift" /\ pc[c] \in Registered
          /\ UNCHANGED <<current_topics, topic_name, num>>
      BY <2>4 DEF TypeOK, FindClient, Registered, tableVars
    <3>2. k = TopicId(c)
      BY <2>4, <3>1, OnOneList
    <3>3. PICK a : a = PositionOf(c, bye[c])
      OBVIOUS
    <3>4. OwnList(c) /\ a \in 0 .. num[k][Kind(c)] - 1 /\ at'[c] = a
      BY <2>4, <3>2, <3>3, FindsOwn
    <3>5. num[k][Kind(c)] >= 1 /\ at'[c] \in Nat
      BY <3>2, <3>4 DEF OwnList
    <3> QED
      BY <2>4, <3>1, <3>5 DEF Remembers, Kind, LimitOf
  <2>5. CASE d = c /\ ShiftClient(c)
    <3>1. /\ pc[c] = "shift" /\ pc'[c] = "shift" /\ at'[c] = at[c] + 1
          /\ UNCHANGED <<current_topics, topic_name, num>>
      BY <2>5 DEF TypeOK, ShiftClient
    <3>2. num[k][Kind(c)] >= 1 /\ at[c] \in Nat
      BY <2>5, <3>1 DEF AtWork, Remembers, Unregistering
    <3> QED
      BY <2>5, <3>1, <3>2 DEF Remembers, Kind, LimitOf
  <2> QED
    BY <1>4, <2>2, <2>3, <2>4, <2>5
<1>5. CASE CountRead(c) \/ UncountRead(c)
  <2>1. CASE d # c
    <3>1. UNCHANGED <<current_topics, topic_name, num>>
      BY <1>5 DEF CountRead, UncountRead, ReadCount, tableVars
    <3> QED
      BY <1>2, <2>1, <3>1 DEF Alone
  <2>2. CASE d = c
    <3>1. /\ UNCHANGED <<current_topics, topic_name, num>> /\ at'[c] = at[c]
          /\ val'[c] = num[TopicId(c)][Kind(c)]
          /\ \/ pc'[c] = "count_write"
             \/ pc[c] = "uncount_read" /\ pc'[c] = "uncount_write"
      BY <1>5 DEF TypeOK, CountRead, UncountRead, ReadCount, tableVars
    <3>2. k = TopicId(c)
      BY <2>2, <3>1, OnOneList
    <3>3. Remembers(c, k)
      BY <2>2, <3>1 DEF AtWork
    <3> QED
      BY <2>2, <3>1, <3>2, <3>3 DEF Remembers, Kind, LimitOf, Unregistering
  <2> QED
    BY <2>1, <2>2
<1>6. CASE AnswerUnregister(c)
  <2>1. UNCHANGED <<current_topics, topic_name, num, at, val>>
    BY <1>6 DEF AnswerUnregister, tableVars
  <2>2. CASE d # c
    BY <1>2, <2>1, <2>2 DEF Alone
  <2>3. CASE d = c
    <3>1. /\ pc[c] = "shift" /\ pc'[c] = "uncount_read" /\ at[c] >= LimitOf(Kind(c))
      BY <1>6, KindOf DEF TypeOK, AnswerUnregister
    <3>2. Remembers(c, k)
      BY <2>1, <2>3 DEF AtWork
    <3> QED
      BY <2>1, <2>3, <3>1, <3>2 DEF Remembers, Kind, LimitOf, Unregistering
  <2> QED
    BY <2>2, <2>3
<1>7. CASE User(c) \/ ClientStep(c)
  <2>1. UNCHANGED <<current_topics, topic_name, num, at, val>>
    BY <1>7 DEF User, ClientStep, Connect, Interrupt, Crash, HandleResponse, HandlerReads, tableVars, threadVars
  <2>2. pc'[d] = pc[d] \/ pc'[d] = "recv_register"
    BY <1>7 DEF TypeOK, User, ClientStep, Connect, Interrupt, Crash, HandleResponse, HandlerReads, threadVars
  <2> QED
    BY <1>1, <1>2, <2>1, <2>2 DEF Unregistering
<1>8. CASE RefuseSubscriber(c) \/ RefusePublisher(c)
  <2>1. UNCHANGED <<current_topics, topic_name, num, at, val>> /\ (pc'[d] = pc[d] \/ pc'[d] = "gone")
    BY <1>8, Refuses DEF TypeOK, tableVars
  <2> QED
    BY <1>1, <1>2, <2>1 DEF Unregistering
<1>9. CASE Respond(c) \/ EndOfFile(c)
  <2>1. UNCHANGED <<current_topics, topic_name, num, at, val>>
    BY <1>9 DEF Respond, EndOfFile, tableVars
  <2>2. pc'[d] = pc[d] \/ pc'[d] \in {"count_read", "gone"}
    BY <1>9 DEF TypeOK, Respond, EndOfFile
  <2> QED
    BY <1>1, <1>2, <2>1, <2>2 DEF Unregistering
<1> QED
  BY <1>3, <1>4, <1>5, <1>6, <1>7, <1>8, <1>9 DEF ThreadStep

----------------------------------------------------------------------------
(* Orderly is inductive, with what is known of types, names and ids.       *)
OrderlyInv == IdsInv /\ (OneAtATime /\ RoomForSubscribers => Orderly)

\* UNREGISTER makes the thread find its own client.
LEMMA FindsItself ==
    ASSUME IdsInv, Phases, Lives, Told, Lists, NEW c \in Clients
    PROVE  FindClient(c) => fd_to_del'[c] = c
<1> SUFFICES ASSUME FindClient(c),
                    NEW k, k = TopicId(c), NEW kind, kind = Kind(c), NEW a, a = PositionOf(c, bye[c])
             PROVE  fd_to_del'[c] = c
  OBVIOUS
<1> QED
  BY FindsOwn

LEMMA OrderlyStep ==
    ASSUME OneAtATime, RoomForSubscribers, IdsInv, Orderly, [Next]_registryVars
    PROVE  Orderly'
<1> USE DEF IdsInv, Inv, Orderly
<1>1. CASE UNCHANGED registryVars
  <2>1. /\ UNCHANGED <<broker, client, client_id, bye, inbox, pc, at, val, fd_to_del>>
        /\ UNCHANGED <<mutex3, current_topics, topic_name, cell, num, next_id>>
    BY <1>1 DEF registryVars, clientVars, threadVars, tableVars
  <2>2. Phases'
    BY <2>1 DEF Phases, Leaving
  <2>3. Lives'
    BY <2>1 DEF Lives, Life
  <2>4. Told'
    BY <2>1 DEF Told, Tells, Kind
  <2>5. Rooted'
    BY <2>1 DEF Rooted, Member, DiedRegistered, Exists
  <2>6. Lists'
    <3> SUFFICES ASSUME NEW k \in TopicIds, NEW kind \in Kinds
                 PROVE  /\ k < current_topics' => ListRight(k, kind)'
                        /\ ~(k < current_topics') => num'[k][kind] = 0
      BY DEF Lists
    <3>1. \A d \in Clients : SameStanding(d) /\ at'[d] = at[d]
      BY <2>1 DEF SameStanding, Member, DiedRegistered
    <3>2. \A i \in Positions : EntryAt(k, kind, i)' = EntryAt(k, kind, i)
      BY <2>1 DEF EntryAt, BaseOf
    <3>3. next_id'["pub"] \in Nat /\ next_id["pub"] <= next_id'["pub"]
      BY <2>1 DEF TypeOK, Kinds
    <3>4. topic_name'[k] = topic_name[k] /\ num'[k][kind] = num[k][kind]
      BY <2>1
    <3> QED
      BY <2>1, <3>1, <3>2, <3>3, <3>4, ListKept DEF Lists
  <2>7. AtWork'
    BY <2>1 DEF AtWork, Remembers, Kind, LimitOf
  <2>8. Numbered'
    BY <2>1 DEF Numbered, Kind
  <2> QED
    BY <2>2, <2>3, <2>4, <2>5, <2>6, <2>7, <2>8
<1>2. CASE Next
  <2>1. PICK c \in Clients : User(c) \/ ThreadStep(c) \/ ClientStep(c)
    BY <1>2 DEF Next
  <2>2. Alone(c)
    BY <2>1, StepsAreAlone
  <2>3. Lives'
    <3>1. Life(c)'
      BY <2>1, LifeOfClientSteps, LifeOfThreadSteps, FindsItself
    <3>2. \A d \in Clients \ {c} : Life(d)'
      BY <2>2 DEF Lives, Life, Alone
    <3> HIDE DEF Life
    <3> QED
      BY <3>1, <3>2 DEF Lives
  <2> HIDE DEF Orderly
  <2>4. Phases' /\ Told' /\ Rooted' /\ Lists' /\ AtWork' /\ Numbered'
    BY <2>1, <2>2, PhasesStep, ToldStep, RootedStep, ListsStep, AtWorkStep, NumberedStep DEF Orderly
  <2> QED
    BY <2>3, <2>4 DEF Orderly
<1> QED
  BY <1>1, <1>2

LEMMA OrderlyAtStart == Init => Orderly
<1> SUFFICES ASSUME Init PROVE Orderly
  OBVIOUS
<1> USE ConstantsAssumption
<1>1. /\ \A c \in Clients : /\ pc[c] = "idle" /\ client[c] = "idle" /\ bye[c] = NotSent /\ inbox[c] = <<>>
      /\ mutex3 = NoOne /\ current_topics = 0
      /\ \A k \in TopicIds, kind \in Kinds : num[k][kind] = 0
      /\ \A k \in TopicIds, i \in Cells : cell[k][i].fd = NoSocket
  BY DEF Init, Unwritten
<1>2. Phases
  BY <1>1 DEF Phases, Leaving, Registering, Unregistering
<1>3. Lives
  BY <1>1 DEF Lives, Life, Asking
<1>4. Told
  BY <1>1 DEF Told
<1>5. Rooted
  BY <1>1 DEF Rooted, Member, DiedRegistered, Entered, Serving, Publishing
<1>6. Lists
  BY <1>1 DEF Lists, TopicIds
<1>7. AtWork
  BY <1>1 DEF AtWork, TopicIds
<1>8. Numbered
  BY <1>1 DEF Numbered
<1> QED
  BY <1>2, <1>3, <1>4, <1>5, <1>6, <1>7, <1>8 DEF Orderly

LEMMA OrderlyInvStep == OrderlyInv /\ [Next]_registryVars => OrderlyInv'
<1>1. OneAtATime' <=> OneAtATime
  BY DEF OneAtATime
<1>2. RoomForSubscribers' <=> RoomForSubscribers
  BY DEF RoomForSubscribers, SubscribersOf
<1> QED
  BY <1>1, <1>2, IdsStep, OrderlyStep DEF OrderlyInv

LEMMA OrderlyInvAtStart == Init => OrderlyInv
<1>1. Init => IdsInv
  BY InvAtStart DEF Init, IdsInv, IdsTaken, IdsNameOneClient, Unwritten
<1> QED
  BY <1>1, OrderlyAtStart DEF OrderlyInv

\* Between registrations and departures every counted position is in use.
LEMMA ListIsRight ==
    ASSUME IdsInv, Orderly, mutex3 = NoOne, \A c \in Clients : ~Leaving(c),
           NEW k \in 0 .. current_topics - 1, NEW kind \in Kinds
    PROVE  ListIsExact(k, kind)
<1> DEFINE n == num[k][kind]
           listed == {cell[k][BaseOf(kind) + i] : i \in 0 .. n - 1}
           served == {c \in Clients : /\ Kind(c) = kind /\ TopicOf[c] = topic_name[k]
                                      /\ \/ pc[c] \in {"serving"} \cup Publishing
                                         \/ DiedRegistered(c)}
<1> USE DEF IdsInv, Inv, Orderly
<1>1. k \in TopicIds /\ k < current_topics
  BY ConstantsAssumption DEF TypeOK, TopicIds
<1>2. ListRight(k, kind)
  BY <1>1 DEF Lists
<1>3. \A c \in Clients : pc[c] \notin Registering \cup Unregistering
  BY ConstantsAssumption DEF Phases, Leaving, Unregistering
<1>4. \A i \in Positions : InUse(k, kind, i) <=> i < n
  BY <1>3 DEF InUse, Entered, Registering
<1>5. n \in Nat /\ 0 .. n - 1 \subseteq Positions /\ n <= LimitOf(kind) /\ LimitOf(kind) \in Nat
  BY <1>2, ConstantsAssumption DEF ListRight, LimitOf, Positions
<1>6. \A c \in Clients : c \in served <=> On(c, k, kind) /\ Member(c)
  BY <1>3 DEF On, Member, Serving, Entered, Registering
<1>7. \A i \in 0 .. n - 1 : EntryAt(k, kind, i).fd \in served
  BY <1>2, <1>4, <1>5, <1>6 DEF ListRight
<1>8. \A c \in served : \E i \in 0 .. n - 1 : EntryAt(k, kind, i).fd = c
  BY <1>2, <1>4, <1>5, <1>6 DEF ListRight, Positions
<1>9. served = {EntryAt(k, kind, i).fd : i \in 0 .. n - 1}
  BY <1>7, <1>8
<1>10. n = Cardinality(served)
  <2> HIDE DEF served
  <2> QED
    BY <1>1, <1>2, <1>4, <1>7, <1>9, CountedClients
<1>11. {e.fd : e \in listed} = served
  BY <1>9 DEF EntryAt
<1>12. \A e \in listed : client[e.fd] = "active" => client_id[e.fd] = e.id
  <2> SUFFICES ASSUME NEW i \in 0 .. n - 1, client[EntryAt(k, kind, i).fd] = "active"
               PROVE  client_id[EntryAt(k, kind, i).fd] = EntryAt(k, kind, i).id
    BY DEF EntryAt
  <2>1. BaseOf(kind) + i \in Cells
    BY <1>5, ConstantsAssumption DEF BaseOf, LimitOf, Cells
  <2>2. EntryAt(k, kind, i).fd # NoSocket
    BY <1>7, ConstantsAssumption
  <2> QED
    BY <1>1, <2>1, <2>2 DEF Told, Tells, EntryAt
<1>13. \A i \in 1 .. n - 1 : cell[k][BaseOf(kind) + i - 1].id < cell[k][BaseOf(kind) + i].id
  <2> SUFFICES ASSUME NEW i \in 1 .. n - 1
               PROVE  cell[k][BaseOf(kind) + i - 1].id < cell[k][BaseOf(kind) + i].id
    OBVIOUS
  <2>1. i - 1 \in Positions /\ i \in Positions /\ i - 1 < n /\ i < n /\ i - 1 < i
    BY <1>5
  <2>2. BaseOf(kind) + (i - 1) = BaseOf(kind) + i - 1
    BY <1>5, ConstantsAssumption DEF BaseOf
  <2>3. EntryAt(k, kind, i - 1).id < EntryAt(k, kind, i).id
    BY <1>2, <1>4, <2>1 DEF ListRight
  <2> QED
    BY <2>2, <2>3 DEF EntryAt
<1> HIDE DEF served, listed, n
<1> QED
  BY <1>10, <1>11, <1>12, <1>13 DEF ListIsExact, BaseOf, n, served, listed

(***************************************************************************)
(* When users do not leave while others register or leave, and no topic    *)
(* has more subscribers than its array, every list holds whenever nobody   *)
(* is at work on it exactly the clients being served and the dead ones     *)
(* that never left, each once, in order of registration and with the id it *)
(* was told: shift_client_list and the two counts, which no lock protects  *)
(* against each other, undo exactly what one registration did.             *)
(* (MAX_SUBSCRIBERS is assumed because the code's test of it is dead: its  *)
(* counter current_subscribers never changes.)                             *)
(***************************************************************************)
THEOREM ListsAreExact ==
    ASSUME OneAtATime, RoomForSubscribers
    PROVE  Spec => []TableMatchesClients
<1>1. OrderlyInv => TableMatchesClients
  BY ListIsRight DEF OrderlyInv, TableMatchesClients, Kinds
<1> QED
  BY <1>1, OrderlyInvAtStart, OrderlyInvStep, PTL DEF Spec

\* No thread sends to a socket that is closed or none.
AllArrive == OrderlyInv /\ (OneAtATime /\ RoomForSubscribers => broker = "up")

LEMMA AllArriveStep == AllArrive /\ [Next]_registryVars => AllArrive'
<1> SUFFICES ASSUME OneAtATime, RoomForSubscribers, IdsInv, Orderly, broker = "up", [Next]_registryVars
             PROVE  broker' = "up"
  BY OrderlyInvStep DEF AllArrive, OrderlyInv, OneAtATime, RoomForSubscribers, SubscribersOf
<1> USE DEF IdsInv, Inv, Orderly
<1>1. CASE UNCHANGED registryVars
  BY <1>1 DEF registryVars
<1>2. ASSUME NEW c \in Clients, User(c) \/ ThreadStep(c) \/ ClientStep(c) PROVE UNCHANGED broker
  <2>1. CASE RefuseSubscriber(c) \/ RefusePublisher(c)
    BY <2>1, Refuses
  <2>2. CASE Respond(c) \/ AnswerUnregister(c)
    BY <2>2, Responds, AnswersSender
  <2>3. CASE User(c) \/ ClientStep(c)
    BY <2>3 DEF User, ClientStep, Connect, Interrupt, Crash, HandleResponse, HandlerReads
  <2> QED
    BY <1>2, <2>1, <2>2, <2>3
       DEF ThreadStep, RegisterSubscriber, RegisterPublisher, Enlist, CountRead, ReadCount, CountWrite,
           FindClient, ShiftClient, UncountRead, UncountWrite, EndOfFile
<1> QED
  BY <1>1, <1>2 DEF Next

(***************************************************************************)
(* Under the same assumptions the answer to UNREGISTER goes to the client  *)
(* that asked, although its socket is looked up in the list by id: nobody  *)
(* else's process is ended by it, and no send fails or raises SIGPIPE, so  *)
(* the broker stays up.                                                    *)
(***************************************************************************)
THEOREM AnswersReachSender ==
    ASSUME OneAtATime, RoomForSubscribers
    PROVE  Spec => []ByesReachTheirSender
<1>1. Init => AllArrive
  BY OrderlyInvAtStart DEF AllArrive, Init
<1>2. AllArrive => ByesReachTheirSender
  <2> SUFFICES ASSUME IdsInv, Orderly, NEW c \in Clients, NEW i \in 1 .. Len(inbox[c]),
                      client[c] \in {"active", "leaving"}
               PROVE  bye[c] = inbox[c][i].id
    BY DEF AllArrive, OrderlyInv, ByesReachTheirSender
  <2>1. Life(c)
    BY DEF Orderly, Lives
  <2>2. inbox[c] # <<>>
    OBVIOUS
  <2>3. client[c] = "leaving" /\ inbox[c] = <<OK(bye[c])>>
    BY <2>1, <2>2 DEF Life
  <2>4. i = 1
    BY <2>3
  <2> QED
    BY <2>3, <2>4 DEF OK
<1> QED
  BY <1>1, <1>2, AllArriveStep, PTL DEF Spec
=============================================================================
