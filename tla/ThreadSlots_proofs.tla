------------------------- MODULE ThreadSlots_proofs -------------------------
(***************************************************************************)
(* For any connections and any MAX_THREADS: the slots of the accept loop   *)
(* belong to one thread each, and as long as not_full is left only after a *)
(* signal, no more than MAX_THREADS threads run and the search for a slot  *)
(* succeeds.                                                               *)
(***************************************************************************)
EXTENDS ThreadSlots, FiniteSetTheorems, WellFoundedInduction, TLAPS

\* The main thread has a connection for which there is no thread yet.
Starting == {"get_free_fd", "to_wait", "waiting", "woken", "set_value_fd", "create"}

\* What the slot of a thread, or of a connection about to get one, holds.
Own ==
    /\ \A c \in Conns : HoldsSlot(c) /\ id[c] \in Slots => client_sockets[id[c]] = c
    /\ loop \in Starting => thread[current] = "none"
    /\ loop = "set_value_fd" /\ id[current] \in Slots => client_sockets[id[current]] = Taken
    /\ loop = "create" /\ id[current] \in Slots => client_sockets[id[current]] = current

\* A slot that is not free is some thread's, or the main thread's.
Owner(c, i) == HoldsSlot(c) /\ id[c] = i /\ client_sockets[i] = c
MainOwns(i) == loop \in {"set_value_fd", "create"} /\ id[current] = i
Owned ==
    \A i \in Slots : client_sockets[i] # Free => MainOwns(i) \/ \E c \in Conns : Owner(c, i)

\* The count is exact but for the thread just created.
Counted ==
    Cardinality(Running) = current_threads + (IF loop = "count" THEN 1 ELSE 0)

\* There is room for the thread about to be created.
Bounded ==
    ~spurious =>
        /\ Cardinality(Running) <= MaxThreads
        /\ loop \in {"woken", "set_value_fd", "create"} => Cardinality(Running) < MaxThreads
        /\ \A c \in Conns : id[c] \in Slots

\* Whose sockets are open.
Sockets ==
    ~spurious =>
        /\ loop \in Starting => current \in open
        /\ \A c \in Conns : /\ thread[c] \in {"serve", "close"} => c \in open
                            /\ thread[c] \in {"free", "uncount", "gone"} => c \notin open

Inv == TypeOK /\ Own /\ Owned /\ Counted /\ Bounded /\ Sockets

----------------------------------------------------------------------------
\* A set of naturals that is not empty has a least element.
LEMMA LeastNatural ==
    ASSUME NEW S \in SUBSET Nat, S # {}
    PROVE  \E i \in S : \A j \in S : i <= j
<1>1. PICK i \in S : \A j \in S : ~(<<j, i>> \in OpToRel(<, Nat))
  BY NatLessThanWellFounded, WFMin, Zenon
<1>2. \A j \in S : ~(j < i)
  BY <1>1 DEF OpToRel
<1> QED
  BY <1>2

\* The search ends at a free slot, if there is one, and else past the array.
LEMMA SearchedSlot ==
    /\ (\E i \in Slots : client_sockets[i] = Free)
          => FirstFree \in Slots /\ client_sockets[FirstFree] = Free
    /\ FirstFree \in Cells
    /\ FirstFree \in Slots => client_sockets[FirstFree] = Free
<1> USE SlotsAssumption
<1> DEFINE FreeSlots == {i \in Slots : client_sockets[i] = Free}
           First(i) == client_sockets[i] = Free /\ \A j \in 0 .. i - 1 : client_sockets[j] # Free
<1>1. CASE FreeSlots = {}
  BY <1>1 DEF FirstFree, Slots, Cells
<1>2. CASE FreeSlots # {}
  <2>1. FreeSlots \in SUBSET Nat
    BY DEF Slots
  <2>2. PICK i \in FreeSlots : \A j \in FreeSlots : i <= j
    BY <1>2, <2>1, LeastNatural
  <2>3. i \in Slots /\ First(i)
    BY <2>2 DEF Slots
  <2>4. FirstFree = CHOOSE k \in Slots : First(k)
    BY <1>2 DEF FirstFree
  <2>5. FirstFree \in Slots /\ First(FirstFree)
    <3> HIDE DEF First
    <3> QED
      BY <2>3, <2>4
  <2> QED
    BY <2>5 DEF Slots, Cells
<1> QED
  BY <1>1, <1>2

\* No step breaks the types.
LEMMA TypesStep == ASSUME TypeOK, [Next]_vars PROVE TypeOK'
<1> USE SlotsAssumption DEF TypeOK, LoopStates, ThreadStates
<1>1. ASSUME NEW c \in Conns, Accept(c) PROVE TypeOK'
  BY <1>1 DEF Accept, slotVars
<1>2. ASSUME NEW c \in Conns, Serve(c) \/ Close(c) PROVE TypeOK'
  BY <1>2 DEF Serve, Close, loopVars, slotVars
<1>3. ASSUME NEW c \in Conns, FreeSlot(c) PROVE TypeOK'
  BY <1>3 DEF FreeSlot, loopVars
<1>4. ASSUME NEW c \in Conns, UncountThread(c) PROVE TypeOK'
  BY <1>4 DEF UncountThread, Signalled, slotVars
<1>5. CASE TakeSlot
  <2>1. id' \in [Conns -> Cells]
    BY <1>5, SearchedSlot DEF TakeSlot
  <2>2. client_sockets' \in [Cells -> Conns \cup {Free, Taken}]
    BY <1>5 DEF TakeSlot
  <2> QED
    BY <1>5, <2>1, <2>2 DEF TakeSlot
<1>6. CASE FindFull \/ Wait \/ SpuriousWakeup
  BY <1>6 DEF FindFull, Wait, SpuriousWakeup, slotVars
<1>7. CASE SetValueFd
  BY <1>7 DEF SetValueFd, Stored
<1>8. CASE CreateThread \/ CountThread
  BY <1>8 DEF CreateThread, CountThread, slotVars
<1>9. CASE UNCHANGED vars
  BY <1>9 DEF vars, loopVars, slotVars
<1> QED
  BY <1>1, <1>2, <1>3, <1>4, <1>5, <1>6, <1>7, <1>8, <1>9
     DEF Next, ThreadStep, MainStep, GetFreeFd, WakeUp

LEMMA TypesAtStart == Init => TypeOK
<1>1. 0 \in Cells
  BY SlotsAssumption DEF Cells
<1>2. Init => id \in [Conns -> Cells] /\ spurious \in BOOLEAN
  BY <1>1 DEF Init
<1> QED
  BY <1>2 DEF Init, TypeOK, LoopStates, ThreadStates

(***************************************************************************)
(* Every variable keeps its type: the search for a slot ends in the array  *)
(* or at the word after it.                                                *)
(***************************************************************************)
THEOREM TypesAreKept == Spec => []TypeOK
<1>1. TypeOK /\ [Next]_vars => TypeOK'
  BY TypesStep
<1> QED
  BY <1>1, TypesAtStart, PTL DEF Spec

----------------------------------------------------------------------------
\* No step takes a slot from the one who has it.
LEMMA OwnStep == ASSUME TypeOK, Own, [Next]_vars PROVE Own'
<1> USE SlotsAssumption DEF TypeOK, Own, HoldsSlot, Starting
<1>1. ASSUME NEW c \in Conns, Accept(c) PROVE Own'
  BY <1>1 DEF Accept, slotVars
<1>2. ASSUME NEW c \in Conns, Serve(c) \/ Close(c) PROVE Own'
  BY <1>2 DEF Serve, Close, loopVars, slotVars
<1>3. ASSUME NEW c \in Conns, FreeSlot(c) PROVE Own'
  BY <1>3 DEF FreeSlot, loopVars
<1>4. ASSUME NEW c \in Conns, UncountThread(c) PROVE Own'
  BY <1>4 DEF UncountThread, Signalled, slotVars
<1>5. CASE TakeSlot /\ loop \in Starting
  <2>1. \A c \in Conns : HoldsSlot(c)' => c # current /\ HoldsSlot(c)
    BY <1>5 DEF TakeSlot
  <2>2. \A c \in Conns : HoldsSlot(c) /\ id[c] \in Slots => id[c] # FirstFree
    BY <1>5, SearchedSlot
  <2>3. \A i \in Slots : i # FirstFree => client_sockets'[i] = client_sockets[i]
    BY <1>5 DEF TakeSlot, Slots, Cells
  <2>4. FirstFree \in Slots => client_sockets'[FirstFree] = Taken
    BY <1>5 DEF TakeSlot, Slots, Cells
  <2> QED
    BY <1>5, <2>1, <2>2, <2>3, <2>4 DEF TakeSlot
<1>6. CASE FindFull \/ Wait \/ SpuriousWakeup
  BY <1>6 DEF FindFull, Wait, SpuriousWakeup, slotVars
<1>7. CASE SetValueFd
  BY <1>7 DEF SetValueFd, Stored
<1>8. CASE CreateThread \/ CountThread
  BY <1>8 DEF CreateThread, CountThread, slotVars
<1>9. CASE UNCHANGED vars
  BY <1>9 DEF vars, loopVars, slotVars
<1> QED
  BY <1>1, <1>2, <1>3, <1>4, <1>5, <1>6, <1>7, <1>8, <1>9
     DEF Next, ThreadStep, MainStep, GetFreeFd, WakeUp

\* A slot is free again when its thread frees it, and not before.
LEMMA OwnedStep == ASSUME TypeOK, Own, Owned, [Next]_vars PROVE Owned'
<1> USE SlotsAssumption DEF TypeOK, Own, Owned, Owner, MainOwns, HoldsSlot, Starting
<1>1. ASSUME NEW c \in Conns, Accept(c) PROVE Owned'
  BY <1>1 DEF Accept, slotVars
<1>2. ASSUME NEW c \in Conns, Serve(c) \/ Close(c) PROVE Owned'
  BY <1>2 DEF Serve, Close, loopVars, slotVars
<1>3. ASSUME NEW c \in Conns, FreeSlot(c) PROVE Owned'
  BY <1>3 DEF FreeSlot, loopVars, Slots, Cells
<1>4. ASSUME NEW c \in Conns, UncountThread(c) PROVE Owned'
  BY <1>4 DEF UncountThread, Signalled, slotVars
<1>5. CASE TakeSlot /\ loop \in {"get_free_fd", "woken"}
  <2>1. \A i \in Slots : i # FirstFree => client_sockets'[i] = client_sockets[i]
    BY <1>5 DEF TakeSlot, Slots, Cells
  <2>2. \A c \in Conns, i \in Slots : Owner(c, i) /\ i # FirstFree => Owner(c, i)'
    BY <1>5, <2>1 DEF TakeSlot
  <2>3. loop' = "set_value_fd" /\ id'[current'] = FirstFree
    BY <1>5, SearchedSlot DEF TakeSlot
  <2> QED
    BY <1>5, <2>1, <2>2, <2>3
<1>6. CASE FindFull \/ Wait \/ SpuriousWakeup
  BY <1>6 DEF FindFull, Wait, SpuriousWakeup, slotVars
<1>7. CASE SetValueFd
  BY <1>7 DEF SetValueFd, Stored
<1>8. CASE CreateThread \/ CountThread
  BY <1>8 DEF CreateThread, CountThread, slotVars
<1>9. CASE UNCHANGED vars
  BY <1>9 DEF vars, loopVars, slotVars
<1> QED
  BY <1>1, <1>2, <1>3, <1>4, <1>5, <1>6, <1>7, <1>8, <1>9
     DEF Next, ThreadStep, MainStep, GetFreeFd, WakeUp

----------------------------------------------------------------------------
\* How a step changes the number of threads that run.
LEMMA RunningChanges ==
    ASSUME TypeOK
    PROVE  /\ Cardinality(Running) \in Nat
           /\ \A c \in Conns :
                 /\ thread[c] = "none" /\ thread' = [thread EXCEPT ![c] = "serve"]
                       => Cardinality(Running)' = Cardinality(Running) + 1
                 /\ thread[c] = "uncount" /\ thread' = [thread EXCEPT ![c] = "gone"]
                       => Cardinality(Running)' = Cardinality(Running) - 1
                 /\ \A s \in {"close", "free", "uncount"} :
                       thread[c] \in {"serve", "close", "free"} /\ thread' = [thread EXCEPT ![c] = s]
                          => Cardinality(Running)' = Cardinality(Running)
<1>1. IsFiniteSet(Running)
  BY SlotsAssumption, FS_Subset DEF Running
<1>2. ASSUME NEW c \in Conns, thread[c] = "none", thread' = [thread EXCEPT ![c] = "serve"]
      PROVE  Cardinality(Running)' = Cardinality(Running) + 1
  <2>1. Running' = Running \cup {c} /\ c \notin Running
    BY <1>2 DEF TypeOK, Running
  <2> QED
    BY <1>1, <2>1, FS_AddElement
<1>3. ASSUME NEW c \in Conns, thread[c] = "uncount", thread' = [thread EXCEPT ![c] = "gone"]
      PROVE  Cardinality(Running)' = Cardinality(Running) - 1
  <2>1. Running' = Running \ {c} /\ c \in Running
    BY <1>3 DEF TypeOK, Running
  <2> QED
    BY <1>1, <2>1, FS_RemoveElement
<1>4. ASSUME NEW c \in Conns, thread[c] \in {"serve", "close", "free"},
             NEW s \in {"close", "free", "uncount"}, thread' = [thread EXCEPT ![c] = s]
      PROVE  Cardinality(Running)' = Cardinality(Running)
  <2>1. Running' = Running
    BY <1>4 DEF TypeOK, Running
  <2> QED
    BY <2>1
<1> QED
  BY <1>1, <1>2, <1>3, <1>4, FS_CardinalityType

\* Fewer threads than slots leave a slot free.
LEMMA RoomMeansFreeSlot ==
    ASSUME TypeOK, Owned, loop \notin {"set_value_fd", "create"}, Cardinality(Running) < MaxThreads
    PROVE  FirstFree \in Slots
<1>1. SUFFICES ASSUME \A i \in Slots : client_sockets[i] # Free
               PROVE  FALSE
  BY SearchedSlot
<1> DEFINE holder == [i \in Slots |-> client_sockets[i]]
<1>2. \A i \in Slots : client_sockets[i] \in Running /\ id[client_sockets[i]] = i
  BY <1>1 DEF Owned, MainOwns, Owner, HoldsSlot, Running
<1>3. holder \in [Slots -> Running]
  BY <1>2
<1>4. IsFiniteSet(Slots) /\ Cardinality(Slots) = MaxThreads
  BY SlotsAssumption, FS_Interval DEF Slots
<1>5. IsFiniteSet(Running)
  BY SlotsAssumption, FS_Subset DEF Running
<1>6. Cardinality(Running) < Cardinality(Slots)
  BY <1>4
<1>7. PICK i \in Slots, j \in Slots : i # j /\ holder[i] = holder[j]
  <2> HIDE DEF holder
  <2> QED
    BY <1>3, <1>4, <1>5, <1>6, FS_PigeonHole
<1> QED
  BY <1>2, <1>7

\* The count is right, and keeps the threads to their limit.
LEMMA BoundedStep ==
    ASSUME TypeOK, Own, Owned, Counted, Bounded, [Next]_vars
    PROVE  Counted' /\ Bounded'
<1> USE SlotsAssumption
<1> DEFINE n == Cardinality(Running)
<1>0. n \in Nat /\ current_threads \in Int /\ MaxThreads \in Nat
  BY RunningChanges DEF TypeOK
<1>1. ASSUME NEW c \in Conns, Accept(c) PROVE Counted' /\ Bounded'
  BY <1>0, <1>1 DEF Accept, slotVars, Counted, Bounded, Running
<1>2. ASSUME NEW c \in Conns, Serve(c) \/ Close(c) \/ FreeSlot(c) PROVE Counted' /\ Bounded'
  <2>1. n' = n
    BY <1>2, RunningChanges DEF Serve, Close, FreeSlot
  <2> HIDE DEF n
  <2>2. Counted'
    BY <1>2, <2>1 DEF Serve, Close, FreeSlot, loopVars, Counted, n
  <2> QED
    BY <1>2, <2>1, <2>2 DEF Serve, Close, FreeSlot, loopVars, slotVars, Bounded, n
<1>3. ASSUME NEW c \in Conns, UncountThread(c) PROVE Counted' /\ Bounded'
  <2>1. n' = n - 1
    BY <1>3, RunningChanges DEF UncountThread
  <2>2. loop' = loop \/ (loop = "waiting" /\ loop' = "woken")
    BY <1>3 DEF UncountThread, Signalled
  <2>3. UNCHANGED <<id, spurious>> /\ current_threads' = current_threads - 1
    BY <1>3 DEF UncountThread, slotVars
  <2> HIDE DEF n
  <2> QED
    BY <1>0, <2>1, <2>2, <2>3 DEF Counted, Bounded, n
<1>4. CASE GetFreeFd
  <2>1. UNCHANGED <<current_threads, thread, spurious>> /\ loop = "get_free_fd" /\ loop' = "set_value_fd"
    BY <1>4 DEF GetFreeFd, TakeSlot
  <2>2. n' = n
    BY <2>1 DEF Running
  <2>3. n < MaxThreads
    BY <1>0, <1>4, <2>1 DEF GetFreeFd, Full, Counted
  <2>4. FirstFree \in Slots
    BY <2>1, <2>3, RoomMeansFreeSlot
  <2>5. ~spurious => \A c \in Conns : id'[c] \in Slots
    BY <1>4, <2>4 DEF GetFreeFd, TakeSlot, Bounded, TypeOK
  <2> HIDE DEF n
  <2> QED
    BY <1>0, <2>1, <2>2, <2>3, <2>5 DEF Counted, Bounded, n
<1>5. CASE WakeUp
  <2>1. UNCHANGED <<current_threads, thread, spurious>> /\ loop = "woken" /\ loop' = "set_value_fd"
    BY <1>5 DEF WakeUp, TakeSlot
  <2>2. n' = n
    BY <2>1 DEF Running
  <2>3. ~spurious => FirstFree \in Slots
    BY <2>1, RoomMeansFreeSlot DEF Bounded
  <2>4. ~spurious => \A c \in Conns : id'[c] \in Slots
    BY <1>5, <2>3 DEF WakeUp, TakeSlot, Bounded, TypeOK
  <2> HIDE DEF n
  <2> QED
    BY <1>0, <2>1, <2>2, <2>4 DEF Counted, Bounded, n
<1>6. CASE FindFull \/ Wait \/ SpuriousWakeup \/ SetValueFd
  <2>1. /\ UNCHANGED <<current_threads, thread, id>>
        /\ \/ spurious'
           \/ spurious' = spurious /\ (loop' \in {"woken", "set_value_fd", "create"} =>
                                        loop \in {"woken", "set_value_fd", "create"})
        /\ loop # "count" /\ loop' # "count"
    BY <1>6 DEF FindFull, Wait, SpuriousWakeup, SetValueFd, slotVars
  <2>2. n' = n
    BY <2>1 DEF Running
  <2> HIDE DEF n
  <2> QED
    BY <1>0, <2>1, <2>2 DEF Counted, Bounded, n
<1>7. CASE CreateThread
  <2>1. thread[current] = "none" /\ current \in Conns /\ loop = "create" /\ loop' = "count"
    BY <1>7 DEF CreateThread, Own, Starting, TypeOK
  <2>2. n' = n + 1
    BY <1>7, <2>1, RunningChanges DEF CreateThread
  <2>3. UNCHANGED <<current_threads, id, spurious>>
    BY <1>7 DEF CreateThread, slotVars
  <2> HIDE DEF n
  <2> QED
    BY <1>0, <2>1, <2>2, <2>3 DEF Counted, Bounded, n
<1>8. CASE CountThread
  <2>1. n' = n
    BY <1>8 DEF CountThread, Running
  <2> HIDE DEF n
  <2> QED
    BY <1>0, <1>8, <2>1 DEF CountThread, slotVars, Counted, Bounded, n
<1>9. CASE UNCHANGED vars
  BY <1>0, <1>9 DEF vars, loopVars, slotVars, Counted, Bounded, Running
<1> QED
  BY <1>1, <1>2, <1>3, <1>4, <1>5, <1>6, <1>7, <1>8, <1>9 DEF Next, ThreadStep, MainStep

\* Every thread closes its own socket.
LEMMA SocketsStep ==
    ASSUME TypeOK, Own, Bounded, Sockets, [Next]_vars
    PROVE  Sockets'
<1> USE DEF Sockets, TypeOK, Own, Starting
<1>1. ASSUME NEW c \in Conns, Accept(c) PROVE Sockets'
  BY <1>1 DEF Accept
<1>2. ASSUME NEW c \in Conns, Serve(c) \/ FreeSlot(c) \/ UncountThread(c) PROVE Sockets'
  BY <1>2 DEF Serve, FreeSlot, UncountThread, Signalled, loopVars
<1>3. ASSUME NEW c \in Conns, Close(c) PROVE Sockets'
  <2>1. ~spurious => client_sockets[id[c]] = c
    BY <1>3 DEF Close, Bounded, HoldsSlot
  <2>2. /\ ~spurious => open' = open \ {c}
        /\ UNCHANGED <<loop, current, spurious>>
        /\ thread[c] = "close" /\ thread' = [thread EXCEPT ![c] = "free"]
    BY <1>3, <2>1 DEF Close, loopVars
  <2>3. loop \in Starting => current # c
    BY <2>2
  <2> QED
    BY <2>2, <2>3
<1>4. CASE GetFreeFd \/ WakeUp \/ FindFull \/ Wait \/ SpuriousWakeup \/ SetValueFd
  BY <1>4 DEF GetFreeFd, WakeUp, TakeSlot, FindFull, Wait, SpuriousWakeup, SetValueFd
<1>5. CASE CreateThread \/ CountThread
  BY <1>5 DEF CreateThread, CountThread
<1>6. CASE UNCHANGED vars
  BY <1>6 DEF vars, loopVars
<1> QED
  BY <1>1, <1>2, <1>3, <1>4, <1>5, <1>6 DEF Next, ThreadStep, MainStep

----------------------------------------------------------------------------
LEMMA InvAtStart == Init => Inv
<1> SUFFICES ASSUME Init PROVE Inv
  OBVIOUS
<1>1. TypeOK
  BY TypesAtStart
<1>2. Own /\ Owned /\ Sockets
  BY <1>1, SlotsAssumption DEF Init, Own, HoldsSlot, Starting, Owned, Sockets, Slots, Cells
<1>3. Cardinality(Running) = 0
  <2>1. Running = {}
    BY DEF Init, Running
  <2> QED
    BY <2>1, FS_EmptySet
<1>4. 0 \in Slots
  BY SlotsAssumption DEF Slots
<1>5. Counted /\ Bounded
  BY <1>3, <1>4, SlotsAssumption DEF Init, Counted, Bounded
<1> QED
  BY <1>1, <1>2, <1>5 DEF Inv

LEMMA InvStep == Inv /\ [Next]_vars => Inv'
BY TypesStep, OwnStep, OwnedStep, BoundedStep, SocketsStep DEF Inv

(***************************************************************************)
(* A slot in the array belongs to one thread until that thread frees it,   *)
(* and without spurious wakeups every thread closes its own socket alone:  *)
(* close(client_sockets[id]) is done without free_fd_mutex.                *)
(***************************************************************************)
THEOREM SlotsBelongToOneThread == Spec => []SlotsAreOwn
<1>1. Inv => SlotsAreOwn
  BY DEF Inv, Own, Sockets, SlotsAreOwn
<1> QED
  BY <1>1, InvAtStart, InvStep, PTL DEF Spec

(***************************************************************************)
(* The count that is tested with the wrong mutex, and that misses the      *)
(* thread just created, keeps the threads to MAX_THREADS and every search  *)
(* within the array, unless not_full is left without a signal.             *)
(***************************************************************************)
THEOREM ThreadsAreLimited == Spec => []LimitKept
<1>1. Inv => LimitKept
  BY DEF Inv, Bounded, LimitKept
<1> QED
  BY <1>1, InvAtStart, InvStep, PTL DEF Spec
=============================================================================
