----------------------- MODULE ReadersWriters_proofs -----------------------
(***************************************************************************)
(* For any number of readers and writers, any priority and any ratio:      *)
(* writers exclude each other, no increment of the counter is lost, the    *)
(* counts of readers and writers inside are exact, the last one active     *)
(* wakes one that waits, and the file is current while all have locked.    *)
(***************************************************************************)
EXTENDS ReadersWriters, FiniteSetTheorems, TLAPS

\* TypeOK without the sign of the counts, which follows from their meaning,
\* and with one place more, which only CounterRestart uses.
Types ==
    /\ priority \in Priorities /\ ratio \in Ratios
    /\ pc \in [Requests -> Labels \cup {"killed"}]
    /\ locked \in [Requests -> BOOLEAN]
    /\ val \in [Requests -> Int]
    /\ current_readers \in Int /\ current_writers \in Int
    /\ readers_mutex \in Requests \cup {NoOne}
    /\ writers_mutex \in Requests \cup {NoOne}
    /\ ratio_mutex \in Requests \cup {NoOne}
    /\ mutex \in Requests \cup {NoOne}
    /\ ratio_counter \in Int
    /\ counter \in Int
    /\ file \in Int \cup {Empty}

\* mutex belongs to the thread in the region that locked it; every writer
\* there did; nobody has locked it before the region.
MutexHeld ==
    /\ \A c \in Requests : (pc[c] \in InRegion /\ locked[c]) <=> mutex = c
    /\ \A c \in Writers : pc[c] \in InRegion => locked[c]
    /\ \A c \in Requests : pc[c] \in {"idle"} \cup AtGate => ~locked[c]

\* Only writers increment, and one about to store its increment still knows
\* the counter.
RegisterCurrent ==
    /\ \A c \in Readers : pc[c] \notin {"count_read", "count_write"}
    /\ \A c \in Writers : pc[c] = "count_write" => val[c] = counter

USE DEF Requests, Labels, Outside, AtGate, InRegion

\* Where a request that leaves goes, and whom its signal moves.
LEMMA LeavingLabels ==
    ASSUME NEW c \in Requests, Leave(c) \/ SignalOther(c)
    PROVE  \/ pc' = [pc EXCEPT ![c] = "unlock"] \/ pc' = [pc EXCEPT ![c] = "signal"]
           \/ \E d \in Requests : /\ pc[d] = "waiting"
                                  /\ pc' = [pc EXCEPT ![c] = "unlock", ![d] = "woken"]
BY DEF Leave, SignalOther, LeaveAndSignal, Waiting, Goto

\* No step breaks the types.
LEMMA TypesStep == ASSUME Types, [Next]_vars PROVE Types'
<1>1. ASSUME NEW c \in Requests, EnterReader(c) PROVE Types'
  BY <1>1 DEF Types, EnterReader, Goto, args, dataVars
<1>2. ASSUME NEW c \in Requests, EnterWriter(c) PROVE Types'
  BY <1>2 DEF Types, EnterWriter, Goto, args, dataVars
<1>3. ASSUME NEW c \in Requests, Wait(c) \/ WakeUp(c) \/ PassGate(c) \/ Lock(c) PROVE Types'
  BY <1>3 DEF Types, Wait, WakeUp, PassGate, Lock, Goto, args, dataVars, countVars, lockVars
<1>4. ASSUME NEW c \in Requests, RatioRead(c) \/ RatioWrite(c) \/ RatioReset(c) PROVE Types'
  BY <1>4 DEF Types, RatioRead, RatioWrite, RatioReset, AfterRatio, Goto,
              args, dataVars, countVars, lockVars
<1>5. ASSUME NEW c \in Requests, CounterRead(c) \/ CounterWrite(c) \/ Truncate(c) \/ Format(c)
      PROVE Types'
  BY <1>5 DEF Types, CounterRead, CounterWrite, Truncate, Format, Goto,
              args, dataVars, countVars, lockVars
<1>6. ASSUME NEW c \in Requests, Flush(c) PROVE Types'
  <2>1. Overwrite(val[c], file) \in Int
    BY ReadersWritersAssumption DEF Types, Overwrite
  <2> QED
    BY <1>6, <2>1 DEF Types, Flush, Goto, args, countVars, lockVars
<1>7. ASSUME NEW c \in Requests, Leave(c) PROVE Types'
  <2>1. pc' \in [Requests -> Labels \cup {"killed"}]
    BY <1>7, LeavingLabels DEF Types
  <2>2. current_readers' \in Int /\ current_writers' \in Int
    BY <1>7 DEF Types, Leave, ReadersLeft, WritersLeft
  <2>3. ratio_counter' \in Int
    BY <1>7 DEF Types, Leave
  <2> QED
    BY <1>7, <2>1, <2>2, <2>3 DEF Types, Leave, args, lockVars
<1>8. ASSUME NEW c \in Requests, Unlock(c) \/ Reply(c) \/ SpuriousWakeup(c) PROVE Types'
  BY <1>8 DEF Types, Unlock, Unlocked, Reply, SpuriousWakeup, Goto, args, dataVars, countVars, lockVars
<1>10. ASSUME NEW c \in Requests, SignalOther(c) PROVE Types'
  BY <1>10, LeavingLabels DEF Types, SignalOther, args, dataVars, countVars, lockVars
<1>9. CASE UNCHANGED vars
  BY <1>9 DEF Types, vars, args, dataVars, countVars, lockVars
<1> QED
  BY <1>1, <1>2, <1>3, <1>4, <1>5, <1>6, <1>7, <1>8, <1>9, <1>10 DEF Next, Arrive, Proceed

\* mutex has one owner, the thread that locked it, until that thread unlocks it.
LEMMA MutexHeldStep == ASSUME Types, MutexHeld, [Next]_vars PROVE MutexHeld'
<1> USE ReadersWritersAssumption DEF Types
<1>1. ASSUME NEW c \in Requests, EnterReader(c) \/ EnterWriter(c) PROVE MutexHeld'
  BY <1>1 DEF MutexHeld, EnterReader, EnterWriter, Goto
<1>2. ASSUME NEW c \in Requests, Wait(c) \/ SpuriousWakeup(c) \/ WakeUp(c) PROVE MutexHeld'
  BY <1>2 DEF MutexHeld, Wait, SpuriousWakeup, WakeUp, Goto, lockVars
<1>3. ASSUME NEW c \in Requests, PassGate(c) PROVE MutexHeld'
  BY <1>3 DEF MutexHeld, PassGate, NeedsMutex, Goto, lockVars
<1>4. ASSUME NEW c \in Requests, Lock(c) PROVE MutexHeld'
  BY <1>4 DEF MutexHeld, Lock, Goto
<1>5. ASSUME NEW c \in Requests, RatioRead(c) \/ RatioWrite(c) \/ RatioReset(c) PROVE MutexHeld'
  BY <1>5 DEF MutexHeld, RatioRead, RatioWrite, RatioReset, AfterRatio, Goto, lockVars
<1>6. ASSUME NEW c \in Requests, CounterRead(c) \/ CounterWrite(c) PROVE MutexHeld'
  BY <1>6 DEF MutexHeld, CounterRead, CounterWrite, Goto, lockVars
<1>7. ASSUME NEW c \in Requests, Truncate(c) \/ Format(c) \/ Flush(c) PROVE MutexHeld'
  BY <1>7 DEF MutexHeld, Truncate, Format, Flush, Goto, lockVars
<1>8. ASSUME NEW c \in Requests, Leave(c) \/ SignalOther(c) PROVE MutexHeld'
  <2>1. UNCHANGED <<locked, mutex>> /\ pc[c] \in {"leave", "signal"}
    BY <1>8 DEF Leave, SignalOther, lockVars
  <2> QED
    BY <1>8, <2>1, LeavingLabels DEF MutexHeld
<1>9. ASSUME NEW c \in Requests, Unlock(c) \/ Reply(c) PROVE MutexHeld'
  BY <1>9 DEF MutexHeld, Unlock, Unlocked, Reply, Goto, lockVars
<1>10. CASE UNCHANGED vars
  BY <1>10 DEF MutexHeld, vars, lockVars
<1> QED
  BY <1>1, <1>2, <1>3, <1>4, <1>5, <1>6, <1>7, <1>8, <1>9, <1>10 DEF Next, Arrive, Proceed

(***************************************************************************)
(* Writers exclude each other in the region of do_request the code calls   *)
(* critical: each of them holds mutex there.                               *)
(***************************************************************************)
THEOREM WritersExcludeEachOther == Spec => []WritersExclude
<1> DEFINE Held == Types /\ MutexHeld
<1>1. Init => Held
  BY ReadersWritersAssumption DEF Init, Types, MutexHeld
<1>2. Held /\ [Next]_vars => Held'
  BY TypesStep, MutexHeldStep
<1>3. Held => WritersExclude
  BY DEF MutexHeld, WritersExclude
<1> QED
  BY <1>1, <1>2, <1>3, PTL DEF Spec

----------------------------------------------------------------------------
\* Adding a request to a set of requests, or taking one out, moves its size
\* by one; and such a set has a size.
LEMMA Sizes ==
    ASSUME NEW S \in SUBSET Requests, NEW c \in Requests
    PROVE  /\ Cardinality(S) \in Nat
           /\ c \notin S => Cardinality(S \cup {c}) = Cardinality(S) + 1
           /\ c \in S => Cardinality(S \ {c}) = Cardinality(S) - 1
<1>1. IsFiniteSet(S)
  BY ReadersWritersAssumption, FS_Subset
<1> QED
  BY <1>1, FS_CardinalityType, FS_AddElement, FS_RemoveElement

ReadersIn == {c \in Readers : Counted(c)}
WritersIn == {c \in Writers : Counted(c)}

\* CountsExact, by the sets.
Exact ==
    /\ current_readers = Cardinality(ReadersIn)
    /\ current_writers = Cardinality(WritersIn)

\* The counts follow the sets of requests inside.
LEMMA ExactStep == ASSUME Types, Exact, [Next]_vars PROVE Exact'
<1>1. ReadersIn \in SUBSET Requests /\ WritersIn \in SUBSET Requests
  BY DEF ReadersIn, WritersIn
<1>2. ASSUME NEW c \in Requests, EnterReader(c) PROVE Exact'
  <2>1. ReadersIn' = ReadersIn \cup {c} /\ c \notin ReadersIn /\ WritersIn' = WritersIn
    BY <1>2, ReadersWritersAssumption DEF Types, EnterReader, Goto, ReadersIn, WritersIn, Counted
  <2> QED
    BY <1>1, <1>2, <2>1, Sizes DEF EnterReader, Exact
<1>3. ASSUME NEW c \in Requests, EnterWriter(c) PROVE Exact'
  <2>1. WritersIn' = WritersIn \cup {c} /\ c \notin WritersIn /\ ReadersIn' = ReadersIn
    BY <1>3, ReadersWritersAssumption DEF Types, EnterWriter, Goto, ReadersIn, WritersIn, Counted
  <2> QED
    BY <1>1, <1>3, <2>1, Sizes DEF EnterWriter, Exact
<1>4. ASSUME NEW c \in Requests, Leave(c) PROVE Exact'
  <2>1. /\ pc[c] = "leave"
        /\ current_readers' = ReadersLeft(c)
        /\ current_writers' = WritersLeft(c)
    BY <1>4 DEF Leave
  <2>3. \A d \in Requests : Counted(d)' <=> Counted(d) /\ d # c
    BY <1>4, <2>1, LeavingLabels DEF Types, Counted
  <2>4. CASE c \in Readers
    <3>1. ReadersIn' = ReadersIn \ {c} /\ c \in ReadersIn /\ WritersIn' = WritersIn
      BY <2>1, <2>3, <2>4, ReadersWritersAssumption DEF ReadersIn, WritersIn, Counted
    <3>2. current_readers' = current_readers - 1 /\ current_writers' = current_writers
      BY <2>1, <2>4, ReadersWritersAssumption DEF Types, ReadersLeft, WritersLeft
    <3> QED
      BY <1>1, <3>1, <3>2, Sizes DEF Exact
  <2>5. CASE c \in Writers
    <3>1. WritersIn' = WritersIn \ {c} /\ c \in WritersIn /\ ReadersIn' = ReadersIn
      BY <2>1, <2>3, <2>5, ReadersWritersAssumption DEF ReadersIn, WritersIn, Counted
    <3>2. current_readers' = current_readers /\ current_writers' = current_writers - 1
      BY <2>1, <2>5, ReadersWritersAssumption DEF Types, ReadersLeft, WritersLeft
    <3> QED
      BY <1>1, <3>1, <3>2, Sizes DEF Exact
  <2> QED
    BY <2>4, <2>5
<1>5. (\A d \in Requests : Counted(d)' = Counted(d)) /\ UNCHANGED countVars => Exact'
  BY DEF Exact, ReadersIn, WritersIn, countVars
<1>6. ASSUME NEW c \in Requests,
             Wait(c) \/ SpuriousWakeup(c) \/ WakeUp(c) \/ PassGate(c) \/ Lock(c)
      PROVE  Exact'
  BY <1>5, <1>6 DEF Types, Wait, SpuriousWakeup, WakeUp, PassGate, Lock, Goto, Counted, countVars
<1>7. ASSUME NEW c \in Requests, RatioRead(c) \/ RatioWrite(c) \/ RatioReset(c) PROVE Exact'
  BY <1>5, <1>7 DEF Types, RatioRead, RatioWrite, RatioReset, AfterRatio, Goto, Counted, countVars
<1>8. ASSUME NEW c \in Requests, CounterRead(c) \/ CounterWrite(c) \/ Truncate(c) \/ Format(c) \/ Flush(c)
      PROVE Exact'
  BY <1>5, <1>8 DEF Types, CounterRead, CounterWrite, Truncate, Format, Flush, Goto, Counted, countVars
<1>9. ASSUME NEW c \in Requests, Unlock(c) \/ Reply(c) PROVE Exact'
  BY <1>5, <1>9 DEF Types, Unlock, Reply, Goto, Counted, countVars
<1>11. ASSUME NEW c \in Requests, SignalOther(c) PROVE Exact'
  <2>1. pc[c] = "signal" /\ UNCHANGED countVars
    BY <1>11 DEF SignalOther
  <2> QED
    BY <1>5, <1>11, <2>1, LeavingLabels DEF Types, Counted
<1>10. CASE UNCHANGED vars
  BY <1>5, <1>10 DEF vars, Counted, countVars
<1> QED
  BY <1>2, <1>3, <1>4, <1>6, <1>7, <1>8, <1>9, <1>10, <1>11 DEF Next, Arrive, Proceed

(***************************************************************************)
(* The counts the entry and leaving decisions of do_request go by are the  *)
(* requests inside, however many there are.                                *)
(***************************************************************************)
THEOREM CountsAreExact == Spec => []CountsExact
<1> DEFINE Counts == Types /\ Exact
<1>1. Init => Counts
  <2>1. SUFFICES ASSUME Init PROVE Types /\ Exact
    OBVIOUS
  <2>2. Types
    BY <2>1, ReadersWritersAssumption DEF Init, Types
  <2>3. ReadersIn = {} /\ WritersIn = {}
    BY <2>1 DEF Init, ReadersIn, WritersIn, Counted
  <2> QED
    BY <2>1, <2>2, <2>3, FS_EmptySet DEF Init, Exact
<1>2. Counts /\ [Next]_vars => Counts'
  BY TypesStep, ExactStep
<1>3. Counts => CountsExact
  BY DEF Exact, CountsExact, ReadersIn, WritersIn
<1> QED
  BY <1>1, <1>2, <1>3, PTL DEF Spec

(***************************************************************************)
(* Every variable keeps its type; the counts never go below zero.          *)
(***************************************************************************)
THEOREM TypesAreKept == Spec => []TypeOK
<1> DEFINE Named == Types /\ pc \in [Requests -> Labels]
<1>1. Init => Named
  BY ReadersWritersAssumption DEF Init, Types
<1>2. Named /\ [Next]_vars => Named'
  <2> SUFFICES ASSUME Named, [Next]_vars PROVE pc' \in [Requests -> Labels]
    BY TypesStep
  <2>1. CASE UNCHANGED vars
    BY <2>1 DEF vars
  <2>2. ASSUME NEW c \in Requests, Leave(c) \/ SignalOther(c) PROVE pc' \in [Requests -> Labels]
    BY <2>2, LeavingLabels
  <2>3. ASSUME NEW c \in Requests,
               Arrive(c) \/ SpuriousWakeup(c) \/ (Proceed(c) /\ ~Leave(c) /\ ~SignalOther(c))
        PROVE  pc' \in [Requests -> Labels]
    <3>1. PICK place \in Labels : pc' = [pc EXCEPT ![c] = place]
      BY <2>3 DEF Arrive, EnterReader, EnterWriter, SpuriousWakeup, Proceed, Wait, WakeUp, PassGate,
                  Lock, RatioRead, RatioWrite, RatioReset, AfterRatio, CounterRead, CounterWrite,
                  Truncate, Format, Flush, Unlock, Reply, Goto
    <3> QED
      BY <3>1
  <2> QED
    BY <2>1, <2>2, <2>3 DEF Next
<1>3. Named /\ CountsExact => TypeOK
  <2> SUFFICES ASSUME Named, CountsExact PROVE TypeOK
    OBVIOUS
  <2>1. ReadersIn \in SUBSET Requests /\ WritersIn \in SUBSET Requests
    BY DEF ReadersIn, WritersIn
  <2>2. Cardinality(ReadersIn) \in Nat /\ Cardinality(WritersIn) \in Nat
    BY <2>1, ReadersWritersAssumption, FS_Subset, FS_CardinalityType
  <2> QED
    BY <2>2 DEF Types, TypeOK, CountsExact, ReadersIn, WritersIn
<1> QED
  BY <1>1, <1>2, <1>3, CountsAreExact, PTL DEF Spec

----------------------------------------------------------------------------
\* NoIncrementLost, with a name for what it starts from.
Start(n) == counter = n + Cardinality(Written)

\* A step of a writer that holds mutex between reading the counter and storing
\* the increment sees no other writer there.
LEMMA IncrementStep ==
    ASSUME Types, MutexHeld, RegisterCurrent, NEW n \in Int, Start(n), [Next]_vars
    PROVE  RegisterCurrent' /\ Start(n)'
<1>1. Written \in SUBSET Requests
  BY DEF Written
<1>2. (\A d \in Writers : (d \in Written)' <=> d \in Written) /\ UNCHANGED counter => Start(n)'
  BY DEF Start, Written
<1>3. ASSUME NEW c \in Requests, EnterReader(c) \/ EnterWriter(c) PROVE RegisterCurrent' /\ Start(n)'
  BY <1>2, <1>3 DEF Types, RegisterCurrent, Written, EnterReader, EnterWriter, Goto, dataVars
<1>4. ASSUME NEW c \in Requests,
             Wait(c) \/ SpuriousWakeup(c) \/ WakeUp(c) \/ PassGate(c) \/ Lock(c)
      PROVE RegisterCurrent' /\ Start(n)'
  BY <1>2, <1>4
     DEF Types, RegisterCurrent, Written, Wait, SpuriousWakeup, WakeUp, PassGate, Lock, Goto, dataVars
<1>5. ASSUME NEW c \in Requests, RatioRead(c) \/ RatioWrite(c) \/ RatioReset(c)
      PROVE RegisterCurrent' /\ Start(n)'
  BY <1>2, <1>5, ReadersWritersAssumption
     DEF Types, RegisterCurrent, Written, RatioRead, RatioWrite, RatioReset, AfterRatio, Goto, dataVars
<1>6. ASSUME NEW c \in Requests, CounterRead(c) PROVE RegisterCurrent' /\ Start(n)'
  BY <1>2, <1>6 DEF Types, RegisterCurrent, Written, CounterRead, Goto, dataVars
<1>7. ASSUME NEW c \in Requests, CounterWrite(c) PROVE RegisterCurrent' /\ Start(n)'
  <2>0. c \in Writers
    BY <1>7 DEF RegisterCurrent, CounterWrite
  <2>1. \A d \in Writers \ {c} : pc[d] # "count_write"
    BY <1>7, <2>0 DEF Types, MutexHeld, CounterWrite
  <2>2. counter' = counter + 1
    BY <1>7, <2>0 DEF Types, RegisterCurrent, CounterWrite
  <2>3. Written' = Written \cup {c} /\ c \notin Written
    BY <1>7, <2>0 DEF Types, CounterWrite, Written, Goto
  <2>4. Cardinality(Written') = Cardinality(Written) + 1 /\ Cardinality(Written) \in Nat
    BY <1>1, <2>3, Sizes
  <2>5. Start(n)'
    BY <2>2, <2>4, ReadersWritersAssumption DEF Start
  <2>6. RegisterCurrent'
    BY <1>7, <2>1, <2>2 DEF Types, RegisterCurrent, CounterWrite, Goto
  <2> QED
    BY <2>5, <2>6
<1>8. ASSUME NEW c \in Requests, Truncate(c) \/ Format(c) \/ Flush(c) PROVE RegisterCurrent' /\ Start(n)'
  BY <1>2, <1>8 DEF Types, RegisterCurrent, Written, Truncate, Format, Flush, Goto, dataVars
<1>9. ASSUME NEW c \in Requests, Leave(c) \/ SignalOther(c) PROVE RegisterCurrent' /\ Start(n)'
  <2>1. UNCHANGED <<val, counter>> /\ pc[c] \in {"leave", "signal"}
    BY <1>9 DEF Leave, SignalOther, dataVars
  <2> QED
    BY <1>2, <1>9, <2>1, LeavingLabels DEF Types, RegisterCurrent, Written
<1>10. ASSUME NEW c \in Requests, Unlock(c) \/ Reply(c) PROVE RegisterCurrent' /\ Start(n)'
  BY <1>2, <1>10 DEF Types, RegisterCurrent, Written, Unlock, Reply, Goto, dataVars
<1>11. CASE UNCHANGED vars
  BY <1>2, <1>11 DEF vars, RegisterCurrent, Written, dataVars
<1> QED
  BY <1>3, <1>4, <1>5, <1>6, <1>7, <1>8, <1>9, <1>10, <1>11 DEF Next, Arrive, Proceed

LEMMA RegisterStep ==
    ASSUME Types, MutexHeld, RegisterCurrent, [Next]_vars PROVE RegisterCurrent'
<1>1. Written \in SUBSET Requests
  BY DEF Written
<1>2. Cardinality(Written) \in Nat
  BY <1>1, ReadersWritersAssumption, FS_Subset, FS_CardinalityType
<1>3. PICK n \in Int : Start(n)
  <2>1. Start(counter - Cardinality(Written)) /\ counter - Cardinality(Written) \in Int
    BY <1>2 DEF Types, Start
  <2> QED
    BY <2>1
<1> QED
  BY <1>3, IncrementStep

(***************************************************************************)
(* No increment is lost by do_request: the counter is what the server      *)
(* started with plus one for each writer that has stored its increment.    *)
(***************************************************************************)
THEOREM NoIncrementIsLost == Spec => []NoIncrementLost
<1> DEFINE IInv == Types /\ MutexHeld /\ RegisterCurrent /\ \E n \in Starts : Start(n)
<1>1. Init => IInv
  <2>1. SUFFICES ASSUME Init PROVE IInv
    OBVIOUS
  <2>2. Types /\ MutexHeld /\ RegisterCurrent
    BY <2>1, ReadersWritersAssumption DEF Init, Types, MutexHeld, RegisterCurrent
  <2>3. Written = {}
    BY <2>1 DEF Init, Written
  <2>4. Start(counter)
    BY <2>1, <2>3, FS_EmptySet, ReadersWritersAssumption DEF Init, Start
  <2> QED
    BY <2>1, <2>2, <2>4 DEF Init
<1>2. IInv /\ [Next]_vars => IInv'
  BY TypesStep, MutexHeldStep, IncrementStep, ReadersWritersAssumption
<1>3. IInv => NoIncrementLost
  BY DEF Start, NoIncrementLost
<1> QED
  BY <1>1, <1>2, <1>3, PTL DEF Spec

----------------------------------------------------------------------------
(* The output file.                                                        *)

\* Everybody in the region has locked mutex.
RegionLocked == \A c \in Requests : pc[c] \in InRegion => locked[c]

Writing == {"fopen", "fprintf", "fclose"}

\* Nobody has written the file since a server created it empty.
NotYetWritten ==
    /\ file = Empty
    /\ \A c \in Requests : pc[c] \notin {"leave", "signal", "unlock", "reply", "done"}

\* Between write_output's truncation and its fclose the file is empty;
\* otherwise it holds the counter, unless it is new and that is allowed for.
FileFollows(new) ==
    /\ \A c \in Requests : pc[c] \in {"fprintf", "fclose"} => file = Empty
    /\ \A c \in Requests : pc[c] = "fclose" => val[c] = counter
    /\ (\A c \in Requests : pc[c] \notin Writing) => file = counter \/ (new /\ NotYetWritten)

LEMMA FileStep ==
    ASSUME Types, MutexHeld, RegisterCurrent, RegionLocked, NEW new \in BOOLEAN, FileFollows(new),
           [Next]_vars
    PROVE  FileFollows(new)'
<1> USE ReadersWritersAssumption DEF Types, Writing
<1>1. \A c, d \in Requests : pc[c] \in InRegion /\ pc[d] \in InRegion => c = d
  BY DEF RegionLocked, MutexHeld
<1>2. /\ UNCHANGED <<counter, file>>
      /\ \A d \in Requests : /\ pc'[d] \in Writing => pc[d] = pc'[d] /\ val'[d] = val[d]
                             /\ pc[d] \in Writing => pc'[d] = pc[d]
                             /\ pc'[d] \in {"leave", "signal", "unlock", "reply", "done"}
                                  => pc[d] \in {"leave", "signal", "unlock", "reply", "done"}
      => FileFollows(new)'
  BY DEF FileFollows, NotYetWritten
<1>3. ASSUME NEW c \in Requests, Arrive(c) \/ SpuriousWakeup(c) \/ Wait(c) \/ WakeUp(c)
                                 \/ PassGate(c) \/ Lock(c) \/ CounterRead(c) \/ RatioRead(c)
                                 \/ Unlock(c) \/ Reply(c)
      PROVE  FileFollows(new)'
  <2>1. UNCHANGED <<counter, file>>
    BY <1>3 DEF Arrive, EnterReader, EnterWriter, SpuriousWakeup, Wait, WakeUp, PassGate, Lock,
                CounterRead, RatioRead, Unlock, Reply, dataVars
  <2>2. /\ \A d \in Requests : d # c => pc'[d] = pc[d] /\ val'[d] = val[d]
        /\ pc[c] \notin Writing /\ pc'[c] \notin Writing
        /\ pc'[c] \in {"leave", "signal", "unlock", "reply", "done"}
             => pc[c] \in {"leave", "signal", "unlock", "reply", "done"}
    BY <1>3 DEF Arrive, EnterReader, EnterWriter, SpuriousWakeup, Wait, WakeUp, PassGate, Lock,
                CounterRead, RatioRead, Unlock, Reply, Goto
  <2> QED
    BY <1>2, <2>1, <2>2
<1>4. ASSUME NEW c \in Requests, RatioWrite(c) \/ RatioReset(c) \/ CounterWrite(c)
      PROVE  FileFollows(new)'
  <2>1. \A d \in Requests : pc[d] \notin Writing
    BY <1>1, <1>4 DEF RatioWrite, RatioReset, CounterWrite
  <2>2. CASE pc'[c] = "fopen"
    BY <1>4, <2>1, <2>2 DEF FileFollows, RatioWrite, RatioReset, CounterWrite, Goto
  <2>3. CASE pc'[c] # "fopen"
    <3>1. UNCHANGED <<counter, file>> /\ pc' = [pc EXCEPT ![c] = "count_read"]
      BY <1>4, <2>3 DEF RatioWrite, RatioReset, CounterWrite, AfterRatio, Goto
    <3> QED
      BY <1>2, <2>1, <3>1
  <2> QED
    BY <2>2, <2>3
<1>5. ASSUME NEW c \in Requests, Truncate(c) PROVE FileFollows(new)'
  <2>1. \A d \in Requests : d # c => pc[d] \notin Writing
    BY <1>1, <1>5 DEF Truncate
  <2> QED
    BY <1>5, <2>1 DEF FileFollows, Truncate, Goto
<1>6. ASSUME NEW c \in Requests, Format(c) PROVE FileFollows(new)'
  <2>1. \A d \in Requests : d # c => pc[d] \notin Writing
    BY <1>1, <1>6 DEF Format
  <2> QED
    BY <1>6, <2>1 DEF FileFollows, Format, Goto, dataVars
<1>7. ASSUME NEW c \in Requests, Flush(c) PROVE FileFollows(new)'
  <2>1. \A d \in Requests : d # c => pc[d] \notin Writing
    BY <1>1, <1>7 DEF Flush
  <2>2. file' = counter
    BY <1>7 DEF FileFollows, Flush, Overwrite
  <2> QED
    BY <1>7, <2>1, <2>2 DEF FileFollows, Flush, Goto
<1>8. ASSUME NEW c \in Requests, Leave(c) \/ SignalOther(c) PROVE FileFollows(new)'
  <2>1. UNCHANGED <<val, counter, file>> /\ pc[c] \in {"leave", "signal"}
    BY <1>8 DEF Leave, SignalOther, dataVars
  <2> QED
    BY <1>2, <1>8, <2>1, LeavingLabels
<1>9. CASE UNCHANGED vars
  BY <1>2, <1>9 DEF vars, dataVars
<1> QED
  BY <1>3, <1>4, <1>5, <1>6, <1>7, <1>8, <1>9 DEF Next, Proceed

\* A request that went in without mutex is never in doubt again.
LEMMA UnlockedStaysUnlocked ==
    ASSUME Types, NEW c \in Requests, pc[c] \notin {"idle"} \cup AtGate, ~locked[c], [Next]_vars
    PROVE  pc'[c] \notin {"idle"} \cup AtGate /\ ~locked'[c]
<1>1. CASE UNCHANGED vars
  BY <1>1 DEF vars
<1>2. ASSUME NEW d \in Requests, Leave(d) \/ SignalOther(d)
      PROVE  pc'[c] \notin {"idle"} \cup AtGate /\ ~locked'[c]
  <2>1. UNCHANGED locked
    BY <1>2 DEF Leave, SignalOther
  <2> QED
    BY <1>2, <2>1, LeavingLabels DEF Types
<1>3. ASSUME NEW d \in Requests,
             Arrive(d) \/ SpuriousWakeup(d) \/ (Proceed(d) /\ ~Leave(d) /\ ~SignalOther(d))
      PROVE  pc'[c] \notin {"idle"} \cup AtGate /\ ~locked'[c]
  <2>1. CASE d = c
    BY <1>3, <2>1 DEF Types, Arrive, EnterReader, EnterWriter, SpuriousWakeup, Proceed, Wait, WakeUp,
                PassGate, Lock, RatioRead, RatioWrite, RatioReset, AfterRatio, CounterRead,
                CounterWrite, Truncate, Format, Flush, Unlock, Reply, Goto
  <2>2. CASE d # c
    BY <1>3, <2>2 DEF Types, Arrive, EnterReader, EnterWriter, SpuriousWakeup, Proceed, Wait, WakeUp,
                PassGate, Lock, RatioRead, RatioWrite, RatioReset, CounterRead,
                CounterWrite, Truncate, Format, Flush, Unlock, Reply, Goto
  <2> QED
    BY <2>1, <2>2
<1> QED
  BY <1>1, <1>2, <1>3 DEF Next

AllLocked == \A c \in Requests : pc[c] \in {"idle"} \cup AtGate \/ locked[c]

(***************************************************************************)
(* write_output leaves the counter in the file whenever mutex is free,     *)
(* until a reader has gone in without mutex; Init of a server that was     *)
(* started on a file.                                                      *)
(***************************************************************************)
THEOREM FileStaysCurrent == Spec => []FileIsCurrent
<1> DEFINE IInv == Types /\ MutexHeld /\ RegisterCurrent /\ (AllLocked => FileFollows(FALSE))
<1>1. Init => IInv
  BY ReadersWritersAssumption DEF Init, Types, MutexHeld, RegisterCurrent, FileFollows, Writing
<1>2. IInv /\ [Next]_vars => IInv'
  <2> SUFFICES ASSUME IInv, [Next]_vars, AllLocked' PROVE FileFollows(FALSE)'
    BY TypesStep, MutexHeldStep, RegisterStep
  <2>1. AllLocked
    BY UnlockedStaysUnlocked DEF AllLocked
  <2>2. RegionLocked
    BY <2>1 DEF AllLocked, RegionLocked
  <2> QED
    BY <2>1, <2>2, FileStep
<1>3. IInv => FileIsCurrent
  <2> SUFFICES ASSUME IInv, mutex = NoOne, AllLocked PROVE file = counter
    BY DEF FileIsCurrent, AllLocked
  <2>1. \A c \in Requests : pc[c] \notin Writing
    BY ReadersWritersAssumption DEF MutexHeld, AllLocked, Writing
  <2> QED
    BY <2>1 DEF FileFollows
<1> QED
  BY <1>1, <1>2, <1>3, PTL DEF Spec

----------------------------------------------------------------------------
(* Whom the last active request wakes.                                     *)

\* While a request is about to signal the other kind, having found some of
\* it, nobody else enters or leaves.
SignalDue ==
    \A c \in Requests : pc[c] = "signal" =>
        /\ c \in Readers => current_writers > 0
        /\ c \in Writers => current_readers > 0

LEMMA SignalDueStep == ASSUME Types, SignalDue, [Next]_vars PROVE SignalDue'
<1> USE ReadersWritersAssumption
<1>1. ASSUME NEW d \in Requests, Arrive(d) PROVE SignalDue'
  BY <1>1 DEF SignalDue, Types, Arrive, EnterReader, EnterWriter, CounterMutexFree, Goto
<1>2. ASSUME NEW d \in Requests, Leave(d) PROVE SignalDue'
  <2>1. /\ pc[d] = "leave" /\ \A c \in Requests : pc[c] # "signal"
        /\ current_readers' = ReadersLeft(d) /\ current_writers' = WritersLeft(d)
        /\ Others(d) > 0 \/ pc'[d] # "signal"
    BY <1>2 DEF Leave, CounterMutexFree, RatioReached, LeaveAndSignal, Goto, Types
  <2>2. \A c \in Requests : pc'[c] = "signal" => c = d
    BY <1>2, <2>1, LeavingLabels DEF Types
  <2> QED
    BY <2>1, <2>2 DEF SignalDue, Others
<1>3. ASSUME NEW d \in Requests, SpuriousWakeup(d) \/ (Proceed(d) /\ ~Leave(d)) PROVE SignalDue'
  <2>1. UNCHANGED countVars
    BY <1>3 DEF SpuriousWakeup, Proceed, Wait, WakeUp, PassGate, Lock, RatioRead, RatioWrite, RatioReset,
                CounterRead, CounterWrite, Truncate, Format, Flush, SignalOther, Unlock, Reply
  <2>2. \A c \in Requests : pc'[c] = "signal" => pc[c] = "signal"
    <3>1. CASE SignalOther(d)
      BY <3>1, LeavingLabels DEF Types, SignalOther, LeaveAndSignal, Goto, Waiting
    <3>2. CASE ~SignalOther(d)
      BY <1>3, <3>2 DEF Types, SpuriousWakeup, Proceed, Wait, WakeUp, PassGate, Lock, RatioRead, RatioWrite,
                  RatioReset, AfterRatio, CounterRead, CounterWrite, Truncate, Format, Flush, Unlock,
                  Reply, Goto
    <3> QED
      BY <3>1, <3>2
  <2> QED
    BY <2>1, <2>2 DEF SignalDue, countVars
<1>4. CASE UNCHANGED vars
  BY <1>4 DEF vars, countVars, SignalDue
<1> QED
  BY <1>1, <1>2, <1>3, <1>4 DEF Next

\* The condition signalled is one that somebody waits at, when all that are
\* still counted wait.
LEMMA SomebodyIsWoken ==
    ASSUME Types, Exact, SignalDue, Next,
           NEW c \in Requests, pc[c] \in {"leave", "signal"}, pc'[c] = "unlock",
           \A d \in Requests \ {c} : pc[d] \in {"waiting", "unlock", "reply"} \cup Outside,
           \E d \in Requests : pc[d] = "waiting"
    PROVE  \E d \in Requests : pc[d] = "waiting" /\ pc'[d] = "woken"
<1> USE ReadersWritersAssumption
<1>1. PICK d \in Requests : Arrive(d) \/ SpuriousWakeup(d) \/ Proceed(d)
  BY DEF Next
<1>2. Leave(c) \/ SignalOther(c)
  <2>1. CASE Leave(d) \/ SignalOther(d)
    BY <2>1, LeavingLabels DEF Types
  <2>2. CASE ~(Leave(d) \/ SignalOther(d))
    BY <1>1, <2>2 DEF Types, Arrive, EnterReader, EnterWriter, SpuriousWakeup, Proceed, Wait, WakeUp,
                PassGate, Lock, RatioRead, RatioWrite, RatioReset, AfterRatio, CounterRead,
                CounterWrite, Truncate, Format, Flush, Unlock, Reply, Goto
  <2> QED
    BY <2>1, <2>2
<1>3. ASSUME NEW kind \in {"reader", "writer"}, Waiting(kind) # {}, LeaveAndSignal(c, kind)
      PROVE  \E e \in Requests : pc[e] = "waiting" /\ pc'[e] = "woken"
  BY <1>3 DEF LeaveAndSignal, Waiting, Types
<1>4. ReadersIn \in SUBSET Requests /\ WritersIn \in SUBSET Requests
  BY DEF ReadersIn, WritersIn
<1>5. /\ \A e \in ReadersIn \ {c} : e \in Waiting("reader")
      /\ \A e \in WritersIn \ {c} : e \in Waiting("writer")
  BY DEF ReadersIn, WritersIn, Counted, Waiting, Action
<1>6. CASE Leave(c)
  <2> DEFINE R == ReadersLeft(c)
             W == WritersLeft(c)
  <2>1. R = Cardinality(ReadersIn \ {c}) /\ W = Cardinality(WritersIn \ {c})
    <3>1. pc[c] = "leave" /\ Counted(c)
      BY <1>6 DEF Leave, Counted
    <3>2. c \in Readers => c \in ReadersIn /\ WritersIn \ {c} = WritersIn
      BY <3>1 DEF ReadersIn, WritersIn
    <3>3. c \in Writers => c \in WritersIn /\ ReadersIn \ {c} = ReadersIn
      BY <3>1 DEF ReadersIn, WritersIn
    <3>4. /\ c \in ReadersIn => Cardinality(ReadersIn \ {c}) = Cardinality(ReadersIn) - 1
          /\ c \in WritersIn => Cardinality(WritersIn \ {c}) = Cardinality(WritersIn) - 1
      BY <1>4, Sizes
    <3>5. Cardinality(ReadersIn) \in Nat /\ Cardinality(WritersIn) \in Nat
      BY <1>4, Sizes
    <3>6. CASE c \in Readers
      <4>1. c \notin Writers /\ R = current_readers - 1 /\ W = current_writers - 0
        BY <3>6 DEF ReadersLeft, WritersLeft
      <4> QED
        BY <3>2, <3>4, <3>5, <3>6, <4>1 DEF Exact
    <3>7. CASE c \in Writers
      <4>1. c \notin Readers /\ R = current_readers - 0 /\ W = current_writers - 1
        BY <3>7 DEF ReadersLeft, WritersLeft
      <4> QED
        BY <3>3, <3>4, <3>5, <3>7, <4>1 DEF Exact
    <3> QED
      BY <3>6, <3>7
  <2>2. /\ R \in Nat /\ W \in Nat
        /\ R > 0 <=> ReadersIn \ {c} # {}
        /\ W > 0 <=> WritersIn \ {c} # {}
    <3>1. /\ Cardinality(ReadersIn \ {c}) \in Nat /\ Cardinality(WritersIn \ {c}) \in Nat
          /\ Cardinality(ReadersIn \ {c}) = 0 <=> ReadersIn \ {c} = {}
          /\ Cardinality(WritersIn \ {c}) = 0 <=> WritersIn \ {c} = {}
      <4>1. IsFiniteSet(ReadersIn \ {c}) /\ IsFiniteSet(WritersIn \ {c})
        BY <1>4, FS_Subset
      <4> QED
        BY <4>1, FS_CardinalityType, FS_EmptySet
    <3> QED
      BY <2>1, <3>1
  <2>3. R > 0 \/ W > 0
    <3>1. PICK e \in Requests : pc[e] = "waiting"
      OBVIOUS
    <3>2. e \in ReadersIn \ {c} \/ e \in WritersIn \ {c}
      BY <3>1 DEF ReadersIn, WritersIn, Counted
    <3> QED
      BY <2>2, <3>2
  <2> DEFINE kind == NextKind(Action(c), R, W)
  <2>4. LeaveAndSignal(c, kind)
    BY <1>6 DEF Leave, Goto, Types
  <2> HIDE DEF R, W
  <2>5. kind \in {"reader", "writer"}
    BY DEF NextKind
  <2>6. kind = "reader" => R > 0
    BY <2>2, <2>3, ReadersWritersAssumption DEF NextKind, Types
  <2>7. kind = "writer" => W > 0
    BY <2>2, <2>3, ReadersWritersAssumption DEF NextKind, Types
  <2> HIDE DEF kind
  <2> QED
    BY <1>3, <1>5, <2>2, <2>4, <2>5, <2>6, <2>7
<1>7. CASE SignalOther(c)
  <2>1. pc[c] = "signal" /\ LeaveAndSignal(c, OtherKind(c)) /\ OtherKind(c) \in {"reader", "writer"}
    BY <1>7 DEF SignalOther, OtherKind
  <2>2. c \notin ReadersIn /\ c \notin WritersIn
    BY <2>1 DEF ReadersIn, WritersIn, Counted
  <2>3. /\ c \in Readers => WritersIn # {}
        /\ c \in Writers => ReadersIn # {}
    BY <2>1, FS_EmptySet DEF SignalDue, Exact
  <2>4. Waiting(OtherKind(c)) # {}
    BY <1>5, <2>2, <2>3 DEF OtherKind
  <2> QED
    BY <1>3, <2>1, <2>4
<1> QED
  BY <1>2, <1>6, <1>7

(***************************************************************************)
(* do_request never leaves everybody asleep by signalling the wrong        *)
(* condition: when all others inside wait, the one that leaves wakes one.  *)
(***************************************************************************)
THEOREM LastActiveWakes == Spec => LastActiveWakesOne
<1> DEFINE IInv == Types /\ Exact /\ SignalDue
           Wakes == \A c \in Requests :
              /\ pc[c] \in {"leave", "signal"} /\ pc'[c] = "unlock"
              /\ \A d \in Requests \ {c} : pc[d] \in {"waiting", "unlock", "reply"} \cup Outside
              /\ \E d \in Requests : pc[d] = "waiting"
              => \E d \in Requests : pc[d] = "waiting" /\ pc'[d] = "woken"
<1>1. Init => IInv
  <2> SUFFICES ASSUME Init PROVE IInv
    OBVIOUS
  <2>1. Types /\ SignalDue
    BY ReadersWritersAssumption DEF Init, Types, SignalDue
  <2>2. ReadersIn = {} /\ WritersIn = {}
    BY DEF Init, ReadersIn, WritersIn, Counted
  <2> QED
    BY <2>1, <2>2, FS_EmptySet DEF Init, Exact
<1>2. IInv /\ [Next]_vars => IInv'
  BY TypesStep, ExactStep, SignalDueStep
<1>3. IInv /\ [Next]_vars => [Wakes]_vars
  <2> SUFFICES ASSUME IInv, Next PROVE Wakes
    OBVIOUS
  <2> QED
    BY SomebodyIsWoken
<1> QED
  BY <1>1, <1>2, <1>3, PTL DEF Spec, LastActiveWakesOne
=============================================================================
