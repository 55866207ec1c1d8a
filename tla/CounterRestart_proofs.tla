----------------------- MODULE CounterRestart_proofs -----------------------
(***************************************************************************)
(* For any number of requests and of kills, at any moment: the counter     *)
(* survives, within the increments of writers that were killed.            *)
(***************************************************************************)
EXTENDS CounterRestart, ReadersWriters_proofs

KilledWriters == {c \in Writers : pc[c] = "killed"}

HistoryTypes ==
    /\ up \in BOOLEAN /\ intact \in BOOLEAN
    /\ starts \in Nat /\ base \in Int
    /\ priority \in Priorities /\ ratio \in Ratios
    /\ starts = 0 => ~up /\ file \in Starts \cup {Absent} /\ \A c \in Requests : pc[c] = "idle"
    /\ starts > 0 => file \in Int \cup {Empty}

\* Nothing but the file outlives the process.
Down ==
    /\ pc \in [Requests -> {"idle", "done", "killed"}]
    /\ current_readers = 0 /\ current_writers = 0
    /\ readers_mutex = NoOne /\ writers_mutex = NoOne
    /\ ratio_mutex = NoOne /\ mutex = NoOne
    /\ ratio_counter = 0
    /\ locked = [c \in Requests |-> FALSE]
    /\ val = [c \in Requests |-> 0]
    /\ counter = 0

\* The server counts on from something between what was answered for and
\* what may have been stored before.
CountsOn == \E n \in Int : base <= n /\ n <= base + Cardinality(KilledWriters) /\ Start(n)

\* What the next start will find, unless a kill now leaves the file empty.
FileBetween ==
    file # Empty => /\ base + Cardinality(Answered) <= file
                    /\ file <= base + Cardinality(MayHaveStored)

Inv ==
    /\ HistoryTypes
    /\ up => Types /\ MutexHeld /\ RegisterCurrent
    /\ ~up => Down
    /\ intact /\ starts > 0 => base \in Nat /\ FileBetween
    /\ intact /\ up => RegionLocked /\ FileFollows(TRUE) /\ CountsOn

USE DEF Requests, Labels, Outside, AtGate, InRegion

----------------------------------------------------------------------------
(* Sizes.                                                                  *)

\* Cardinalities of the sets of writers.
Sized ==
    /\ IsFiniteSet(Answered) /\ IsFiniteSet(MayHaveStored)
    /\ IsFiniteSet(Written) /\ IsFiniteSet(KilledWriters)
    /\ Cardinality(Answered) \in Nat /\ Cardinality(MayHaveStored) \in Nat
    /\ Cardinality(Written) \in Nat /\ Cardinality(KilledWriters) \in Nat
    /\ Cardinality(Answered) <= Cardinality(Written)
    /\ Cardinality(MayHaveStored) = Cardinality(Written) + Cardinality(KilledWriters)

LEMMA SetSizes == Sized
<1>1. /\ Answered \in SUBSET Requests /\ MayHaveStored \in SUBSET Requests
      /\ Written \in SUBSET Requests /\ KilledWriters \in SUBSET Requests
      /\ Answered \in SUBSET Written
      /\ MayHaveStored = Written \cup KilledWriters /\ Written \cap KilledWriters = {}
  BY DEF Answered, MayHaveStored, Written, KilledWriters
<1>2. /\ IsFiniteSet(Answered) /\ IsFiniteSet(MayHaveStored)
      /\ IsFiniteSet(Written) /\ IsFiniteSet(KilledWriters)
  BY <1>1, ReadersWritersAssumption, FS_Subset
<1>3. /\ Cardinality(Answered) \in Nat /\ Cardinality(MayHaveStored) \in Nat
      /\ Cardinality(Written) \in Nat /\ Cardinality(KilledWriters) \in Nat
  BY <1>2, FS_CardinalityType
<1>4. Cardinality(Answered) <= Cardinality(Written)
  BY <1>1, <1>2, FS_Subset
<1>5. Cardinality(MayHaveStored) = Cardinality(Written) + Cardinality(KilledWriters)
  <2>1. Cardinality(Written \cap KilledWriters) = 0
    BY <1>1, FS_EmptySet
  <2>2. Cardinality(Written \cup KilledWriters)
          = Cardinality(Written) + Cardinality(KilledWriters) - Cardinality(Written \cap KilledWriters)
    BY <1>2, FS_Union
  <2> QED
    BY <1>1, <1>3, <2>1, <2>2
<1> QED
  BY <1>2, <1>3, <1>4, <1>5 DEF Sized

LEMMA SetSizesAfter == Sized'
BY SetSizes, PTL

----------------------------------------------------------------------------
(* Steps of requests.                                                      *)

\* Every request goes into the region at ratio_read.
LEMMA RegionStep ==
    ASSUME Types, RegionLocked, NEW c \in Requests,
           Arrive(c) \/ SpuriousWakeup(c) \/ Proceed(c),
           pc'[c] = "ratio_read" => locked'[c]
    PROVE  RegionLocked'
<1>1. CASE Leave(c) \/ SignalOther(c)
  <2>1. UNCHANGED locked /\ pc[c] \in {"leave", "signal"}
    BY <1>1 DEF Leave, SignalOther
  <2> QED
    BY <1>1, <2>1, LeavingLabels DEF Types, RegionLocked
<1>2. CASE ~(Leave(c) \/ SignalOther(c))
  <2>1. \A d \in Requests : d # c => pc'[d] = pc[d] /\ locked'[d] = locked[d]
    BY <1>2 DEF Types, Arrive, EnterReader, EnterWriter, SpuriousWakeup, Proceed, Wait, WakeUp,
                PassGate, Lock, RatioRead, RatioWrite, RatioReset, CounterRead,
                CounterWrite, Truncate, Format, Flush, Unlock, Reply, Goto
  <2>2. pc'[c] \in InRegion => pc'[c] = "ratio_read" \/ (pc[c] \in InRegion /\ locked'[c] = locked[c])
    BY <1>2 DEF Types, Arrive, EnterReader, EnterWriter, SpuriousWakeup, Proceed, Wait, WakeUp,
                PassGate, Lock, RatioRead, RatioWrite, RatioReset, AfterRatio, CounterRead,
                CounterWrite, Truncate, Format, Flush, Unlock, Reply, Goto
  <2> QED
    BY <2>1, <2>2 DEF RegionLocked
<1> QED
  BY <1>1, <1>2

\* What a step does to the file and to those that count for it.
LEMMA FileStored ==
    ASSUME Types, NEW c \in Requests, Arrive(c) \/ SpuriousWakeup(c) \/ Proceed(c)
    PROVE  /\ KilledWriters' = KilledWriters
           /\ Written \subseteq Written'
           /\ Flush(c) \/ (Answered' = Answered /\ file' \in {file, Empty})
<1> USE ReadersWritersAssumption
<1>1. CASE Leave(c) \/ SignalOther(c)
  <2>1. UNCHANGED file /\ pc[c] \in {"leave", "signal"}
    BY <1>1 DEF Leave, SignalOther, dataVars
  <2> QED
    BY <1>1, <2>1, LeavingLabels DEF Types, KilledWriters, Written, Answered
<1>2. CASE ~(Leave(c) \/ SignalOther(c))
  <2>1. \A d \in Requests : d # c => pc'[d] = pc[d]
    BY <1>2 DEF Types, Arrive, EnterReader, EnterWriter, SpuriousWakeup, Proceed, Wait, WakeUp,
                PassGate, Lock, RatioRead, RatioWrite, RatioReset, CounterRead,
                CounterWrite, Truncate, Format, Flush, Unlock, Reply, Goto
  <2>2. /\ pc[c] # "killed" /\ pc'[c] # "killed"
        /\ c \in Written => c \in Written'
        /\ Flush(c) \/ (/\ c \in Answered' <=> c \in Answered
                        /\ file' \in {file, Empty})
    BY <1>2 DEF Types, Arrive, EnterReader, EnterWriter, SpuriousWakeup, Proceed, Wait, WakeUp,
                PassGate, Lock, RatioRead, RatioWrite, RatioReset, AfterRatio, CounterRead,
                CounterWrite, Truncate, Format, Flush, Unlock, Reply, Goto, Written, Answered, dataVars
  <2> QED
    BY <2>1, <2>2 DEF KilledWriters, Written, Answered
<1> QED
  BY <1>1, <1>2

LEMMA RequestSteps == ASSUME Inv, RequestStep PROVE Inv'
<1> USE ReadersWritersAssumption
<1>1. PICK c \in Requests : /\ Arrive(c) \/ SpuriousWakeup(c) \/ Proceed(c)
                            /\ intact' = (intact /\ (pc'[c] = "ratio_read" => locked'[c]))
  BY DEF RequestStep
<1>2. up /\ up' /\ UNCHANGED <<starts, base>>
  BY DEF RequestStep, Inv, HistoryTypes
<1>3. Types /\ MutexHeld /\ RegisterCurrent /\ Next /\ starts > 0
  BY <1>1, <1>2 DEF Inv, HistoryTypes, Next
<1>4. Types' /\ MutexHeld' /\ RegisterCurrent'
  BY <1>3, TypesStep, MutexHeldStep, RegisterStep
<1>5. HistoryTypes'
  <2>1. intact' \in BOOLEAN
    BY <1>1 DEF Inv, HistoryTypes
  <2>2. /\ up' \in BOOLEAN /\ starts' \in Nat /\ base' \in Int /\ starts' # 0
    BY <1>2, <1>3 DEF Inv, HistoryTypes
  <2>3. priority' \in Priorities /\ ratio' \in Ratios /\ file' \in Int \cup {Empty}
    BY <1>4 DEF Types
  <2> QED
    BY <2>1, <2>2, <2>3 DEF HistoryTypes
<1>6. ASSUME intact'
      PROVE  /\ base' \in Nat /\ FileBetween'
             /\ RegionLocked' /\ FileFollows(TRUE)' /\ CountsOn'
  <2>1. intact /\ (pc'[c] = "ratio_read" => locked'[c])
    BY <1>1, <1>6
  <2>2. base \in Nat /\ FileBetween /\ RegionLocked /\ FileFollows(TRUE) /\ CountsOn
    BY <1>2, <1>3, <2>1 DEF Inv
  <2>3. RegionLocked' /\ FileFollows(TRUE)'
    BY <1>1, <1>3, <2>1, <2>2, RegionStep, FileStep
  <2>4. PICK n \in Int : base <= n /\ n <= base + Cardinality(KilledWriters) /\ Start(n)
    BY <2>2 DEF CountsOn
  <2>5. Start(n)'
    BY <1>3, <2>4, IncrementStep
  <2>6. /\ KilledWriters' = KilledWriters /\ Written \subseteq Written'
        /\ Flush(c) \/ (Answered' = Answered /\ file' \in {file, Empty})
    BY <1>1, <1>3, FileStored
  <2>7. CountsOn'
    BY <1>2, <2>4, <2>5, <2>6 DEF CountsOn
  <2>8. FileBetween'
    <3> DEFINE a == Cardinality(Answered)'
               w == Cardinality(Written)
               x == Cardinality(Written)'
               k == Cardinality(KilledWriters)
               m == Cardinality(MayHaveStored)'
    <3>1. /\ a \in Nat /\ w \in Nat /\ x \in Nat /\ k \in Nat /\ a <= x /\ w <= x
          /\ m = x + k /\ Cardinality(MayHaveStored) = w + k
      <4>1. /\ a \in Nat /\ x \in Nat /\ IsFiniteSet(Written)' /\ a <= x
            /\ m = x + Cardinality(KilledWriters)'
        BY SetSizesAfter DEF Sized
      <4>2. w <= x
        BY <2>6, <4>1, FS_Subset
      <4> QED
        BY <2>6, <4>1, <4>2, SetSizes DEF Sized
    <3>2. CASE Flush(c)
      <4>1. file' = counter /\ counter' = counter
        <5>1. pc[c] = "fclose" /\ file' = Overwrite(val[c], file) /\ counter' = counter
          BY <3>2 DEF Flush
        <5> QED
          BY <2>2, <5>1 DEF FileFollows, Overwrite
      <4>2. counter' = n + x
        BY <2>5 DEF Start
      <4> HIDE DEF a, w, x, k, m
      <4>3. base + a <= file' /\ file' <= base + m
        BY <2>2, <2>4, <3>1, <4>1, <4>2 DEF k
      <4> QED
        BY <1>2, <4>3 DEF FileBetween, a, m
    <3>3. CASE Answered' = Answered /\ file' \in {file, Empty}
      <4>1. ASSUME file' # Empty PROVE base + a <= file /\ file <= base + w + k
        BY <2>2, <3>1, <3>3, <4>1 DEF FileBetween
      <4>2. file \in Int \cup {Empty}
        BY <1>3 DEF Types
      <4> HIDE DEF a, w, x, k, m
      <4>3. ASSUME file' # Empty PROVE base + a <= file' /\ file' <= base + m
        BY <2>2, <3>1, <3>3, <4>1, <4>2, <4>3
      <4> QED
        BY <1>2, <4>3 DEF FileBetween, a, m
    <3> QED
      BY <2>6, <3>2, <3>3
  <2> QED
    BY <1>2, <2>2, <2>3, <2>7, <2>8
<1> QED
  BY <1>2, <1>4, <1>5, <1>6 DEF Inv

\* The file is all the next start has to count on.
LEMMA KillStep == ASSUME Inv, KillServer PROVE Inv'
<1> USE ReadersWritersAssumption
<1>1. up /\ up' = FALSE /\ UNCHANGED <<file, starts, base, intact, priority, ratio>>
  BY DEF KillServer, Inv, HistoryTypes, args
<1>2. /\ Types /\ starts > 0 /\ starts \in Nat
      /\ pc' = [c \in Requests |-> IF pc[c] \in Outside THEN pc[c] ELSE "killed"]
  BY <1>1 DEF KillServer, Inv, HistoryTypes
<1>3. Down'
  BY <1>2 DEF KillServer, Down, Types
<1>4. HistoryTypes'
  <2>1. /\ starts' \in Nat /\ starts' # 0 /\ base' \in Int
        /\ priority' \in Priorities /\ ratio' \in Ratios /\ file' \in Int \cup {Empty}
    BY <1>1, <1>2 DEF Inv, HistoryTypes
  <2>2. up' \in BOOLEAN /\ intact' \in BOOLEAN
    BY <1>1 DEF Inv, HistoryTypes
  <2> QED
    BY <2>1, <2>2 DEF HistoryTypes
<1>5. ASSUME intact PROVE FileBetween'
  <2>1. base \in Nat /\ FileBetween
    BY <1>2, <1>5 DEF Inv
  <2>2. Answered' \subseteq Answered /\ MayHaveStored \subseteq MayHaveStored'
    BY <1>2 DEF Answered, MayHaveStored, Written
  <2>3. IsFiniteSet(MayHaveStored)'
    BY SetSizesAfter DEF Sized
  <2>4. Cardinality(Answered') <= Cardinality(Answered) /\ Cardinality(Answered') \in Nat
    BY <2>2, SetSizes, FS_Subset, FS_CardinalityType DEF Sized
  <2>5. Cardinality(MayHaveStored) <= Cardinality(MayHaveStored') /\ Cardinality(MayHaveStored') \in Nat
    BY <2>2, <2>3, FS_Subset, FS_CardinalityType
  <2>6. file \in Int \cup {Empty}
    BY <1>2 DEF Types
  <2> QED
    BY <1>1, <2>1, <2>4, <2>5, <2>6, SetSizes DEF FileBetween, Sized
<1> QED
  BY <1>1, <1>2, <1>3, <1>4, <1>5 DEF Inv

\* What read_output finds: a number that an earlier life left, or that was
\* there before the first, or nothing.
LEMMA StartStep == ASSUME Inv, StartServer PROVE Inv'
<1> USE ReadersWritersAssumption, RestartAssumption
<1>1. /\ ~up /\ up' = TRUE /\ starts' = starts + 1 /\ starts \in Nat
      /\ counter' \in read_output(file)
      /\ file' = IF file = Absent THEN Empty ELSE file
      /\ base' = IF starts = 0 THEN counter' ELSE base
      /\ intact' = (intact /\ file # Empty)
      /\ UNCHANGED <<priority, ratio, pc, locked, val, current_readers, current_writers,
                     readers_mutex, writers_mutex, ratio_mutex, mutex, ratio_counter>>
  BY DEF StartServer, Inv, HistoryTypes, args, countVars, lockVars
<1>2. Down
  BY <1>1 DEF Inv
<1>3. counter' \in Int /\ file' \in Int \cup {Empty}
  BY <1>1 DEF read_output, Inv, HistoryTypes
<1>4. Types' /\ MutexHeld' /\ RegisterCurrent' /\ RegionLocked'
  <2>1. Types'
    BY <1>1, <1>2, <1>3 DEF Types, Down, Inv, HistoryTypes
  <2>2. MutexHeld' /\ RegisterCurrent' /\ RegionLocked'
    BY <1>1, <1>2 DEF Down, MutexHeld, RegisterCurrent, RegionLocked
  <2> QED
    BY <2>1, <2>2
<1>5. HistoryTypes'
  <2>1. /\ starts' \in Nat /\ starts' # 0 /\ base' \in Int
        /\ priority' \in Priorities /\ ratio' \in Ratios
    BY <1>1, <1>3 DEF Inv, HistoryTypes
  <2>2. up' \in BOOLEAN /\ intact' \in BOOLEAN
    BY <1>1 DEF Inv, HistoryTypes
  <2> QED
    BY <1>3, <2>1, <2>2 DEF HistoryTypes
<1>6. /\ Written' = Written /\ Answered' = Answered /\ Written = Answered
      /\ KilledWriters' = KilledWriters /\ MayHaveStored' = MayHaveStored
  BY <1>1, <1>2 DEF Down, Written, Answered, KilledWriters, MayHaveStored
<1> DEFINE w == Cardinality(Written)
           k == Cardinality(KilledWriters)
<1>7. /\ w \in Nat /\ k \in Nat
      /\ Cardinality(Answered) = w /\ Cardinality(MayHaveStored) = w + k
  BY <1>6, SetSizes DEF Sized
<1>8. ASSUME intact'
      PROVE  /\ base' \in Nat
             /\ base' + w <= counter' /\ counter' <= base' + w + k
             /\ counter' = file' \/ (file' = Empty /\ starts = 0)
  <2>1. intact /\ file # Empty
    BY <1>1, <1>8
  <2>2. CASE starts = 0
    <3>1. Written = {} /\ KilledWriters = {}
      BY <2>2 DEF Inv, HistoryTypes, Written, KilledWriters
    <3>2. w = 0 /\ k = 0
      BY <3>1, FS_EmptySet
    <3>3. counter' \in Nat /\ base' = counter' /\ (counter' = file' \/ file' = Empty)
      BY <1>1, <2>1, <2>2 DEF read_output, Inv, HistoryTypes
    <3>4. counter' = file' \/ (file' = Empty /\ starts = 0)
      BY <2>2, <3>3
    <3>5. base' \in Nat /\ base' + w <= counter' /\ counter' <= base' + w + k
      <4>1. PICK m \in Nat : m = counter' /\ base' = m
        BY <3>3
      <4>2. m + w <= m /\ m <= m + w + k
        BY <3>2
      <4> QED
        BY <4>1, <4>2
    <3> QED
      BY <3>4, <3>5
  <2>3. CASE starts # 0
    <3>1. starts > 0
      BY <1>1, <2>3
    <3>2. base \in Nat /\ base + w <= file /\ file <= base + w + k /\ file \in Int
      BY <1>7, <2>1, <3>1 DEF Inv, HistoryTypes, FileBetween
    <3> HIDE DEF w, k
    <3>3. file \in Nat
      BY <1>7, <3>2
    <3>4. counter' = file /\ file' = file /\ base' = base
      BY <1>1, <2>1, <2>3, <3>3 DEF read_output
    <3> QED
      BY <3>2, <3>4
  <2> QED
    BY <2>2, <2>3
<1>9. ASSUME intact' PROVE FileBetween' /\ FileFollows(TRUE)' /\ CountsOn'
  <2>1. FileBetween'
    <3>1. file' # Empty => base' + w <= file' /\ file' <= base' + (w + k)
      BY <1>3, <1>7, <1>8, <1>9
    <3> QED
      BY <1>6, <1>7, <3>1 DEF FileBetween
  <2>2. FileFollows(TRUE)'
    BY <1>1, <1>2, <1>8, <1>9 DEF FileFollows, NotYetWritten, Writing, Down, Inv, HistoryTypes
  <2>3. CountsOn'
    <3>1. PICK n \in Int : n = counter' - w
      BY <1>3, <1>7
    <3>3. base' <= n /\ n <= base' + k /\ counter' = n + w
      BY <1>3, <1>7, <1>8, <1>9, <3>1
    <3>2. Start(n)'
      BY <1>6, <3>3 DEF Start
    <3> QED
      BY <1>6, <3>2, <3>3 DEF CountsOn
  <2> QED
    BY <2>1, <2>2, <2>3
<1> QED
  BY <1>1, <1>4, <1>5, <1>8, <1>9 DEF Inv

LEMMA InvAtStart == RestartInit => Inv
<1> SUFFICES ASSUME RestartInit PROVE Inv
  OBVIOUS
<1>1. up = FALSE /\ ~(starts > 0) /\ Down
  BY DEF RestartInit, Down
<1>2. HistoryTypes
  <2>1. up \in BOOLEAN /\ intact \in BOOLEAN /\ ~up
    BY DEF RestartInit
  <2>2. /\ starts \in Nat /\ base \in Int /\ priority \in Priorities /\ ratio \in Ratios
        /\ ~(starts > 0) /\ file \in Starts \cup {Absent} /\ \A c \in Requests : pc[c] = "idle"
    BY DEF RestartInit
  <2> QED
    BY <2>1, <2>2 DEF HistoryTypes
<1>3. ~up
  BY <1>1
<1> QED
  BY <1>1, <1>2, <1>3 DEF Inv

LEMMA Invariance == RestartSpec => []Inv
<1>1. Inv /\ [RestartNext]_<<vars, restartVars>> => Inv'
  <2> SUFFICES ASSUME Inv, [RestartNext]_<<vars, restartVars>> PROVE Inv'
    OBVIOUS
  <2>1. CASE UNCHANGED <<vars, restartVars>>
    BY <2>1 DEF vars, restartVars, args, countVars, lockVars, dataVars, Inv, HistoryTypes, Types,
                MutexHeld, RegisterCurrent, Down, FileBetween, Answered, MayHaveStored, Written,
                RegionLocked, FileFollows, NotYetWritten, CountsOn, KilledWriters, Start
  <2> QED
    BY <2>1, StartStep, KillStep, RequestSteps DEF RestartNext
<1> QED
  BY InvAtStart, <1>1, PTL DEF RestartSpec

----------------------------------------------------------------------------
(* The results.                                                            *)

(***************************************************************************)
(* read_output and write_output carry the counter over a kill at any step: *)
(* no increment a writer was answered for is lost, and none is counted     *)
(* that no writer may have stored, until a start finds the file empty or a *)
(* reader goes in without mutex.                                           *)
(***************************************************************************)
THEOREM CounterIsCarriedOver == RestartSpec => []CounterSurvives
<1> SUFFICES ASSUME Inv PROVE CounterSurvives
  BY Invariance, PTL
<1> SUFFICES ASSUME up, intact
             PROVE  /\ base + Cardinality(Answered) <= counter
                    /\ counter <= base + Cardinality(MayHaveStored)
  BY DEF CounterSurvives
<1>1. PICK n \in Int : base <= n /\ n <= base + Cardinality(KilledWriters) /\ Start(n)
  BY DEF Inv, CountsOn
<1>2. base \in Int
  BY DEF Inv, HistoryTypes
<1> QED
  BY <1>1, <1>2, SetSizes DEF Start, Sized

(***************************************************************************)
(* With no request under way, and one answered, the file of an undisturbed *)
(* server is what it counts on from after a kill: read_output gives back   *)
(* the counter itself.                                                     *)
(***************************************************************************)
THEOREM KillAtRestCostsNothing == RestartSpec => []KillCostsNothingAtRest
<1> USE ReadersWritersAssumption, RestartAssumption
<1> SUFFICES ASSUME Inv PROVE KillCostsNothingAtRest
  BY Invariance, PTL
<1> SUFFICES ASSUME up, intact, \A c \in Requests : pc[c] \in Outside \cup {"killed"},
                    \E c \in Requests : pc[c] = "done"
             PROVE  read_output(file) = {counter}
  BY DEF KillCostsNothingAtRest
<1>1. starts > 0
  BY DEF Inv, HistoryTypes
<1>4. base \in Nat /\ FileFollows(TRUE) /\ CountsOn
  BY <1>1 DEF Inv
<1>2. file = counter
  BY <1>4 DEF FileFollows, NotYetWritten, Writing
<1>3. counter \in Nat
  BY <1>4, SetSizes DEF CountsOn, Start, Sized
<1> QED
  BY <1>2, <1>3 DEF read_output
=============================================================================
