--------------------------- MODULE ReadersWriters ---------------------------
(***************************************************************************)
(* do_request of practica3/proxy.c: every connection's thread performs one *)
(* request, a reader's or a writer's, on one counter.  Requests wait at    *)
(* two condition variables when a ratio is set, whoever leaves signals one *)
(* of them, and mutex guards what the code calls the critical region; a    *)
(* reader that sees no writer enters it without mutex.                     *)
(*                                                                         *)
(* A section under counter_mutex is one step, or two when it also waits    *)
(* for ratio_mutex.  What is read or written without it (current_writers   *)
(* at the gate, ratio_counter, counter, the output file) is a step of its  *)
(* own.                                                                    *)
(***************************************************************************)
EXTENDS Integers, FiniteSets

CONSTANTS
    Readers, Writers,   \* requests, one thread each
    Priorities,         \* what --priority may be: "reader", "writer"
    Ratios,             \* what --ratio may be
    Starts,             \* what the output file may hold when the server starts
    Empty,              \* content of a truncated file
    NoOne               \* owner of a free mutex

Requests == Readers \cup Writers

ASSUME ReadersWritersAssumption ==
    /\ Readers \cap Writers = {}
    /\ IsFiniteSet(Requests)
    /\ Priorities \subseteq {"reader", "writer"}
    /\ Ratios \subseteq Nat
    /\ Starts \subseteq Nat
    /\ Empty \notin Nat
    /\ NoOne \notin Requests

VARIABLES
    priority, ratio,    \* arguments of the server
    pc,                 \* where in do_request each thread is
    locked,             \* local of do_request
    val,                \* register of a thread between a read and a write
    current_readers, current_writers,
    readers_mutex, writers_mutex, ratio_mutex, mutex,
    ratio_counter, counter,
    file                \* content of server_output.txt, as a number

args == <<priority, ratio>>
countVars == <<current_readers, current_writers>>
lockVars == <<readers_mutex, writers_mutex, ratio_mutex, mutex>>
dataVars == <<ratio_counter, counter, file>>
vars == <<args, pc, locked, val, countVars, lockVars, dataVars>>

Action(c) == IF c \in Readers THEN "reader" ELSE "writer"
Goto(c, label) == pc' = [pc EXCEPT ![c] = label]

Outside == {"idle", "done"}
AtGate == {"to_wait", "waiting", "woken", "gate", "lock"}
InRegion == {"ratio_read", "ratio_write", "count_read", "count_write",
             "fopen", "fprintf", "fclose", "leave", "signal", "unlock"}
Labels == Outside \cup AtGate \cup InRegion \cup {"reply"}

Init ==
    /\ priority \in Priorities
    /\ ratio \in Ratios
    /\ pc = [c \in Requests |-> "idle"]
    /\ locked = [c \in Requests |-> FALSE]
    /\ val = [c \in Requests |-> 0]
    /\ current_readers = 0
    /\ current_writers = 0
    /\ readers_mutex = NoOne
    /\ writers_mutex = NoOne
    /\ ratio_mutex = NoOne
    /\ mutex = NoOne
    /\ ratio_counter = 0
    /\ counter \in Starts
    /\ file = counter

----------------------------------------------------------------------------
\* counter_mutex, which only a thread that also wants ratio_mutex keeps.
CounterMutexFree == \A d \in Requests : pc[d] # "signal"

\* The section of counter_mutex on entry: the request is counted, and with a
\* ratio it will wait unless it is alone.
EnterReader(c) ==
    /\ c \in Readers /\ pc[c] = "idle" /\ CounterMutexFree
    /\ current_readers' = current_readers + 1
    /\ IF (current_writers > 1 \/ current_readers' > 1) /\ ratio # 0
       THEN readers_mutex = NoOne /\ readers_mutex' = c /\ Goto(c, "to_wait")
       ELSE UNCHANGED readers_mutex /\ Goto(c, "gate")
    /\ UNCHANGED <<args, locked, val, current_writers, writers_mutex, ratio_mutex, mutex, dataVars>>

EnterWriter(c) ==
    /\ c \in Writers /\ pc[c] = "idle" /\ CounterMutexFree
    /\ current_writers' = current_writers + 1
    /\ IF (current_writers' > 1 \/ current_readers > 1) /\ ratio # 0
       THEN writers_mutex = NoOne /\ writers_mutex' = c /\ Goto(c, "to_wait")
       ELSE UNCHANGED writers_mutex /\ Goto(c, "gate")
    /\ UNCHANGED <<args, locked, val, current_readers, readers_mutex, ratio_mutex, mutex, dataVars>>

\* pthread_cond_wait: only from here on can a signal reach the thread.
Wait(c) ==
    /\ pc[c] = "to_wait"
    /\ IF c \in Readers THEN readers_mutex' = NoOne /\ UNCHANGED writers_mutex
       ELSE writers_mutex' = NoOne /\ UNCHANGED readers_mutex
    /\ Goto(c, "waiting")
    /\ UNCHANGED <<args, locked, val, countVars, ratio_mutex, mutex, dataVars>>

\* POSIX lets pthread_cond_wait return without a signal.
SpuriousWakeup(c) ==
    /\ pc[c] = "waiting"
    /\ Goto(c, "woken")
    /\ UNCHANGED <<args, locked, val, countVars, lockVars, dataVars>>

\* pthread_cond_wait returns with the mutex, which is unlocked at once.  The
\* code tests no condition again.
WakeUp(c) ==
    /\ pc[c] = "woken"
    /\ IF c \in Readers THEN readers_mutex = NoOne ELSE writers_mutex = NoOne
    /\ Goto(c, "gate")
    /\ UNCHANGED <<args, locked, val, countVars, lockVars, dataVars>>

\* Mutants: a writer does not lock; nobody locks who sees no other writer.
OnlyReadersLock(c) == c \in Readers /\ current_writers > 0
LockIfContended(c) == current_writers > 1

NeedsMutex(c) == current_writers > 0 \/ c \in Writers

\* The test for mutex reads current_writers without counter_mutex.
PassGate(c) ==
    /\ pc[c] = "gate"
    /\ Goto(c, IF NeedsMutex(c) THEN "lock" ELSE "ratio_read")
    /\ UNCHANGED <<args, locked, val, countVars, lockVars, dataVars>>

Lock(c) ==
    /\ pc[c] = "lock" /\ mutex = NoOne
    /\ mutex' = c
    /\ locked' = [locked EXCEPT ![c] = TRUE]
    /\ Goto(c, "ratio_read")
    /\ UNCHANGED <<args, val, countVars, readers_mutex, writers_mutex, ratio_mutex, dataVars>>

----------------------------------------------------------------------------
AfterRatio(c) == IF c \in Writers THEN "count_read" ELSE "fopen"

\* ratio_counter++ under ratio_mutex, which the writes of 0 do not take.
RatioRead(c) ==
    /\ pc[c] = "ratio_read" /\ Action(c) = priority /\ ratio_mutex = NoOne
    /\ ratio_mutex' = c
    /\ val' = [val EXCEPT ![c] = ratio_counter]
    /\ Goto(c, "ratio_write")
    /\ UNCHANGED <<args, locked, countVars, readers_mutex, writers_mutex, mutex, dataVars>>

RatioWrite(c) ==
    /\ pc[c] = "ratio_write"
    /\ ratio_counter' = val[c] + 1
    /\ ratio_mutex' = NoOne
    /\ val' = [val EXCEPT ![c] = 0]
    /\ Goto(c, AfterRatio(c))
    /\ UNCHANGED <<args, locked, countVars, readers_mutex, writers_mutex, mutex, counter, file>>

RatioReset(c) ==
    /\ pc[c] = "ratio_read" /\ Action(c) # priority
    /\ ratio_counter' = 0
    /\ Goto(c, AfterRatio(c))
    /\ UNCHANGED <<args, locked, val, countVars, lockVars, counter, file>>

\* counter++
CounterRead(c) ==
    /\ pc[c] = "count_read"
    /\ val' = [val EXCEPT ![c] = counter]
    /\ Goto(c, "count_write")
    /\ UNCHANGED <<args, locked, countVars, lockVars, dataVars>>

CounterWrite(c) ==
    /\ pc[c] = "count_write"
    /\ counter' = val[c] + 1
    /\ val' = [val EXCEPT ![c] = 0]
    /\ Goto(c, "fopen")
    /\ UNCHANGED <<args, locked, countVars, lockVars, ratio_counter, file>>

\* write_output: fopen truncates the file, fprintf takes the counter into the
\* stream's buffer, fclose writes the digits over the start of the file.
Truncate(c) ==
    /\ pc[c] = "fopen"
    /\ file' = Empty
    /\ Goto(c, "fprintf")
    /\ UNCHANGED <<args, locked, val, countVars, lockVars, ratio_counter, counter>>

Format(c) ==
    /\ pc[c] = "fprintf"
    /\ val' = [val EXCEPT ![c] = counter]
    /\ Goto(c, "fclose")
    /\ UNCHANGED <<args, locked, countVars, lockVars, dataVars>>

\* Mutant: the stream is not closed, and its buffer not written.
NotFlushed(n, old) == old

\* Digits of n written over those of old, for numbers of at most two digits.
Overwrite(n, old) ==
    IF old # Empty /\ n < 10 /\ old >= 10 THEN (10 * n) + (old % 10) ELSE n

Flush(c) ==
    /\ pc[c] = "fclose"
    /\ file' = Overwrite(val[c], file)
    /\ val' = [val EXCEPT ![c] = 0]
    /\ Goto(c, "leave")
    /\ UNCHANGED <<args, locked, countVars, lockVars, ratio_counter, counter>>

----------------------------------------------------------------------------
Waiting(kind) == {d \in Requests : pc[d] = "waiting" /\ Action(d) = kind}

\* pthread_cond_signal: one thread that waits, if there is one.
LeaveAndSignal(c, kind) ==
    IF Waiting(kind) = {} THEN Goto(c, "unlock")
    ELSE \E d \in Waiting(kind) : pc' = [pc EXCEPT ![c] = "unlock", ![d] = "woken"]

\* The ratio is used up, and there are requests of the other kind.
RatioReached(others) == ratio_counter >= ratio /\ ratio # 0 /\ others > 0

\* Mutant: always the kind with priority.
PriorityKind(action, readers, writers) == priority

\* Which condition the code signals otherwise, first match.
NextKind(action, readers, writers) ==
    IF priority = "reader" /\ readers > 0 THEN "reader"
    ELSE IF priority = "writer" /\ writers > 0 THEN "writer"
    ELSE IF action = "reader" THEN IF readers > 0 THEN "reader" ELSE "writer"
    ELSE IF writers > 0 THEN "writer" ELSE "reader"

ReadersLeft(c) == current_readers - IF c \in Readers THEN 1 ELSE 0

\* Mutant: both counts go down.
OneWriterLess(c) == current_writers - 1
WritersLeft(c) == current_writers - IF c \in Writers THEN 1 ELSE 0

Others(c) == IF c \in Readers THEN WritersLeft(c) ELSE ReadersLeft(c)
OtherKind(c) == IF c \in Readers THEN "writer" ELSE "reader"

\* The section of counter_mutex on leaving: the request is no longer counted,
\* and one condition is signalled; when the ratio has been reached, after
\* ratio_counter is reset and ratio_mutex taken.
Leave(c) ==
    /\ pc[c] = "leave" /\ CounterMutexFree
    /\ current_readers' = ReadersLeft(c)
    /\ current_writers' = WritersLeft(c)
    /\ IF RatioReached(Others(c))
       THEN ratio_counter' = 0 /\ Goto(c, "signal")
       ELSE /\ UNCHANGED ratio_counter
            /\ LeaveAndSignal(c, NextKind(Action(c), ReadersLeft(c), WritersLeft(c)))
    /\ UNCHANGED <<args, locked, val, lockVars, counter, file>>

SignalOther(c) ==
    /\ pc[c] = "signal" /\ ratio_mutex = NoOne
    /\ LeaveAndSignal(c, OtherKind(c))
    /\ UNCHANGED <<args, locked, val, countVars, lockVars, dataVars>>

\* Mutant: only writers unlock.
UnlockedByWriters(c) == IF c \in Writers THEN NoOne ELSE mutex
Unlocked(c) == IF locked[c] THEN NoOne ELSE mutex

Unlock(c) ==
    /\ pc[c] = "unlock"
    /\ mutex' = Unlocked(c)
    /\ Goto(c, "reply")
    /\ UNCHANGED <<args, locked, val, countVars, readers_mutex, writers_mutex, ratio_mutex, dataVars>>

\* The response is sent.  The counter in it is read here, after everything is
\* unlocked, and nothing in the server depends on it.
Reply(c) ==
    /\ pc[c] = "reply"
    /\ Goto(c, "done")
    /\ UNCHANGED <<args, locked, val, countVars, lockVars, dataVars>>

----------------------------------------------------------------------------
Arrive(c) == EnterReader(c) \/ EnterWriter(c)
Proceed(c) ==
    \/ Wait(c) \/ WakeUp(c) \/ PassGate(c) \/ Lock(c)
    \/ RatioRead(c) \/ RatioWrite(c) \/ RatioReset(c)
    \/ CounterRead(c) \/ CounterWrite(c)
    \/ Truncate(c) \/ Format(c) \/ Flush(c)
    \/ Leave(c) \/ SignalOther(c) \/ Unlock(c) \/ Reply(c)

Next == \E c \in Requests : Arrive(c) \/ SpuriousWakeup(c) \/ Proceed(c)

Spec == Init /\ [][Next]_vars

\* The system runs every thread; requests arrive when clients like.  Nothing
\* obliges a thread that waits to go on but a signal.
FairSpec == Spec /\ \A c \in Requests : WF_vars(Proceed(c))

----------------------------------------------------------------------------
(* Properties.                                                             *)

TypeOK ==
    /\ priority \in Priorities /\ ratio \in Ratios
    /\ pc \in [Requests -> Labels]
    /\ locked \in [Requests -> BOOLEAN]
    /\ val \in [Requests -> Int]
    /\ current_readers \in Nat /\ current_writers \in Nat
    /\ readers_mutex \in Requests \cup {NoOne}
    /\ writers_mutex \in Requests \cup {NoOne}
    /\ ratio_mutex \in Requests \cup {NoOne}
    /\ mutex \in Requests \cup {NoOne}
    /\ ratio_counter \in Int
    /\ counter \in Int
    /\ file \in Int \cup {Empty}

(***************************************************************************)
(* Writers exclude each other from the critical region, and so no          *)
(* increment is lost: whatever readers do, the counter has grown by the    *)
(* number of writers that have written it.                                 *)
(***************************************************************************)
WritersExclude ==
    \A c, d \in Writers : c # d => ~(pc[c] \in InRegion /\ pc[d] \in InRegion)
Written == {c \in Writers :
    pc[c] \in {"fopen", "fprintf", "fclose", "leave", "signal", "unlock", "reply", "done"}}
NoIncrementLost == \E start \in Starts : counter = start + Cardinality(Written)

(***************************************************************************)
(* The counts that the decisions on entry and on leaving go by are the     *)
(* requests inside, at every moment.                                       *)
(***************************************************************************)
Counted(c) == pc[c] \in AtGate \cup (InRegion \ {"signal", "unlock"})
CountsExact ==
    /\ current_readers = Cardinality({c \in Readers : Counted(c)})
    /\ current_writers = Cardinality({c \in Writers : Counted(c)})

(***************************************************************************)
(* Nobody is left behind at a condition variable by the decision of whom   *)
(* to signal: if everyone else inside is already waiting, then the one     *)
(* that leaves wakes somebody.  (A thread between the unlock of            *)
(* counter_mutex and pthread_cond_wait is not waiting yet; it can be       *)
(* missed, and then waits for ever.)                                       *)
(***************************************************************************)
LastActiveWakesOne ==
    [][\A c \in Requests :
          /\ pc[c] \in {"leave", "signal"} /\ pc'[c] = "unlock"
          /\ \A d \in Requests \ {c} : pc[d] \in {"waiting", "unlock", "reply"} \cup Outside
          /\ \E d \in Requests : pc[d] = "waiting"
          => \E d \in Requests : pc[d] = "waiting" /\ pc'[d] = "woken"]_vars

(***************************************************************************)
(* As long as no reader has gone in without mutex, the file holds the      *)
(* counter whenever mutex is free.                                         *)
(***************************************************************************)
FileIsCurrent ==
    (mutex = NoOne /\ \A c \in Requests : pc[c] \in {"idle"} \cup AtGate \/ locked[c])
        => file = counter

(***************************************************************************)
(* No thread is stuck anywhere but at a condition variable, and there only *)
(* when the server runs with a ratio: the threads come to rest, each       *)
(* either outside or waiting.                                              *)
(***************************************************************************)
ServedOrWaiting ==
    <>[](\A c \in Requests : pc[c] \in Outside \/ (ratio # 0 /\ pc[c] = "waiting"))

(***************************************************************************)
(* proxy.h says write_output overwrites the file with the current counter. *)
(* With readers that write it without mutex this is not what is there      *)
(* after the last request.                                                 *)
(***************************************************************************)
FileHoldsCounterAtEnd == (\A c \in Requests : pc[c] = "done") => file = counter
=============================================================================
