--------------------------- MODULE CounterRestart ---------------------------
(***************************************************************************)
(* The practica3 server across starts: read_output (server.c) takes the    *)
(* counter from server_output.txt, the threads of ReadersWriters write it  *)
(* there, and the process may be killed at any of their steps.  Nothing    *)
(* but the file outlives it.                                               *)
(***************************************************************************)
EXTENDS ReadersWriters

CONSTANTS
    Absent,      \* content of a file that does not exist
    Garbage,     \* numbers atoi may find in a buffer nobody wrote
    MaxStarts    \* bound: times the server is started

ASSUME RestartAssumption ==
    /\ Absent \notin Nat \cup {Empty}
    /\ Garbage \subseteq Int
    /\ MaxStarts \in Nat

VARIABLES
    up,          \* is the server running?
    starts,      \* times it was started
    base,        \* history: what the first start took from the file
    intact       \* history: no start found an empty file, and no reader has
                 \* gone in without mutex
restartVars == <<up, starts, base, intact>>

RestartInit ==
    /\ current_readers = 0 /\ current_writers = 0
    /\ readers_mutex = NoOne /\ writers_mutex = NoOne
    /\ ratio_mutex = NoOne /\ mutex = NoOne
    /\ ratio_counter = 0
    /\ locked = [c \in Requests |-> FALSE]
    /\ val = [c \in Requests |-> 0]
    /\ priority \in Priorities /\ ratio \in Ratios
    /\ pc = [c \in Requests |-> "idle"]
    /\ counter = 0
    /\ file \in Starts \cup {Absent}
    /\ up = FALSE
    /\ starts = 0
    /\ base = 0
    /\ intact = TRUE

\* Mutant: the file is not read at all.
NothingRead(content) == {0}

\* The counter read_output sets: 0 without a file, and whatever is in buffer
\* when fgets finds nothing to put there.
read_output(content) ==
    CASE content = Absent -> {0}
      [] content = Empty -> Garbage
      [] OTHER -> {content}

\* main of server.c up to its loop; a file that is absent is created.
StartServer ==
    /\ ~up /\ starts < MaxStarts
    /\ up' = TRUE
    /\ starts' = starts + 1
    /\ counter' \in read_output(file)
    /\ file' = IF file = Absent THEN Empty ELSE file
    /\ base' = IF starts = 0 THEN counter' ELSE base
    /\ intact' = (intact /\ file # Empty)
    /\ UNCHANGED <<args, pc, locked, val, countVars, lockVars, ratio_counter>>

\* The process is killed: its threads, its locks and the buffers of streams
\* not yet closed are gone.
KillServer ==
    /\ up
    /\ up' = FALSE
    /\ pc' = [c \in Requests |-> IF pc[c] \in Outside THEN pc[c] ELSE "killed"]
    /\ current_readers' = 0 /\ current_writers' = 0
    /\ readers_mutex' = NoOne /\ writers_mutex' = NoOne
    /\ ratio_mutex' = NoOne /\ mutex' = NoOne
    /\ ratio_counter' = 0
    /\ locked' = [c \in Requests |-> FALSE]
    /\ val' = [c \in Requests |-> 0]
    /\ counter' = 0
    /\ UNCHANGED <<args, file, starts, base, intact>>

RequestStep ==
    /\ up
    /\ \E c \in Requests :
          /\ Arrive(c) \/ SpuriousWakeup(c) \/ Proceed(c)
          /\ intact' = (intact /\ (pc'[c] = "ratio_read" => locked'[c]))
    /\ UNCHANGED <<up, starts, base>>

RestartNext == StartServer \/ KillServer \/ RequestStep
RestartSpec == RestartInit /\ [][RestartNext]_<<vars, restartVars>>

----------------------------------------------------------------------------
(* Properties.                                                             *)

(***************************************************************************)
(* The file carries the counter over a crash at any moment: what a writer  *)
(* was answered for is never lost, and nothing is counted that no writer   *)
(* stored, however often the server is killed.  Two things void this: a    *)
(* kill that leaves the file empty (between fopen and fclose, or before    *)
(* the first write), after which read_output parses a buffer nobody wrote; *)
(* and a reader that writes the file without mutex.                        *)
(***************************************************************************)
Answered == {c \in Writers : pc[c] \in {"leave", "signal", "unlock", "reply", "done"}}
MayHaveStored == Written \cup {c \in Writers : pc[c] = "killed"}
CounterSurvives ==
    up /\ intact =>
        /\ base + Cardinality(Answered) <= counter
        /\ counter <= base + Cardinality(MayHaveStored)

(***************************************************************************)
(* While the server runs without having been disturbed, and no writer is   *)
(* under way, a kill costs nothing: the file already says what the next    *)
(* start will count on from.                                               *)
(***************************************************************************)
KillCostsNothingAtRest ==
    (/\ up /\ intact
     /\ \A c \in Requests : pc[c] \in Outside \cup {"killed"}
     /\ \E c \in Requests : pc[c] = "done")
        => read_output(file) = {counter}
=============================================================================
