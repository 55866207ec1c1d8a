----------------------------- MODULE ThreadSlots -----------------------------
(***************************************************************************)
(* The accept loop of practica3/server.c and the table client_sockets of   *)
(* practica3/proxy.c.  The main thread takes a slot for every connection   *)
(* it has accepted, waiting at not_full while MAX_THREADS threads run, and *)
(* creates the connection's thread, which frees the slot when it is done.  *)
(*                                                                         *)
(* current_threads is tested under free_fd_mutex but changed, and not_full *)
(* signalled, under current_threads_mutex.                                 *)
(***************************************************************************)
EXTENDS Integers, FiniteSets

CONSTANTS
    Conns,             \* connections; a socket is named by its connection
    MaxThreads,        \* MAX_THREADS
    SpuriousWakeups,   \* may pthread_cond_wait return without a signal?
    Free, Taken        \* what is in a slot that holds no socket

ASSUME SlotsAssumption ==
    /\ IsFiniteSet(Conns)
    /\ MaxThreads \in Nat \ {0}
    /\ SpuriousWakeups \in BOOLEAN
    /\ Free # Taken /\ Free \notin Conns /\ Taken \notin Conns

VARIABLES
    loop,              \* where the main thread is
    current,           \* the connection it has accepted
    thread,            \* where every connection's thread is
    id,                \* thread_info[0] of every connection
    client_sockets,    \* the slots, and the word after them
    current_threads,
    open,              \* sockets the server has open
    spurious           \* has the main thread ever been woken without a signal?

loopVars == <<loop, current>>
slotVars == <<id, client_sockets>>
vars == <<loopVars, thread, slotVars, current_threads, open, spurious>>

LoopStates == {"accept", "get_free_fd", "to_wait", "waiting", "woken",
               "set_value_fd", "create", "count"}
ThreadStates == {"none", "serve", "close", "free", "uncount", "gone"}
Slots == 0 .. MaxThreads - 1
Cells == 0 .. MaxThreads   \* an index past the array is used like the others

Init ==
    /\ loop = "accept"
    /\ current \in Conns
    /\ thread = [c \in Conns |-> "none"]
    /\ id = [c \in Conns |-> 0]
    /\ client_sockets = [i \in Cells |-> Free]
    /\ current_threads = 0
    /\ open = {}
    /\ spurious = FALSE

\* free_fd_mutex is kept from one step to the next only here.
FreeFdMutexFree == loop # "to_wait"

----------------------------------------------------------------------------
(* The main thread.                                                        *)

Accept(c) ==
    /\ loop = "accept" /\ thread[c] = "none"
    /\ current' = c
    /\ open' = open \cup {c}
    /\ loop' = "get_free_fd"
    /\ UNCHANGED <<thread, slotVars, current_threads, spurious>>

\* Mutant: one thread too many.
FullOffByOne == current_threads > MaxThreads
Full == current_threads >= MaxThreads

\* Mutant: the first slot is taken whoever has it.
FirstSlot == 0
\* The first free slot, or MaxThreads.
FirstFree ==
    IF \E i \in Slots : client_sockets[i] = Free
    THEN CHOOSE i \in Slots : client_sockets[i] = Free /\ \A j \in 0 .. i - 1 : client_sockets[j] # Free
    ELSE MaxThreads

\* The search, which marks a slot it has found as in use.
TakeSlot ==
    /\ id' = [id EXCEPT ![current] = FirstFree]
    /\ client_sockets' = IF FirstFree \in Slots
                         THEN [client_sockets EXCEPT ![FirstFree] = Taken]
                         ELSE client_sockets
    /\ loop' = "set_value_fd"
    /\ UNCHANGED <<current, thread, current_threads, open, spurious>>

GetFreeFd == loop = "get_free_fd" /\ ~Full /\ TakeSlot

FindFull ==
    /\ loop = "get_free_fd" /\ Full
    /\ loop' = "to_wait"
    /\ UNCHANGED <<current, thread, slotVars, current_threads, open, spurious>>

\* pthread_cond_wait: from here on a signal can reach the thread.
Wait ==
    /\ loop = "to_wait"
    /\ loop' = "waiting"
    /\ UNCHANGED <<current, thread, slotVars, current_threads, open, spurious>>

SpuriousWakeup ==
    /\ SpuriousWakeups /\ loop = "waiting"
    /\ loop' = "woken"
    /\ spurious' = TRUE
    /\ UNCHANGED <<current, thread, slotVars, current_threads, open>>

\* The code tests the number of threads no second time.
WakeUp == loop = "woken" /\ TakeSlot

\* Mutant: the position is stored.
StoredId(c) == [client_sockets EXCEPT ![id[c]] = id[c]]
Stored(c) == [client_sockets EXCEPT ![id[c]] = c]

SetValueFd ==
    /\ loop = "set_value_fd"
    /\ client_sockets' = Stored(current)
    /\ loop' = "create"
    /\ UNCHANGED <<current, thread, id, current_threads, open, spurious>>

CreateThread ==
    /\ loop = "create"
    /\ thread' = [thread EXCEPT ![current] = "serve"]
    /\ loop' = "count"
    /\ UNCHANGED <<current, slotVars, current_threads, open, spurious>>

\* The thread is counted once it runs, and may have finished by then.
CountThread ==
    /\ loop = "count"
    /\ current_threads' = current_threads + 1
    /\ loop' = "accept"
    /\ UNCHANGED <<current, thread, slotVars, open, spurious>>

----------------------------------------------------------------------------
(* A connection's thread, talk_2_client.                                   *)

\* The request is received, done and answered.
Serve(c) ==
    /\ thread[c] = "serve"
    /\ thread' = [thread EXCEPT ![c] = "close"]
    /\ UNCHANGED <<loopVars, slotVars, current_threads, open, spurious>>

\* The socket in the thread's slot is closed, without free_fd_mutex.
Close(c) ==
    /\ thread[c] = "close"
    /\ open' = open \ {client_sockets[id[c]]}
    /\ thread' = [thread EXCEPT ![c] = "free"]
    /\ UNCHANGED <<loopVars, slotVars, current_threads, spurious>>

FreeSlot(c) ==
    /\ thread[c] = "free" /\ FreeFdMutexFree
    /\ client_sockets' = [client_sockets EXCEPT ![id[c]] = Free]
    /\ thread' = [thread EXCEPT ![c] = "uncount"]
    /\ UNCHANGED <<loopVars, id, current_threads, open, spurious>>

\* Mutant: not_full is not signalled.
NotSignalled == loop
Signalled == IF loop = "waiting" THEN "woken" ELSE loop

UncountThread(c) ==
    /\ thread[c] = "uncount"
    /\ current_threads' = current_threads - 1
    /\ loop' = Signalled
    /\ thread' = [thread EXCEPT ![c] = "gone"]
    /\ UNCHANGED <<current, slotVars, open, spurious>>

----------------------------------------------------------------------------
\* accept() and a spurious wakeup are up to others.
MainStep ==
    \/ GetFreeFd \/ FindFull \/ Wait \/ WakeUp
    \/ SetValueFd \/ CreateThread \/ CountThread
ThreadStep(c) == Serve(c) \/ Close(c) \/ FreeSlot(c) \/ UncountThread(c)

Next ==
    \/ \E c \in Conns : Accept(c) \/ ThreadStep(c)
    \/ MainStep \/ SpuriousWakeup

Spec == Init /\ [][Next]_vars

\* Every thread runs, and every request is answered at last (where that fails
\* is the business of ReadersWriters).
FairSpec == Spec /\ WF_vars(MainStep) /\ \A c \in Conns : WF_vars(ThreadStep(c))

----------------------------------------------------------------------------
(* Properties.                                                             *)

TypeOK ==
    /\ loop \in LoopStates
    /\ current \in Conns
    /\ thread \in [Conns -> ThreadStates]
    /\ id \in [Conns -> Cells]
    /\ client_sockets \in [Cells -> Conns \cup {Free, Taken}]
    /\ current_threads \in Int
    /\ open \subseteq Conns
    /\ spurious \in BOOLEAN

(***************************************************************************)
(* A slot in the array belongs to one thread until that thread frees it,   *)
(* and as long as get_free_fd waits for signals alone, every thread closes *)
(* its own socket and no other.                                            *)
(***************************************************************************)
HoldsSlot(c) == thread[c] \in {"serve", "close", "free"}
SlotsAreOwn ==
    /\ \A c \in Conns : HoldsSlot(c) /\ id[c] \in Slots => client_sockets[id[c]] = c
    /\ ~spurious => \A c \in Conns :
          /\ thread[c] \in {"serve", "close"} => c \in open
          /\ thread[c] \in {"free", "uncount", "gone"} => c \notin open

(***************************************************************************)
(* The tests of current_threads, with the wrong mutex and before the new   *)
(* thread is counted, never let more than MAX_THREADS threads run nor send *)
(* the search past the array; only a wakeup without signal does.           *)
(***************************************************************************)
Running == {c \in Conns : thread[c] \notin {"none", "gone"}}
LimitKept ==
    ~spurious => /\ Cardinality(Running) <= MaxThreads
                 /\ \A c \in Conns : id[c] \in Slots

(***************************************************************************)
(* A signal that comes between the test and the wait is lost, but any      *)
(* thread that has yet to finish makes up for it.                          *)
(***************************************************************************)
LaterFinishWakes == (loop = "waiting" /\ Running # {}) ~> loop # "waiting"

(***************************************************************************)
(* proxy.h: get_free_fd "returns the first position of client_sockets that *)
(* no thread is using".  With the lost signal it does not return at all.   *)
(***************************************************************************)
FreePositionIsFound ==
    (loop = "waiting" /\ \E i \in Slots : client_sockets[i] = Free) ~> loop # "waiting"
=============================================================================
