-------------------------------- MODULE Chat --------------------------------
(***************************************************************************)
(* practica1/ServidorSimple and ServidorSimpleNoBloqueante: a server and a *)
(* client that send each other lines from their keyboards.  Both loop over *)
(* receive_message and send_message, the server beginning with the former  *)
(* and the client with the latter.  ServidorSimple waits in recv;          *)
(* NoBloqueante waits half a second in select, then asks its user anyway.  *)
(*                                                                         *)
(* Every send carries sizeof(out_buffer) bytes and every recv asks for     *)
(* sizeof(in_buffer), both the size of a pointer: one recv takes one line, *)
(* of which only these first bytes travel.  Lines are therefore counted.   *)
(* IP is the loopback address: what is sent is at once in the other's      *)
(* receive buffer.                                                         *)
(***************************************************************************)
EXTENDS Integers

CONSTANTS
    Variants,    \* which of the two programs: "Simple", "NoBloqueante"
    MaxLines     \* bound: lines each user types

ASSUME ChatAssumption ==
    /\ Variants \subseteq {"Simple", "NoBloqueante"}
    /\ MaxLines \in Nat

VARIABLES
    variant,
    at,        \* where every process is in its loop
    typed,     \* lines every user has typed
    buffer,    \* lines in every process's receive buffer
    ended      \* processes that are no more: "" or by whom they ended

vars == <<variant, at, typed, buffer, ended>>

Peers == {"server", "client"}
Other(p) == IF p = "server" THEN "client" ELSE "server"
Alive(p) == ended[p] = ""
Goto(p, place) == at' = [at EXCEPT ![p] = place]

Init ==
    /\ variant \in Variants
    /\ at = [p \in Peers |-> IF p = "server" THEN "accept" ELSE "connect"]
    /\ typed = [p \in Peers |-> 0]
    /\ buffer = [p \in Peers |-> 0]
    /\ ended = [p \in Peers |-> ""]

----------------------------------------------------------------------------
\* Mutant: both begin by receiving.
BothListen(p) == "receive"
FirstCall(p) == IF p = "server" THEN "receive" ELSE "send"

\* connect is tried until the server listens; it accepts one client only.
Connect ==
    /\ Alive("client") /\ Alive("server") /\ at["client"] = "connect"
    /\ Goto("client", FirstCall("client"))
    /\ UNCHANGED <<variant, typed, buffer, ended>>

Accept ==
    /\ Alive("server") /\ at["server"] = "accept" /\ at["client"] # "connect"
    /\ Goto("server", FirstCall("server"))
    /\ UNCHANGED <<variant, typed, buffer, ended>>

\* send_message: a line is typed and sent.  To a process that has ended the
\* send may still succeed, or fail, or raise SIGPIPE.
Send(p) ==
    /\ Alive(p) /\ at[p] = "send" /\ typed[p] < MaxLines
    /\ typed' = [typed EXCEPT ![p] = @ + 1]
    /\ IF Alive(Other(p))
       THEN /\ buffer' = [buffer EXCEPT ![Other(p)] = @ + 1]
            /\ Goto(p, "receive")
            /\ UNCHANGED ended
       ELSE /\ UNCHANGED buffer
            /\ \/ Goto(p, "receive") /\ UNCHANGED ended
               \/ ended' = [ended EXCEPT ![p] = "error"] /\ UNCHANGED at
    /\ UNCHANGED variant

\* receive_message with a line in the buffer: it is printed.
Receive(p) ==
    /\ Alive(p) /\ at[p] = "receive" /\ buffer[p] > 0
    /\ buffer' = [buffer EXCEPT ![p] = @ - 1]
    /\ Goto(p, "send")
    /\ UNCHANGED <<variant, typed, ended>>

\* Nothing there and nobody to send it: recv returns 0, which is taken for an
\* empty line, or fails after a reset.
ReceiveEnd(p) ==
    /\ Alive(p) /\ at[p] = "receive" /\ buffer[p] = 0 /\ ~Alive(Other(p))
    /\ \/ Goto(p, "send") /\ UNCHANGED ended
       \/ ended' = [ended EXCEPT ![p] = "error"] /\ UNCHANGED at
    /\ UNCHANGED <<variant, typed, buffer>>

\* Mutant: select without a timeout.
WaitsForEver == FALSE
TimesOut == variant = "NoBloqueante"

\* select returns with the socket not ready: for the timeout, or because
\* there is something on the keyboard.  FD_ISSET keeps it from recv.
SelectOther(p) ==
    /\ TimesOut
    /\ Alive(p) /\ at[p] = "receive" /\ buffer[p] = 0 /\ Alive(Other(p))
    /\ Goto(p, "send")
    /\ UNCHANGED <<variant, typed, buffer, ended>>

\* Ctrl-C, or end of file on the keyboard: the process exits.
Quit(p) ==
    /\ Alive(p)
    /\ ended' = [ended EXCEPT ![p] = "user"]
    /\ UNCHANGED <<variant, at, typed, buffer>>

Listen(p) == Receive(p) \/ ReceiveEnd(p) \/ SelectOther(p)
Next == Connect \/ Accept \/ \E p \in Peers : Send(p) \/ Listen(p) \/ Quit(p)
Spec == Init /\ [][Next]_vars

\* The processes run; users type and quit when they like.
FairSpec ==
    /\ Spec
    /\ WF_vars(Connect) /\ WF_vars(Accept)
    /\ \A p \in Peers : WF_vars(Listen(p))

----------------------------------------------------------------------------
(* Properties.                                                             *)

(***************************************************************************)
(* ServidorSimple's two blocking loops never wait for each other: as long  *)
(* as both run, exactly one user is asked for a line or one line is on its *)
(* way, and never more.                                                    *)
(***************************************************************************)
Asked == {p \in Peers : at[p] = "send"}
OneTurn ==
    (variant = "Simple" /\ at["client"] # "connect" /\ \A p \in Peers : Alive(p)) =>
        \/ \E p \in Peers : Asked = {p} /\ \A q \in Peers : buffer[q] = 0
        \/ Asked = {} /\ buffer["server"] + buffer["client"] = 1

(***************************************************************************)
(* A user gets to type again: with NoBloqueante always, with               *)
(* ServidorSimple when the other process has answered or is gone.          *)
(***************************************************************************)
Due(p) == variant = "NoBloqueante" \/ buffer[p] > 0 \/ ~Alive(Other(p))
PromptComesBack ==
    \A p \in Peers : (at[p] = "receive" /\ Due(p)) ~> (at[p] = "send" \/ ~Alive(p))
=============================================================================
