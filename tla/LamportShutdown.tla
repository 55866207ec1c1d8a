-------------------------- MODULE LamportShutdown --------------------------
(***************************************************************************)
(* The shutdown of practica2: two clients P1 and P3 tell the server P2     *)
(* that they are ready, P2 shuts P1 down and then P3.  Nobody looks at the *)
(* sender or the action of a message: every process waits for messages     *)
(* with the values of Lamport's clock it expects, and drops the others.    *)
(* The server polls its two sockets in the order it accepted them.         *)
(***************************************************************************)
EXTENDS Integers, Sequences

CONSTANTS Crashers   \* bound: clients that may be killed at any moment

Clients == {"P1", "P3"}

ASSUME CrashersAssumption == Crashers \subseteq Clients

VARIABLES
    server,      \* where P2 is
    client,      \* where P1 and P3 are
    lamport,     \* lamport_ of every process
    accepted,    \* clients in the order P2 accepted them
    up, down,    \* clock values on their way to P2, and from it
    link,        \* P2's connection to a client, as its kernel sees it
    message,     \* clock_lamport of server_receive's message
    current_id   \* how many expected values P2 has had

vars == <<server, client, lamport, accepted, up, down, link, message, current_id>>

expected_lamport_p2 == <<1, 5, 9>>
\* Mutants: both clients wait for the first SHUTDOWN_NOW, or for the second.
ExpectedFirst(c) == 3
ExpectedSecond(c) == 7
Expected(c) == IF c = "P1" THEN 3 ELSE 7
Ended == {"done", "failed"}
ServerStates == {"accept", "recv_1", "recv_2", "test"} \cup Ended
ClientStates == {"connect", "ready", "receive", "ack", "close", "ended", "dead"}

Init ==
    /\ server = "accept"
    /\ client = [c \in Clients |-> "connect"]
    /\ lamport = [p \in Clients \cup {"P2"} |-> 0]
    /\ accepted = <<>>
    /\ up = [c \in Clients |-> <<>>]
    /\ down = [c \in Clients |-> <<>>]
    /\ link = [c \in Clients |-> "open"]
    /\ message = 0        \* on a new thread's stack, which is zero
    /\ current_id = 0

\* A message is dated with the clock's next value.
Tick(p) == lamport' = [lamport EXCEPT ![p] = @ + 1]
\* Mutant: the clock is set to the message's.
AdjustedToMessage(p, clock) == IF clock > lamport[p] THEN clock ELSE lamport[p]
\* The clock after a message that was waited for.
Adjusted(p, clock) == IF clock > lamport[p] THEN clock + 1 ELSE lamport[p]

----------------------------------------------------------------------------
(* P1 and P3.                                                              *)

\* socket_connect, and P2's accept in the order of the connections.
Connect(c) ==
    /\ server = "accept" /\ client[c] = "connect"
    /\ client' = [client EXCEPT ![c] = "ready"]
    /\ accepted' = Append(accepted, c)
    /\ server' = IF Len(accepted') = 2 THEN "recv_1" ELSE "accept"
    /\ UNCHANGED <<lamport, up, down, link, message, current_id>>

Send(c, from, to) ==
    /\ client[c] = from
    /\ client' = [client EXCEPT ![c] = to]
    /\ Tick(c)
    /\ up' = [up EXCEPT ![c] = Append(@, lamport'[c])]

notify_ready_shutdown(c) ==
    /\ Send(c, "ready", "receive")
    /\ UNCHANGED <<server, accepted, down, link, message, current_id>>

\* client_receive drops what it does not expect, and its clock with it.
client_receive(c) ==
    /\ client[c] = "receive" /\ down[c] # <<>>
    /\ down' = [down EXCEPT ![c] = Tail(@)]
    /\ IF Head(down[c]) = Expected(c)
       THEN /\ lamport' = [lamport EXCEPT ![c] = Adjusted(c, Head(down[c]))]
            /\ client' = [client EXCEPT ![c] = "ack"]
       ELSE UNCHANGED <<lamport, client>>
    /\ UNCHANGED <<server, accepted, up, link, message, current_id>>

notify_shutdown_ack(c) ==
    /\ Send(c, "ack", "close")
    /\ UNCHANGED <<server, accepted, down, link, message, current_id>>

\* A socket closed with data nobody has read is reset, otherwise it ends.
LinkAfterClose(c) == IF down[c] = <<>> THEN "closed" ELSE "reset"

Close(c) ==
    /\ client[c] = "close"
    /\ client' = [client EXCEPT ![c] = "ended"]
    /\ link' = [link EXCEPT ![c] = LinkAfterClose(c)]
    /\ UNCHANGED <<server, lamport, accepted, up, down, message, current_id>>

Die(c) ==
    /\ c \in Crashers /\ client[c] \in {"ready", "receive", "ack"}
    /\ client' = [client EXCEPT ![c] = "dead"]
    /\ link' = [link EXCEPT ![c] = LinkAfterClose(c)]
    /\ UNCHANGED <<server, lamport, accepted, up, down, message, current_id>>

----------------------------------------------------------------------------
(* P2.                                                                     *)

Awaited == expected_lamport_p2[current_id + 1]

\* do_receive_in_socket on the i-th socket: a message; nothing, in time or
\* because the client has closed; or an error, which ends P2.
Receive(i, next) ==
    LET c == accepted[i] IN
    /\ IF up[c] # <<>>
       THEN /\ message' = Head(up[c])
            /\ up' = [up EXCEPT ![c] = Tail(@)]
       ELSE UNCHANGED <<message, up>>
    /\ server' = IF up[c] = <<>> /\ link[c] = "reset" THEN "failed" ELSE next
    /\ UNCHANGED <<client, lamport, accepted, down, link, current_id>>

\* The second socket is not polled if the first one had what is expected.
ReceiveFirst ==
    /\ server = "recv_1"
    /\ Receive(1, IF up[accepted[1]] # <<>> /\ Head(up[accepted[1]]) = Awaited
                  THEN "test" ELSE "recv_2")
ReceiveSecond == server = "recv_2" /\ Receive(2, "test")

PollAgain ==
    /\ server = "test" /\ message # Awaited
    /\ server' = "recv_1"
    /\ UNCHANGED <<client, lamport, accepted, up, down, link, message, current_id>>

Arrives(c) == client[c] \notin {"ended", "dead"}
\* A first send to a client that has gone succeeds and breaks the connection.
LinkAfterSend(c) == IF link[c] = "closed" THEN "broken" ELSE link[c]
\* How many of the two sends of notify_shutdown_now succeed: one to a
\* connection that is broken or was reset may fail, which ends P2.
SendsDone == {2} \cup {i - 1 : i \in {j \in 1 .. 2 : link[accepted[j]] \in {"broken", "reset"}}}

\* SHUTDOWN_NOW, in the order the clients were accepted.
notify_shutdown_now(clock) ==
    \E sends \in SendsDone :
        LET told == {accepted[i] : i \in 1 .. sends} IN
        /\ down' = [c \in Clients |->
               IF c \in told /\ Arrives(c) THEN Append(down[c], clock) ELSE down[c]]
        /\ link' = [c \in Clients |-> IF c \in told THEN LinkAfterSend(c) ELSE link[c]]
        /\ server' = IF sends = 2 THEN "recv_1" ELSE "failed"

\* An expected value: the clock is adjusted, and 1 and 5 are answered with
\* SHUTDOWN_NOW; message is reset for the next value.
Handle ==
    /\ server = "test" /\ message = Awaited
    /\ LET clock == Adjusted("P2", message)
       IN  IF message \in {1, 5}
           THEN /\ lamport' = [lamport EXCEPT !["P2"] = clock + 1]
                /\ notify_shutdown_now(clock + 1)
           ELSE /\ lamport' = [lamport EXCEPT !["P2"] = clock]
                /\ server' = "done"
                /\ UNCHANGED <<down, link>>
    /\ current_id' = current_id + 1
    /\ message' = 0
    /\ UNCHANGED <<client, accepted, up>>

----------------------------------------------------------------------------
ClientStep(c) ==
    \/ Connect(c) \/ notify_ready_shutdown(c) \/ client_receive(c)
    \/ notify_shutdown_ack(c) \/ Close(c)
ServerStep == ReceiveFirst \/ ReceiveSecond \/ PollAgain \/ Handle

Next == (\E c \in Clients : ClientStep(c) \/ Die(c)) \/ ServerStep

Spec == Init /\ [][Next]_vars

\* All three processes run; nobody need be killed.
FairSpec == Spec /\ WF_vars(ServerStep) /\ \A c \in Clients : WF_vars(ClientStep(c))

----------------------------------------------------------------------------
(* Properties.                                                             *)

TypeOK ==
    /\ server \in ServerStates
    /\ client \in [Clients -> ClientStates]
    /\ lamport \in [Clients \cup {"P2"} -> 0 .. 10]
    /\ accepted \in Seq(Clients) /\ Len(accepted) <= 2
    /\ up \in [Clients -> Seq({1, 5, 9})]
    /\ down \in [Clients -> Seq({3, 7})]
    /\ link \in [Clients -> {"open", "closed", "broken", "reset"}]
    /\ message \in {0, 1, 5, 9}
    /\ current_id \in 0 .. 3

(***************************************************************************)
(* Nobody checks who sent a message.  Its clock value tells all the same:  *)
(* 5 is only ever P1's acknowledgement and 9 only ever P3's, in whatever   *)
(* order the clients connect and the server polls.                         *)
(***************************************************************************)
Acknowledged(c) == client[c] \in {"close", "ended"}
SentBy(c) == {up[c][i] : i \in 1 .. Len(up[c])}
ClocksNameTheirSender ==
    /\ SentBy("P1") \subseteq {1, 5} /\ SentBy("P3") \subseteq {1, 9}
    /\ 5 \in SentBy("P1") \/ current_id >= 2 => Acknowledged("P1")
    /\ 9 \in SentBy("P3") \/ current_id >= 3 => Acknowledged("P3")

(***************************************************************************)
(* P3 shuts down only after P2 has had P1's acknowledgement; and when P2   *)
(* reports success, both clients have acknowledged and the clock is 10.    *)
(***************************************************************************)
ShutdownInOrder ==
    /\ client["P3"] \in {"ack", "close", "ended"} => Acknowledged("P1") /\ current_id >= 2
    /\ server = "done" => lamport["P2"] = 10 /\ Acknowledged("P1") /\ Acknowledged("P3")

(***************************************************************************)
(* If no client is killed, P1 ends and P2 does not poll for ever.          *)
(***************************************************************************)
ShutdownEnds ==
    <>(\E c \in Clients : client[c] = "dead")
        \/ (<>(client["P1"] = "ended") /\ <>(server \in Ended))
=============================================================================
