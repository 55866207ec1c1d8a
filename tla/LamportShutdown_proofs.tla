----------------------- MODULE LamportShutdown_proofs -----------------------
(***************************************************************************)
(* Whichever clients are killed, and in whatever order they connect and    *)
(* are polled: clock values name their sender, and P1 shuts down first.    *)
(***************************************************************************)
EXTENDS LamportShutdown, TLAPS

\* The clock of an acknowledgement.
Ack(c) == Expected(c) + 2

\* A client's clock follows from where it is.
ClientClocks == \A c \in Clients :
    lamport[c] \in CASE client[c] \in {"connect", "ready"} -> {0}
                     [] client[c] = "receive" -> {1}
                     [] client[c] = "ack" -> {Expected(c) + 1}
                     [] client[c] \in {"close", "ended"} -> {Ack(c)}
                     [] OTHER -> {0, 1, Expected(c) + 1}

\* P2's clock follows from how many expected values it has had.
ServerClock ==
    /\ lamport["P2"] = CASE current_id = 0 -> 0
                         [] current_id = 1 -> 3
                         [] current_id = 2 -> 7
                         [] OTHER -> 10
    /\ server = "done" => current_id = 3
    /\ server \notin Ended => current_id <= 2
    /\ server # "accept" => Len(accepted) = 2
    /\ server = "accept" => Len(accepted) < 2

\* What is on its way, or with P2, was sent by whom its value names.
Upward ==
    /\ \A c \in Clients : \A i \in 1 .. Len(up[c]) :
          up[c][i] = 1 \/ (up[c][i] = Ack(c) /\ Acknowledged(c))
    /\ message = 5 \/ current_id >= 2 => Acknowledged("P1")
    /\ message = 9 \/ current_id >= 3 => Acknowledged("P3")

\* P2 sends 3 on the first expected value and 7 on the second.
Downward ==
    /\ \A c \in Clients : \A i \in 1 .. Len(down[c]) :
          (down[c][i] = 3 /\ current_id >= 1) \/ (down[c][i] = 7 /\ current_id >= 2)
    /\ client["P1"] \in {"ack", "close", "ended"} => current_id >= 1
    /\ client["P3"] \in {"ack", "close", "ended"} => current_id >= 2

Inv == TypeOK /\ ClientClocks /\ ServerClock /\ Upward /\ Downward

----------------------------------------------------------------------------
LEMMA InvAtStart == Init => Inv
<1> SUFFICES ASSUME Init PROVE Inv
  OBVIOUS
<1> QED
  BY DEF Init, Inv, TypeOK, ClientClocks, ServerClock, Upward, Downward, Clients, ServerStates,
         ClientStates, Ended, Acknowledged

\* Nothing the clients do changes what P2 knows.
LEMMA ClientSteps ==
    ASSUME Inv, NEW c \in Clients, ClientStep(c) \/ Die(c)
    PROVE  Inv'
<1> USE DEF Inv
<1>1. CASE Connect(c)
  <2>1. /\ server = "accept" /\ client[c] = "connect" /\ client' = [client EXCEPT ![c] = "ready"]
        /\ accepted' = Append(accepted, c)
        /\ server' = IF Len(accepted') = 2 THEN "recv_1" ELSE "accept"
        /\ UNCHANGED <<lamport, up, down, link, message, current_id>>
    BY <1>1 DEF Connect
  <2>2. accepted' \in Seq(Clients) /\ Len(accepted') = Len(accepted) + 1
    BY <2>1 DEF TypeOK
  <2>3. TypeOK' /\ ServerClock'
    BY <2>1, <2>2 DEF TypeOK, ServerClock, ServerStates, ClientStates, Ended
  <2>4. ClientClocks' /\ Upward' /\ Downward'
    BY <2>1 DEF TypeOK, ClientClocks, Upward, Downward, Acknowledged, Clients
  <2> QED
    BY <2>3, <2>4
<1>2. CASE notify_ready_shutdown(c)
  <2>1. /\ client[c] = "ready" /\ client' = [client EXCEPT ![c] = "receive"]
        /\ lamport' = [lamport EXCEPT ![c] = @ + 1]
        /\ up' = [up EXCEPT ![c] = Append(@, lamport'[c])]
        /\ UNCHANGED <<server, accepted, down, link, message, current_id>>
    BY <1>2 DEF notify_ready_shutdown, Send, Tick
  <2>2. lamport'[c] = 1
    BY <2>1 DEF ClientClocks, TypeOK
  <2>3. up' \in [Clients -> Seq({1, 5, 9})]
    BY <2>1, <2>2 DEF TypeOK
  <2>4. \A d \in Clients : \A i \in 1 .. Len(up'[d]) :
            (i \in 1 .. Len(up[d]) /\ up'[d][i] = up[d][i]) \/ up'[d][i] = 1
    BY <2>1, <2>2 DEF TypeOK
  <2>5. TypeOK' /\ ServerClock' /\ ClientClocks'
    BY <2>1, <2>2, <2>3 DEF TypeOK, ServerClock, ClientClocks, Clients, ClientStates, Ended
  <2>6. Upward' /\ Downward'
    BY <2>1, <2>4 DEF TypeOK, Upward, Downward, Acknowledged, Clients
  <2> QED
    BY <2>5, <2>6
<1>3. CASE client_receive(c)
  <2>1. /\ client[c] = "receive" /\ down[c] # <<>> /\ 1 \in 1 .. Len(down[c])
        /\ down' = [down EXCEPT ![c] = Tail(@)] /\ Head(down[c]) = down[c][1]
        /\ UNCHANGED <<server, accepted, up, link, message, current_id>>
        /\ \/ /\ down[c][1] = Expected(c)
              /\ lamport' = [lamport EXCEPT ![c] = Adjusted(c, down[c][1])]
              /\ client' = [client EXCEPT ![c] = "ack"]
           \/ lamport' = lamport /\ client' = client
    BY <1>3 DEF client_receive, TypeOK
  <2>2. down[c][1] = Expected(c) => Adjusted(c, down[c][1]) = Expected(c) + 1
    BY <2>1 DEF Adjusted, ClientClocks, Expected, Clients
  <2>3. down' \in [Clients -> Seq({3, 7})]
    BY <2>1 DEF TypeOK
  <2>4. \A d \in Clients : \A i \in 1 .. Len(down'[d]) :
            \E j \in 1 .. Len(down[d]) : down'[d][i] = down[d][j]
    <3>1. \A i \in 1 .. Len(down'[c]) : i + 1 \in 1 .. Len(down[c]) /\ down'[c][i] = down[c][i + 1]
      BY <2>1 DEF TypeOK
    <3>2. \A d \in Clients : d # c => down'[d] = down[d]
      BY <2>1 DEF TypeOK
    <3> QED
      BY <3>1, <3>2
  <2>5. down[c][1] = Expected(c) => current_id >= 1 /\ (c = "P3" => current_id >= 2)
    <3>1. (down[c][1] = 3 /\ current_id >= 1) \/ (down[c][1] = 7 /\ current_id >= 2)
      BY <2>1 DEF Downward
    <3> QED
      BY <3>1 DEF TypeOK, Expected, Clients
  <2>6. lamport' \in [Clients \cup {"P2"} -> 0 .. 10] /\ client' \in [Clients -> ClientStates]
    BY <2>1, <2>2 DEF TypeOK, Expected, ClientStates, Clients
  <2>7. TypeOK' /\ ServerClock'
    BY <2>1, <2>3, <2>6 DEF TypeOK, ServerClock, Clients
  <2>8. ClientClocks'
    BY <2>1, <2>2 DEF TypeOK, ClientClocks, Clients
  <2>9. Upward'
    BY <2>1 DEF TypeOK, Upward, Acknowledged, Clients
  <2>10. Downward'
    <3>1. \A d \in Clients : \A i \in 1 .. Len(down'[d]) :
              (down'[d][i] = 3 /\ current_id' >= 1) \/ (down'[d][i] = 7 /\ current_id' >= 2)
      BY <2>1, <2>4 DEF Downward
    <3>2. /\ client'["P1"] \in {"ack", "close", "ended"} => current_id' >= 1
          /\ client'["P3"] \in {"ack", "close", "ended"} => current_id' >= 2
      BY <2>1, <2>5 DEF TypeOK, Downward, Clients
    <3> QED
      BY <3>1, <3>2 DEF Downward
  <2> QED
    BY <2>7, <2>8, <2>9, <2>10
<1>4. CASE notify_shutdown_ack(c)
  <2>1. /\ client[c] = "ack" /\ client' = [client EXCEPT ![c] = "close"]
        /\ lamport' = [lamport EXCEPT ![c] = @ + 1]
        /\ up' = [up EXCEPT ![c] = Append(@, lamport'[c])]
        /\ UNCHANGED <<server, accepted, down, link, message, current_id>>
    BY <1>4 DEF notify_shutdown_ack, Send, Tick
  <2>2. lamport'[c] = Ack(c) /\ Ack(c) \in {5, 9}
    BY <2>1 DEF ClientClocks, TypeOK, Ack, Expected, Clients
  <2>3. up' \in [Clients -> Seq({1, 5, 9})]
    BY <2>1, <2>2 DEF TypeOK
  <2>4. \A d \in Clients : \A i \in 1 .. Len(up'[d]) :
            (i \in 1 .. Len(up[d]) /\ up'[d][i] = up[d][i]) \/ (d = c /\ up'[d][i] = Ack(c))
    BY <2>1, <2>2 DEF TypeOK
  <2>5. TypeOK' /\ ServerClock' /\ ClientClocks'
    <3>1. lamport' \in [Clients \cup {"P2"} -> 0 .. 10] /\ client' \in [Clients -> ClientStates]
      BY <2>1, <2>2 DEF TypeOK, ClientStates
    <3>2. TypeOK' /\ ServerClock'
      BY <2>1, <2>3, <3>1 DEF TypeOK, ServerClock, Clients
    <3>3. ClientClocks'
      BY <2>1, <2>2 DEF TypeOK, ClientClocks, Clients
    <3> QED
      BY <3>2, <3>3
  <2>6. /\ \A d \in Clients : Acknowledged(d) => client'[d] \in {"close", "ended"}
        /\ client'[c] = "close"
    BY <2>1 DEF TypeOK, Acknowledged
  <2>7. Upward'
    BY <2>1, <2>4, <2>6 DEF Upward, Acknowledged, Clients
  <2>8. Downward'
    BY <2>1 DEF TypeOK, Downward, Clients
  <2> QED
    BY <2>5, <2>7, <2>8
<1>5. CASE Close(c) \/ Die(c)
  <2>1. /\ link' = [link EXCEPT ![c] = LinkAfterClose(c)]
        /\ LinkAfterClose(c) \in {"closed", "reset"}
        /\ UNCHANGED <<server, lamport, accepted, up, down, message, current_id>>
        /\ \/ client[c] = "close" /\ client' = [client EXCEPT ![c] = "ended"]
           \/ /\ client[c] \in {"ready", "receive", "ack"}
              /\ client' = [client EXCEPT ![c] = "dead"]
    BY <1>5 DEF Close, Die, LinkAfterClose
  <2>2. TypeOK' /\ ServerClock'
    BY <2>1 DEF TypeOK, ServerClock, ClientStates
  <2>3. ClientClocks'
    BY <2>1 DEF TypeOK, ClientClocks, Clients
  <2>4. Upward' /\ Downward'
    BY <2>1 DEF TypeOK, Upward, Downward, Acknowledged, Clients
  <2> QED
    BY <2>2, <2>3, <2>4
<1> QED
  BY <1>1, <1>2, <1>3, <1>4, <1>5 DEF ClientStep

\* P2 takes a message from the socket it polls, or none.
LEMMA ReceiveSteps == ASSUME Inv, ReceiveFirst \/ ReceiveSecond PROVE Inv'
<1> USE DEF Inv
<1>1. PICK c \in Clients :
        /\ server' \in {"test", "recv_2", "failed"}
        /\ UNCHANGED <<client, lamport, accepted, down, link, current_id>>
        /\ \/ /\ up[c] # <<>> /\ message' = Head(up[c])
              /\ up' = [up EXCEPT ![c] = Tail(@)]
           \/ message' = message /\ up' = up
  <2>1. server \in {"recv_1", "recv_2"}
    BY DEF ReceiveFirst, ReceiveSecond
  <2>2. accepted[1] \in Clients /\ accepted[2] \in Clients
    BY <2>1 DEF TypeOK, ServerClock
  <2>3. CASE ReceiveFirst
    BY <2>2, <2>3 DEF ReceiveFirst, Receive
  <2>4. CASE ReceiveSecond
    BY <2>2, <2>4 DEF ReceiveSecond, Receive
  <2> QED
    BY <2>3, <2>4
<1>2. server \in {"recv_1", "recv_2"}
  BY DEF ReceiveFirst, ReceiveSecond
<1>3. \/ message' = message
      \/ 1 \in 1 .. Len(up[c]) /\ message' = up[c][1]
  BY <1>1 DEF TypeOK
<1>4. up' \in [Clients -> Seq({1, 5, 9})] /\ message' \in {0, 1, 5, 9}
  <2>1. up[c] \in Seq({1, 5, 9}) /\ message \in {0, 1, 5, 9}
    BY DEF TypeOK
  <2>2. message' \in {0, 1, 5, 9}
    BY <1>3, <2>1
  <2>3. up[c] # <<>> => Tail(up[c]) \in Seq({1, 5, 9})
    BY <2>1
  <2>4. up' \in [Clients -> Seq({1, 5, 9})]
    <3>1. up' = up \/ (up[c] # <<>> /\ up' = [up EXCEPT ![c] = Tail(up[c])])
      BY <1>1
    <3>2. up \in [Clients -> Seq({1, 5, 9})]
      BY DEF TypeOK
    <3> QED
      BY <2>3, <3>1, <3>2
  <2> QED
    BY <2>2, <2>4
<1>5. \A d \in Clients : \A i \in 1 .. Len(up'[d]) :
          \E j \in 1 .. Len(up[d]) : up'[d][i] = up[d][j]
  <2>1. \A d \in Clients : d # c => up'[d] = up[d]
    BY <1>1 DEF TypeOK
  <2>2. up'[c] = up[c] \/ (up[c] # <<>> /\ up'[c] = Tail(up[c]))
    BY <1>1 DEF TypeOK
  <2>3. \A i \in 1 .. Len(up'[c]) : \E j \in 1 .. Len(up[c]) : up'[c][i] = up[c][j]
    <3>1. CASE up'[c] = up[c]
      BY <3>1
    <3>2. CASE up[c] # <<>> /\ up'[c] = Tail(up[c])
      <4>1. \A i \in 1 .. Len(up'[c]) : i + 1 \in 1 .. Len(up[c]) /\ up'[c][i] = up[c][i + 1]
        BY <3>2 DEF TypeOK
      <4> QED
        BY <4>1
    <3> QED
      BY <2>2, <3>1, <3>2
  <2> QED
    BY <2>1, <2>3
<1>6. TypeOK'
  <2>1. server' \in ServerStates
    BY <1>1 DEF ServerStates, Ended
  <2> QED
    BY <1>1, <1>4, <2>1 DEF TypeOK
<1>7. ClientClocks' /\ ServerClock' /\ Downward'
  BY <1>1, <1>2 DEF ClientClocks, ServerClock, Downward, Ended
<1>8. Upward'
  <2>1. \A d \in Clients : Acknowledged(d)' = Acknowledged(d)
    BY <1>1 DEF Acknowledged
  <2>2. \A d \in Clients : \A i \in 1 .. Len(up'[d]) :
            up'[d][i] = 1 \/ (up'[d][i] = Ack(d) /\ Acknowledged(d)')
    <3> TAKE d \in Clients
    <3> TAKE i \in 1 .. Len(up'[d])
    <3>1. PICK j \in 1 .. Len(up[d]) : up'[d][i] = up[d][j]
      BY <1>5
    <3>2. up[d][j] = 1 \/ (up[d][j] = Ack(d) /\ Acknowledged(d))
      BY DEF Upward
    <3> QED
      BY <2>1, <3>1, <3>2
  <2>3. /\ message' = 5 => Acknowledged("P1")
        /\ message' = 9 => Acknowledged("P3")
    BY <1>1, <1>3 DEF Upward, Ack, Expected, Clients
  <2> QED
    BY <1>1, <2>1, <2>2, <2>3 DEF Upward, Clients
<1> QED
  BY <1>6, <1>7, <1>8

\* P2 answers the first expected value with 3 and the second with 7.
LEMMA HandleStep == ASSUME Inv, Handle PROVE Inv'
<1> USE DEF Inv
<1> DEFINE said == current_id * 4 + 3
<1>1. /\ server = "test" /\ current_id \in 0 .. 2 /\ message = 4 * current_id + 1
      /\ current_id' = current_id + 1 /\ message' = 0
      /\ UNCHANGED <<client, accepted, up>>
  <2>1. server = "test" /\ message = Awaited /\ current_id' = current_id + 1 /\ message' = 0
        /\ UNCHANGED <<client, accepted, up>>
    BY DEF Handle
  <2>2. current_id \in 0 .. 2
    BY <2>1 DEF TypeOK, ServerClock, Ended
  <2>3. Awaited = 4 * current_id + 1
    BY <2>2 DEF Awaited, expected_lamport_p2
  <2> QED
    BY <2>1, <2>2, <2>3
<1>2. Adjusted("P2", message) = 4 * current_id + 2
  BY <1>1 DEF Adjusted, ServerClock
<1>3. CASE current_id = 2
  <2>1. /\ lamport' = [lamport EXCEPT !["P2"] = 10] /\ server' = "done"
        /\ down' = down /\ link' = link /\ current_id' = 3
    BY <1>1, <1>2, <1>3 DEF Handle
  <2>2. lamport' \in [Clients \cup {"P2"} -> 0 .. 10] /\ lamport'["P2"] = 10
        /\ \A c \in Clients : lamport'[c] = lamport[c]
    BY <2>1 DEF TypeOK, Clients
  <2>3. TypeOK' /\ ServerClock'
    BY <1>1, <2>1, <2>2 DEF TypeOK, ServerClock, ServerStates, Ended
  <2>4. ClientClocks' /\ Downward'
    BY <1>1, <1>3, <2>1, <2>2 DEF ClientClocks, Downward
  <2>5. Upward'
    BY <1>1, <1>3, <2>1 DEF Upward, Acknowledged
  <2> QED
    BY <2>3, <2>4, <2>5
<1>4. CASE current_id # 2
  <2>1. /\ lamport' = [lamport EXCEPT !["P2"] = said] /\ notify_shutdown_now(said)
        /\ said \in {3, 7} /\ (said = 7 => current_id = 1) /\ current_id \in {0, 1}
    BY <1>1, <1>2, <1>4 DEF Handle
  <2> HIDE DEF said
  <2>2. /\ \A c \in Clients : down'[c] = down[c] \/ down'[c] = Append(down[c], said)
        /\ down' \in [Clients -> Seq({3, 7})]
        /\ link' \in [Clients -> {"open", "closed", "broken", "reset"}]
        /\ server' \in {"recv_1", "failed"}
    BY <2>1 DEF notify_shutdown_now, LinkAfterSend, TypeOK
  <2>3. lamport' \in [Clients \cup {"P2"} -> 0 .. 10] /\ lamport'["P2"] = said
        /\ \A c \in Clients : lamport'[c] = lamport[c]
    BY <2>1 DEF TypeOK, Clients
  <2>4. TypeOK'
    BY <1>1, <2>1, <2>2, <2>3 DEF TypeOK, ServerStates, Ended
  <2>5. ServerClock'
    BY <1>1, <2>1, <2>2, <2>3 DEF ServerClock, Ended, said
  <2>6. ClientClocks'
    BY <1>1, <2>3 DEF ClientClocks
  <2>7. Upward'
    BY <1>1, <2>1 DEF Upward, Acknowledged
  <2>8. \A c \in Clients : \A i \in 1 .. Len(down'[c]) :
            \/ i \in 1 .. Len(down[c]) /\ down'[c][i] = down[c][i]
            \/ down'[c][i] = said
    <3> TAKE c \in Clients
    <3>1. down[c] \in Seq({3, 7})
      BY DEF TypeOK
    <3>2. CASE down'[c] = down[c]
      BY <3>2
    <3>3. CASE down'[c] = Append(down[c], said)
      <4>1. \A i \in 1 .. Len(down'[c]) :
                i \in 1 .. Len(down[c]) \/ i = Len(down[c]) + 1
        BY <3>1, <3>3
      <4> QED
        BY <3>1, <3>3, <4>1, <2>1
    <3> QED
      BY <2>2, <3>2, <3>3
  <2>9. Downward'
    BY <1>1, <2>1, <2>8 DEF Downward
  <2> QED
    BY <2>4, <2>5, <2>6, <2>7, <2>9
<1> QED
  BY <1>3, <1>4

LEMMA InvStep == Inv /\ [Next]_vars => Inv'
<1> SUFFICES ASSUME Inv, [Next]_vars PROVE Inv'
  OBVIOUS
<1>1. CASE PollAgain
  BY <1>1 DEF PollAgain, Inv, TypeOK, ClientClocks, ServerClock, Upward, Downward,
              Acknowledged, ServerStates, Ended
<1>2. CASE UNCHANGED vars
  BY <1>2 DEF vars, Inv, TypeOK, ClientClocks, ServerClock, Upward, Downward, Acknowledged
<1> QED
  BY <1>1, <1>2, ClientSteps, ReceiveSteps, HandleStep DEF Next, ServerStep

LEMMA Invariance == Spec => []Inv
BY InvAtStart, InvStep, PTL DEF Spec

----------------------------------------------------------------------------
(* The results.                                                            *)

(***************************************************************************)
(* No clock passes 10 and no value but those of the protocol is ever sent. *)
(***************************************************************************)
THEOREM TypesAreKept == Spec => []TypeOK
BY Invariance, PTL DEF Inv

(***************************************************************************)
(* The value P2 waits for can only come from the client it is meant for,   *)
(* whatever the order of connections, polls and deaths.                    *)
(***************************************************************************)
THEOREM ClocksAreNames == Spec => []ClocksNameTheirSender
<1> SUFFICES ASSUME Inv PROVE ClocksNameTheirSender
  BY Invariance, PTL
<1>1. \A c \in Clients : \A v \in SentBy(c) : v = 1 \/ (v = Ack(c) /\ Acknowledged(c))
  BY DEF Inv, Upward, SentBy
<1> QED
  BY <1>1 DEF Inv, Upward, ClocksNameTheirSender, Ack, Expected, Clients

(***************************************************************************)
(* P3 never shuts down before P1 has acknowledged, and P2 never reports    *)
(* success before both have.                                               *)
(***************************************************************************)
THEOREM ShutdownIsInOrder == Spec => []ShutdownInOrder
<1> SUFFICES ASSUME Inv PROVE ShutdownInOrder
  BY Invariance, PTL
<1> QED
  BY DEF Inv, TypeOK, ServerClock, Upward, Downward, ShutdownInOrder, Ended
=============================================================================
