----------------------------- MODULE Chat_proofs -----------------------------
(***************************************************************************)
(* However many lines are typed, ServidorSimple's users type in turn.      *)
(***************************************************************************)
EXTENDS Chat, TLAPS

Types ==
    /\ at \in [Peers -> {"accept", "connect", "send", "receive"}]
    /\ at["server"] # "connect"
    /\ buffer \in [Peers -> Nat]
    /\ DOMAIN ended = Peers

\* A line is typed, on its way, or taken; before the connection, none.
Turns ==
    (variant = "Simple" /\ \A p \in Peers : Alive(p)) =>
        IF at["client"] = "connect"
        THEN at["server"] = "accept" /\ \A q \in Peers : buffer[q] = 0
        ELSE \/ \E p \in Peers : Asked = {p} /\ \A q \in Peers : buffer[q] = 0
             \/ Asked = {} /\ buffer["server"] + buffer["client"] = 1

Inv == Types /\ Turns

LEMMA TypesStep == ASSUME Types, [Next]_vars PROVE Types'
<1> USE DEF Types, Peers, Goto
<1>1. CASE Connect \/ Accept
  BY <1>1 DEF Connect, Accept, FirstCall
<1>2. ASSUME NEW p \in Peers, Send(p) PROVE Types'
  <2>1. /\ at' = at \/ at' = [at EXCEPT ![p] = "receive"]
        /\ buffer' = buffer \/ buffer' = [buffer EXCEPT ![Other(p)] = @ + 1]
    BY <1>2 DEF Send
  <2>3. DOMAIN ended' = Peers
    BY <1>2, Zenon DEF Send
  <2>2. Other(p) \in Peers
    BY DEF Other
  <2> QED
    BY <2>1, <2>2, <2>3
<1>3. ASSUME NEW p \in Peers, Listen(p) \/ Quit(p) PROVE Types'
  <2>1. /\ at' = at \/ at' = [at EXCEPT ![p] = "send"]
        /\ buffer' = buffer \/ (buffer[p] > 0 /\ buffer' = [buffer EXCEPT ![p] = @ - 1])
    BY <1>3 DEF Listen, Receive, ReceiveEnd, SelectOther, Quit
  <2>2. DOMAIN ended' = Peers
    BY <1>3, Zenon DEF Listen, Receive, ReceiveEnd, SelectOther, Quit
  <2> QED
    BY <2>1, <2>2
<1>4. CASE UNCHANGED vars
  BY <1>4 DEF vars
<1> QED
  BY <1>1, <1>2, <1>3, <1>4 DEF Next

\* Whose turn it is passes with the line.
LEMMA TurnsStep == ASSUME Inv, [Next]_vars PROVE Turns'
<1> USE DEF Inv, Types, Peers, Goto
<1> SUFFICES ASSUME variant' = "Simple", \A p \in Peers : Alive(p)'
             PROVE  IF at'["client"] = "connect"
                    THEN at'["server"] = "accept" /\ \A q \in Peers : buffer'[q] = 0
                    ELSE \/ \E p \in Peers : Asked' = {p} /\ \A q \in Peers : buffer'[q] = 0
                         \/ Asked' = {} /\ buffer'["server"] + buffer'["client"] = 1
  BY DEF Turns
<1>1. variant = "Simple" /\ \A p \in Peers : Alive(p)
  <2>1. variant = "Simple"
    BY DEF Next, Connect, Accept, Send, Listen, Receive, ReceiveEnd, SelectOther, Quit, vars
  <2>2. \A p \in Peers : Alive(p)
    <3>1. CASE ended' = ended
      BY <3>1 DEF Alive
    <3>2. ASSUME NEW q \in Peers, Send(q) \/ Listen(q) \/ Quit(q) PROVE \A p \in Peers : Alive(p)
      <4>1. Alive(q)'
        OBVIOUS
      <4>2. ended' = ended \/ ended' = [ended EXCEPT ![q] = "error"] \/ ended' = [ended EXCEPT ![q] = "user"]
        BY <3>2 DEF Send, Listen, Receive, ReceiveEnd, SelectOther, Quit
      <4>3. ended' = ended
        BY <4>1, <4>2, Zenon DEF Alive
      <4> QED
        BY <4>3 DEF Alive
    <3> QED
      BY <3>1, <3>2 DEF Next, Connect, Accept, vars
  <2> QED
    BY <2>1, <2>2
<1>2. CASE Connect
  BY <1>1, <1>2 DEF Connect, FirstCall, Turns, Asked
<1>3. CASE Accept
  BY <1>1, <1>3 DEF Accept, FirstCall, Turns, Asked
<1>4. ASSUME NEW p \in Peers, Send(p)
      PROVE  /\ at'["client"] # "connect"
             /\ Asked' = {} /\ buffer'["server"] + buffer'["client"] = 1
  <2>1. at[p] = "send" /\ at["client"] # "connect" /\ Asked = {p} /\ \A q \in Peers : buffer[q] = 0
    BY <1>1, <1>4 DEF Send, Turns, Asked
  <2>2. at' = [at EXCEPT ![p] = "receive"] /\ buffer' = [buffer EXCEPT ![Other(p)] = @ + 1]
    BY <1>1, <1>4 DEF Send, Other
  <2>3. Asked' = {} /\ at'["client"] # "connect"
    BY <2>1, <2>2 DEF Asked
  <2>4. buffer'["server"] + buffer'["client"] = 1
    <3>1. CASE p = "server"
      BY <2>1, <2>2, <3>1 DEF Other
    <3>2. CASE p = "client"
      BY <2>1, <2>2, <3>2 DEF Other
    <3> QED
      BY <3>1, <3>2
  <2> QED
    BY <2>3, <2>4
<1>5. ASSUME NEW p \in Peers, Receive(p)
      PROVE  /\ at'["client"] # "connect"
             /\ Asked' = {p} /\ \A q \in Peers : buffer'[q] = 0
  <2>1. at[p] = "receive" /\ buffer[p] > 0 /\ buffer' = [buffer EXCEPT ![p] = @ - 1]
        /\ at' = [at EXCEPT ![p] = "send"]
    BY <1>5 DEF Receive
  <2>2. at["client"] # "connect" /\ Asked = {} /\ buffer["server"] + buffer["client"] = 1
    <3>1. ~ \A q \in Peers : buffer[q] = 0
      BY <2>1
    <3> QED
      BY <1>1, <3>1 DEF Turns
  <2>3. Asked' = {p} /\ at'["client"] # "connect"
    BY <2>1, <2>2 DEF Asked
  <2>4. \A q \in Peers : buffer'[q] = 0
    <3>1. CASE p = "server"
      BY <2>1, <2>2, <3>1
    <3>2. CASE p = "client"
      BY <2>1, <2>2, <3>2
    <3> QED
      BY <3>1, <3>2
  <2> QED
    BY <2>3, <2>4
<1>6. \A p \in Peers : ~ReceiveEnd(p) /\ ~SelectOther(p) /\ ~Quit(p)
  <2> TAKE p \in Peers
  <2>1. ~ReceiveEnd(p)
    BY <1>1 DEF ReceiveEnd, Other
  <2>2. ~SelectOther(p)
    BY <1>1 DEF SelectOther, TimesOut
  <2>3. ~Quit(p)
    <3>1. Alive(p)'
      OBVIOUS
    <3> QED
      BY <3>1, Zenon DEF Quit, Alive
  <2> QED
    BY <2>1, <2>2, <2>3
<1>7. CASE UNCHANGED vars
  BY <1>1, <1>7 DEF vars, Turns, Asked
<1> QED
  BY <1>2, <1>3, <1>4, <1>5, <1>6, <1>7 DEF Next, Listen

(***************************************************************************)
(* The blocking loops of ServidorSimple's server and client never wait for *)
(* each other, and no two lines are on their way.                          *)
(***************************************************************************)
THEOREM UsersTakeTurns == Spec => []OneTurn
<1>1. Init => Inv
  <2> SUFFICES ASSUME Init PROVE Inv
    OBVIOUS
  <2>1. Types /\ at["client"] = "connect" /\ at["server"] = "accept" /\ \A q \in Peers : buffer[q] = 0
    BY DEF Init, Types, Peers
  <2> QED
    BY <2>1 DEF Inv, Turns
<1>2. Inv /\ [Next]_vars => Inv'
  BY TypesStep, TurnsStep DEF Inv
<1>3. Inv => OneTurn
  BY DEF Inv, Turns, OneTurn
<1> QED
  BY <1>1, <1>2, <1>3, PTL DEF Spec
=============================================================================
