------------------------------- MODULE PubSub -------------------------------
(***************************************************************************)
(* What the broker of practica4 promises, with no table, thread or socket: *)
(* a message posted on a topic is owed to everyone who is a member at that *)
(* moment, and each of them gets it once.                                  *)
(***************************************************************************)
EXTENDS Naturals, Sequences

CONSTANTS Subscribers, Publishers, TopicOf

VARIABLES
    members,    \* subscribers that are registered
    posted,     \* number of messages each publisher has posted
    owed,       \* messages on their way to each subscriber
    got         \* messages each subscriber has received

vars == <<members, posted, owed, got>>

Init ==
    /\ members = {}
    /\ posted = [p \in Publishers |-> 0]
    /\ owed = [s \in Subscribers |-> {}]
    /\ got = [s \in Subscribers |-> <<>>]

Join(s) ==
    /\ s \notin members
    /\ members' = members \cup {s}
    /\ UNCHANGED <<posted, owed, got>>

Leave(s) ==
    /\ s \in members
    /\ members' = members \ {s}
    /\ UNCHANGED <<posted, owed, got>>

Post(p) ==
    LET m == [pub |-> p, seq |-> posted[p] + 1]
    IN  /\ posted' = [posted EXCEPT ![p] = @ + 1]
        /\ owed' = [s \in Subscribers |->
                       IF s \in members /\ TopicOf[s] = TopicOf[p] THEN owed[s] \cup {m}
                       ELSE owed[s]]
        /\ UNCHANGED <<members, got>>

Deliver(s) ==
    /\ \E m \in owed[s] :
          /\ owed' = [owed EXCEPT ![s] = @ \ {m}]
          /\ got' = [got EXCEPT ![s] = Append(@, m)]
    /\ UNCHANGED <<members, posted>>

Next ==
    \/ \E s \in Subscribers : Join(s) \/ Leave(s) \/ Deliver(s)
    \/ \E p \in Publishers : Post(p)

Spec == Init /\ [][Next]_vars

\* Whatever is owed is delivered.
FairSpec == Spec /\ \A s \in Subscribers : WF_vars(Deliver(s))
=============================================================================
