------------------------------ MODULE MCBroker ------------------------------
(***************************************************************************)
(* Instances of Broker: publishers and two or three subscribers of one     *)
(* topic, or a third subscriber on a topic of its own.                     *)
(***************************************************************************)
EXTENDS Broker

CONSTANTS s1, s2, s3, p1, p2, t1, t2

MCOneTopic == [c \in Clients |-> t1]
MCTwoTopics == [c \in Clients |-> IF c = s3 THEN t2 ELSE t1]

MCEverybody == [m \in Modes |-> {Clients}]
\* One publisher and two subscribers, or three in secuencial; and in paralelo
\* two publishers and a subscriber.
MCChurn ==
    [m \in Modes |-> CASE m = "secuencial" -> {Clients \ {p2}}
                       [] m = "paralelo" -> {Clients \ {s3, p2}, Clients \ {s2, s3}}
                       [] m = "justo" -> {Clients \ {s3, p2}}]
\* Two subscribers and two publishers, or three and one.
MCTwoOrThree == [m \in Modes |-> {Clients \ {s3}, Clients \ {p2}}]
=============================================================================
