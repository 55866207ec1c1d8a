---------------------------- MODULE MCTopicTable ----------------------------
(***************************************************************************)
(* Instances of TopicTable: a topic with clients enough for its list to be *)
(* shifted, and a subscriber of another topic, which may fill the table.   *)
(***************************************************************************)
EXTENDS TopicTable

CONSTANTS s1, s2, s3, s4, p1, t1, t2

\* Everybody but s4 on one topic.
MCOneAndAnother == [c \in Clients |-> IF c = s4 THEN t2 ELSE t1]
=============================================================================
