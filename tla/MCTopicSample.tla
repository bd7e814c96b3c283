---------------------------- MODULE MCTopicSample ----------------------------
(* TopicSample for TLC: topics of two to four characters, one of them of   *)
(* two words, and every limit from none of them to all.                    *)
EXTENDS TopicSample

Some == {"jazz", "red sea", "UFO", "Ra"}
Lengths == [t \in Some |-> CASE t = "jazz" -> 4 [] t = "Ra" -> 2 [] OTHER -> 3]
Spaces == [t \in Some |-> IF t = "red sea" THEN {2} ELSE {}]
Limits == 0..16
==============================================================================
