-------------------------- MODULE MCArticleNetwork ---------------------------
(* ArticleNetwork for TLC: the Wikipedias of a few articles.  "Near" and   *)
(* "Far" are distances on either side of max_dist.                         *)
EXTENDS AnswerLists

CONSTANTS
    place, other,            \* articles that may be nearby
    topic, bridge,           \* a topic, and an article in between
    Pool                     \* the links there may be

Near == 0
Away == 2
TwoDistances == {Near, Away}

Itself == [n \in Articles |-> n]

(* Every choice of links from the pool; the bridge may have no, one or two *)
(* coordinates; the second place may be a redirect.                        *)
WorldsOf(nearbys, titles) ==
    {[links |-> L, title |-> f, nearby |-> N,
      coords |-> [n \in Articles |-> IF n = bridge THEN D
                                     ELSE IF n \in {place, other} THEN {Away} ELSE {}]] :
        L \in SUBSET Pool, f \in titles, N \in nearbys, D \in SUBSET TwoDistances}

Titles == {Itself} \cup {[Itself EXCEPT ![other] = n] : n \in {topic, bridge}}

AllWorlds == WorldsOf({{place}, {other}, {place, other}}, Titles)

BridgeLinks ==
    {<<place, bridge>>, <<bridge, place>>, <<bridge, topic>>, <<topic, bridge>>,
     <<place, topic>>, <<other, bridge>>, <<topic, other>>, <<other, place>>}

(* The same at a smaller scale, for answers that may be truncated. *)
FewLinks ==
    {<<place, bridge>>, <<topic, bridge>>, <<place, topic>>, <<bridge, other>>}

FewWorlds == WorldsOf({{place, other}}, {Itself, [Itself EXCEPT ![other] = topic]})

FewTopics == {{topic}, {topic, other}}

AllTopics == {{}, {topic}, {topic, place}, {topic, other}, {other}}
==============================================================================
