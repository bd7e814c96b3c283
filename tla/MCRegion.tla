------------------------------- MODULE MCRegion -------------------------------
(* Region for TLC: chains of links around a place, one article of them far *)
(* away, one a redirect or not.                                            *)
EXTENDS Region

CONSTANTS place, bridge, next, last

TwoDistances == {0, 2}
Itself == [n \in Articles |-> n]

Pool == 
    {<<place, bridge>>, <<bridge, place>>, <<next, bridge>>, <<bridge, next>>,
     <<next, last>>, <<place, last>>}

Worlds ==
    {[links |-> L, title |-> t, nearby |-> {place},
      coords |-> [n \in Articles |-> IF n = far THEN {2} ELSE {}]] :
        L \in SUBSET Pool, t \in {Itself, [Itself EXCEPT ![last] = bridge]},
        far \in {bridge, next}}
==============================================================================
