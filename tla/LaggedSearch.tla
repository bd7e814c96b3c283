---------------------------- MODULE LaggedSearch -----------------------------
(***************************************************************************)
(* What a user of the search page can count on, without cookies, queues or *)
(* messages.  Each search is answered at most once or fails.  An answer is *)
(* computed from a position and from topics that were given for searches   *)
(* of this browser: within a tab, a position of an EARLIER search and      *)
(* topics that are not from a later one.  It is a weak promise, and it is  *)
(* all that the eager calls of the click handler leave.                    *)
(***************************************************************************)
EXTENDS Naturals, Sequences

CONSTANTS MaxSearches, Tabs

VARIABLES
    searches,   \* searches[i]: the tab of the i-th search
    open,       \* searches that are not answered yet
    shown       \* shown[t]: the answer tab t holds

vars == <<searches, open, shown>>

None == [search |-> 0, latlon |-> 0, topics |-> 0]

Init ==
    /\ searches = <<>>
    /\ open = {}
    /\ shown = [t \in Tabs |-> None]

Ask(t) ==
    /\ Len(searches) < MaxSearches
    /\ searches' = Append(searches, t)
    /\ open' = open \cup {Len(searches) + 1}
    /\ UNCHANGED shown

(* j's position and k's topics may be what search i is answered from. *)
Admissible(i, j, k) ==
    /\ {j, k} \subseteq DOMAIN searches
    /\ searches[j] = searches[i] => j < i
    /\ searches[k] = searches[i] => k <= i

Answer(i, j, k) ==
    /\ i \in open
    /\ Admissible(i, j, k)
    /\ open' = open \ {i}
    /\ shown' = [shown EXCEPT ![searches[i]] = [search |-> i, latlon |-> j, topics |-> k]]
    /\ UNCHANGED searches

Fail(i) ==
    /\ i \in open
    /\ open' = open \ {i}
    /\ shown' = [shown EXCEPT ![searches[i]] = None]
    /\ UNCHANGED searches

(* The pages of the tabs T go away, with the searches they wait for. *)
Drop(T) ==
    /\ open' = {i \in open : searches[i] \notin T}
    /\ shown' = [t \in Tabs |-> IF t \in T THEN None ELSE shown[t]]
    /\ UNCHANGED searches

Next ==
    \/ \E t \in Tabs : Ask(t) \/ Drop({t})
    \/ Drop(Tabs)
    \/ \E i \in open : \/ Fail(i)
                       \/ \E j, k \in 1 .. MaxSearches : Answer(i, j, k)

Spec == Init /\ [][Next]_vars
==============================================================================
