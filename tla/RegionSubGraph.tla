--------------------------- MODULE RegionSubGraph ----------------------------
(***************************************************************************)
(* The article graph around a set of seed articles                         *)
(* (tourguide_flaskapp/region_subgraph.py), as operators on a region:      *)
(*    seeds   the articles it grew from                                    *)
(*    nodes   the articles of the DiGraph                                  *)
(*    edges   its links, <<from, to>>                                      *)
(*    ib, ob  the articles whose inbound, outbound links were fetched      *)
(*    dists   the distances looked up so far, Unplaced where there is none *)
(*                                                                         *)
(* Wikipedia is the record w of a query: w.links, w.title (the article a   *)
(* requested title resolves to: the API answers under that name), and      *)
(* w.coords (the distances of an article's coordinates from the user).     *)
(***************************************************************************)
EXTENDS Integers, FiniteSets

CONSTANTS
    Articles,
    Blacklist,               \* what filter_nodes_by_blacklist takes out
    Distances,
    MaxDist                  \* max_dist

ASSUME DistancesAssumption == Distances \subseteq Nat /\ MaxDist \in Nat
ASSUME BlacklistAssumption == Blacklist \subseteq Articles

Unplaced == -1

Links == Articles \X Articles

Regions ==
    [seeds : SUBSET Articles, nodes : SUBSET Articles, edges : SUBSET Links,
     ib : SUBSET Articles, ob : SUBSET Articles,
     dists : UNION {[S -> Distances \cup {Unplaced}] : S \in SUBSET Articles}]

(* add_seeds() on a new region. *)
NewRegion(S) ==
    [seeds |-> S, nodes |-> S, edges |-> {}, ib |-> {}, ob |-> {},
     dists |-> [n \in {} |-> Unplaced]]

add_edges_from(r, E) ==
    [r EXCEPT !.edges = @ \cup E,
              !.nodes = @ \cup {e[1] : e \in E} \cup {e[2] : e \in E}]

remove_nodes_from(r, S) ==
    [r EXCEPT !.nodes = @ \ S,
              !.edges = {e \in @ : e[1] \notin S /\ e[2] \notin S}]

(* Faulty variant: what was visited in one direction is done with. *)
nodes_to_visit_union(r, inbound, outbound) ==
    r.nodes \ ((IF inbound THEN r.ib ELSE {}) \cup (IF outbound THEN r.ob ELSE {}))

(* dilate(inbound, outbound) visits these nodes, in both directions. *)
nodes_to_visit(r, inbound, outbound) ==
    r.nodes \ CASE inbound /\ outbound  -> r.ib \cap r.ob
                [] inbound /\ ~outbound -> r.ib
                [] ~inbound /\ outbound -> r.ob
                [] OTHER                -> r.nodes

(* What the link finders answer for the titles V: edges under the names    *)
(* the titles resolve to.                                                  *)
OutLinks(w, V) == {e \in w.links : \E n \in V : w.title[n] = e[1]}
InLinks(w, V) == {e \in w.links : \E n \in V : w.title[n] = e[2]}

(* The two halves of dilate(), given what the finders answered for V. *)
dilate_outbound(r, V, E) == [add_edges_from(r, E) EXCEPT !.ob = @ \cup V]
dilate_inbound(r, V, E) == [add_edges_from(r, E) EXCEPT !.ib = @ \cup V]

filter_nodes_by_blacklist(r) == remove_nodes_from(r, Blacklist \ r.seeds)

nodes_without_dists(r) == r.nodes \ DOMAIN r.dists

(* The coordinate finder's answer: pairs of an article and a distance. *)
Placements(w, V) ==
    {p \in Articles \X Distances : \E n \in V : w.title[n] = p[1] /\ p[2] \in w.coords[p[1]]}

(* Faulty variant: the last of the distances instead of the nearest. *)
Farthest(P, n) ==
    LET D == {p[2] : p \in {q \in P : q[1] = n}} IN
    IF D = {} THEN Unplaced ELSE CHOOSE d \in D : \A e \in D : d >= e

(* The nearest of the distances that the pairs P give for n. *)
Nearest(P, n) ==
    LET D == {p[2] : p \in {q \in P : q[1] = n}} IN
    IF D = {} THEN Unplaced ELSE CHOOSE d \in D : \A e \in D : d <= e

update_dists(r, P) ==
    LET fresh == nodes_without_dists(r) \cup {p[1] : p \in P} IN
    [r EXCEPT !.dists = [n \in DOMAIN @ \cup fresh |->
                            IF n \in fresh THEN Nearest(P, n) ELSE @[n]]]

(* Faulty variant: far seeds go, too. *)
filter_nodes_by_distance_seeds(r, P) ==
    remove_nodes_from(update_dists(r, P),
        {n \in nodes_without_dists(r) : Nearest(P, n) > MaxDist})

(* Faulty variant: nodes go, their links stay. *)
filter_nodes_by_distance_links(r, P) ==
    [update_dists(r, P) EXCEPT
        !.nodes = @ \ ({n \in nodes_without_dists(r) : Nearest(P, n) > MaxDist} \ r.seeds)]

(* Faulty variant: asks for the new nodes when their distances are known. *)
filter_nodes_by_distance_after(r, P) ==
    LET u == update_dists(r, P) IN
    remove_nodes_from(u, {n \in nodes_without_dists(u) : Nearest(P, n) > MaxDist} \ r.seeds)

(* Only nodes whose distance is new are considered, and seeds are spared. *)
filter_nodes_by_distance(r, P) ==
    remove_nodes_from(update_dists(r, P),
        {n \in nodes_without_dists(r) : Nearest(P, n) > MaxDist} \ r.seeds)
==============================================================================
