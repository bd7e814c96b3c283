------------------------ MODULE RegionSubGraphProofs -------------------------
(***************************************************************************)
(* What the operators of RegionSubGraph add, take and keep, for the proofs *)
(* about ArticleNetwork and Region.                                        *)
(***************************************************************************)
EXTENDS RegionSubGraph, WellFoundedInduction, TLAPS

(* Once a graph was filtered, only its seeds may be blacklisted. *)
Filtered(r) == r.nodes \cap Blacklist \subseteq r.seeds

(* The articles that links are between. *)
Ends(E) == UNION {{e[1], e[2]} : e \in E}

Grown(r, q) == q.seeds = r.seeds /\ r.nodes \subseteq q.nodes

LEMMA NewRegionFacts ==
    ASSUME NEW S \in SUBSET Articles
    PROVE  /\ NewRegion(S) \in Regions
           /\ NewRegion(S).seeds = S /\ NewRegion(S).nodes = S /\ NewRegion(S).edges = {}
<1>1. [n \in {} |-> Unplaced] \in UNION {[T -> Distances \cup {Unplaced}] : T \in SUBSET Articles}
    <2>1. [n \in {} |-> Unplaced] \in [{} -> Distances \cup {Unplaced}]
        OBVIOUS
    <2>2. QED
        BY <2>1
<1>2. QED
    BY <1>1 DEF NewRegion, Regions

LEMMA AddEdgesFacts ==
    ASSUME NEW r \in Regions, NEW E \in SUBSET Links
    PROVE  LET q == add_edges_from(r, E) IN
           /\ q \in Regions /\ Grown(r, q)
           /\ q.edges = r.edges \cup E
<1>1. {e[1] : e \in E} \subseteq Articles /\ {e[2] : e \in E} \subseteq Articles
    BY DEF Links
<1>2. QED
    BY <1>1 DEF add_edges_from, Regions, Grown

LEMMA DilateFacts ==
    ASSUME NEW r \in Regions, NEW V \in SUBSET Articles, NEW E \in SUBSET Links,
           NEW q \in {dilate_outbound(r, V, E), dilate_inbound(r, V, E)}
    PROVE  /\ q \in Regions /\ Grown(r, q)
           /\ q.edges = r.edges \cup E
<1> DEFINE a == add_edges_from(r, E)
<1>1. a \in Regions /\ Grown(r, a) /\ a.edges = r.edges \cup E
    BY AddEdgesFacts
<1>2. q = [a EXCEPT !.ob = @ \cup V] \/ q = [a EXCEPT !.ib = @ \cup V]
    BY DEF dilate_outbound, dilate_inbound
<1> HIDE DEF a
<1>3. QED
    BY <1>1, <1>2 DEF Regions, Grown

LEMMA RemoveFacts ==
    ASSUME NEW r \in Regions, NEW S
    PROVE  LET q == remove_nodes_from(r, S) IN
           /\ q \in Regions
           /\ q.seeds = r.seeds /\ q.dists = r.dists
           /\ q.nodes = r.nodes \ S
           /\ q.edges \subseteq r.edges
BY DEF remove_nodes_from, Regions

(* A set of distances that is not empty has a least element. *)
LEMMA LeastDistance ==
    ASSUME NEW D \in SUBSET Nat, D # {}
    PROVE  \E d \in D : \A e \in D : d <= e
<1> DEFINE R == OpToRel(<, Nat)
<1>1. IsWellFoundedOn(R, Nat)
    BY NatLessThanWellFounded
<1>2. \A d, e \in Nat : ~(<<e, d>> \in R) => d <= e
    <2>1. \A d, e \in Nat : e < d => <<e, d>> \in R
        BY DEF OpToRel
    <2>2. \A d, e \in Nat : ~(e < d) => d <= e
        OBVIOUS
    <2>3. QED
        BY <2>1, <2>2
<1> HIDE DEF R
<1>3. \E d \in D : \A e \in D : ~(<<e, d>> \in R)
    BY <1>1, WFMin
<1>4. QED
    BY <1>2, <1>3

LEMMA NearestTyped ==
    ASSUME NEW P \in SUBSET (Articles \X Distances), NEW n
    PROVE  Nearest(P, n) \in Distances \cup {Unplaced}
<1> DEFINE D == {p[2] : p \in {q \in P : q[1] = n}}
<1>1. D \subseteq Distances /\ D \subseteq Nat
    BY DistancesAssumption
<1>2. Nearest(P, n) = IF D = {} THEN Unplaced ELSE CHOOSE d \in D : \A e \in D : d <= e
    BY DEF Nearest
<1> HIDE DEF D
<1>3. D # {} => \E d \in D : \A e \in D : d <= e
    BY <1>1, LeastDistance
<1>4. QED
    BY <1>1, <1>2, <1>3

LEMMA UpdateFacts ==
    ASSUME NEW r \in Regions, NEW P \in SUBSET (Articles \X Distances)
    PROVE  LET q == update_dists(r, P) IN
           /\ q \in Regions
           /\ q.seeds = r.seeds /\ q.nodes = r.nodes /\ q.edges = r.edges
<1> DEFINE fresh == nodes_without_dists(r) \cup {p[1] : p \in P}
           f == [n \in DOMAIN r.dists \cup fresh |->
                    IF n \in fresh THEN Nearest(P, n) ELSE r.dists[n]]
<1>1. PICK S \in SUBSET Articles : r.dists \in [S -> Distances \cup {Unplaced}]
    BY DEF Regions
<1>2. fresh \subseteq Articles
    BY DEF nodes_without_dists, Regions
<1>3. f \in [S \cup fresh -> Distances \cup {Unplaced}]
    <2> HIDE DEF fresh
    <2>1. QED
        BY <1>1, NearestTyped
<1>4. update_dists(r, P) = [r EXCEPT !.dists = f]
    BY DEF update_dists
<1> HIDE DEF f, fresh
<1>5. f \in UNION {[T -> Distances \cup {Unplaced}] : T \in SUBSET Articles}
    BY <1>1, <1>2, <1>3
<1>6. QED
    BY <1>4, <1>5 DEF Regions

(* Both filters spare the seeds and add nothing. *)
Shrunk(r, q) ==
    /\ q.seeds = r.seeds
    /\ q.nodes \subseteq r.nodes /\ q.edges \subseteq r.edges
    /\ r.nodes \cap r.seeds \subseteq q.nodes

LEMMA BlacklistFacts ==
    ASSUME NEW r \in Regions
    PROVE  LET q == filter_nodes_by_blacklist(r) IN
           q \in Regions /\ Shrunk(r, q) /\ Filtered(q)
BY RemoveFacts DEF filter_nodes_by_blacklist, Shrunk, Filtered

LEMMA DistanceFacts ==
    ASSUME NEW r \in Regions, NEW P \in SUBSET (Articles \X Distances)
    PROVE  LET q == filter_nodes_by_distance(r, P) IN
           q \in Regions /\ Shrunk(r, q)
<1> DEFINE u == update_dists(r, P)
           far == {n \in nodes_without_dists(r) : Nearest(P, n) > MaxDist} \ r.seeds
<1>1. u \in Regions /\ u.seeds = r.seeds /\ u.nodes = r.nodes /\ u.edges = r.edges
    BY UpdateFacts
<1>2. filter_nodes_by_distance(r, P) = remove_nodes_from(u, far)
    BY DEF filter_nodes_by_distance
<1>3. far \cap r.seeds = {}
    OBVIOUS
<1> HIDE DEF u, far
<1>4. QED
    BY <1>1, <1>2, <1>3, RemoveFacts DEF Shrunk
==============================================================================
