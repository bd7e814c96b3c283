----------------------------- MODULE RegionProofs -----------------------------
(***************************************************************************)
(* Theorems about Region for any articles, any Wikipedia and any sequence  *)
(* of calls: its type invariant, that what is marked as visited was        *)
(* expanded, that only articles that came late are far, and that a region  *)
(* is a ball of as many links as it has been dilated.                      *)
(***************************************************************************)
EXTENDS Region, RegionSubGraphProofs

(* FarOnlyIfLate at every moment: where distances are known, the far       *)
(* articles are late; and a filter leaves no distance unknown.             *)
FarKnown ==
    \A n \in (region.nodes \ region.seeds) \cap DOMAIN region.dists :
        Far(n) /\ wiki.title[n] = n => n \in late

AllKnown == filtered => region.nodes \subseteq DOMAIN region.dists

(* A call under way is started and not completed, and no filter came after. *)
UnderWay == visit.todo # {} => completed < started /\ ~filtered

Inv == TypeOK /\ UnderWay /\ VisitedExpanded /\ FarKnown /\ AllKnown
------------------------------------------------------------------------------
LEMMA WikiTyped ==
    ASSUME TypeOK
    PROVE  /\ wiki.links \subseteq Links
           /\ wiki.coords \in [Articles -> SUBSET Distances]
           /\ \A V : OutLinks(wiki, V) \in SUBSET Links /\ InLinks(wiki, V) \in SUBSET Links
           /\ \A V : Placements(wiki, V) \in SUBSET (Articles \X Distances)
<1>1. wiki.links \subseteq Links /\ wiki.coords \in [Articles -> SUBSET Distances]
    BY WikisAssumption DEF TypeOK
<1>2. \A V : OutLinks(wiki, V) \in SUBSET Links /\ InLinks(wiki, V) \in SUBSET Links
    BY <1>1 DEF OutLinks, InLinks
<1>3. \A V : Placements(wiki, V) \in SUBSET (Articles \X Distances)
    BY DEF Placements
<1>4. QED
    BY <1>1, <1>2, <1>3

------------------------------------------------------------------------------
(* The recursive function in Ball exists: it is put together from its      *)
(* beginnings, which agree.                                                *)

LEMMA NatSetInduction ==
    ASSUME NEW T \in SUBSET Nat, 0 \in T, \A n \in T : n + 1 \in T
    PROVE  T = Nat
<1>1. SUFFICES ASSUME Nat \ T # {} PROVE FALSE
    OBVIOUS
<1>2. PICK m \in Nat \ T : \A e \in Nat \ T : m <= e
    BY <1>1, LeastDistance
<1>3. m # 0 /\ m - 1 \in Nat
    BY <1>2
<1>4. m - 1 \in T
    BY <1>2, <1>3
<1>5. QED
    BY <1>2, <1>3, <1>4

BallUpTo(w, S, n) ==
    {g \in [0..n -> SUBSET Articles] :
        g[0] = S /\ \A k \in 1..n : g[k] = Expand(w, g[k - 1])}

LEMMA ExpandTyped ==
    ASSUME NEW w \in Wikis, NEW B \in SUBSET Articles
    PROVE  Expand(w, B) \in SUBSET Articles
<1>1. OutLinks(w, B) \cup InLinks(w, B) \subseteq Links
    BY WikisAssumption DEF OutLinks, InLinks
<1>2. QED
    BY <1>1 DEF Expand, Links

LEMMA BeginningsExist ==
    ASSUME NEW w \in Wikis, NEW S \in SUBSET Articles, NEW n \in Nat
    PROVE  BallUpTo(w, S, n) # {}
<1> DEFINE T == {i \in Nat : BallUpTo(w, S, i) # {}}
<1>1. 0 \in T
    <2>1. [k \in 0..0 |-> S] \in BallUpTo(w, S, 0)
        BY DEF BallUpTo
    <2>2. QED
        BY <2>1
<1>2. ASSUME NEW i \in T
      PROVE  i + 1 \in T
    <2>1. PICK g \in BallUpTo(w, S, i) : TRUE
        OBVIOUS
    <2> DEFINE h == [k \in 0..(i + 1) |-> IF k = i + 1 THEN Expand(w, g[i]) ELSE g[k]]
    <2>2. g \in [0..i -> SUBSET Articles] /\ g[0] = S /\ i \in Nat
        BY DEF BallUpTo
    <2>3. Expand(w, g[i]) \in SUBSET Articles
        BY <2>2, ExpandTyped
    <2>4. h \in [0..(i + 1) -> SUBSET Articles]
        BY <2>2, <2>3
    <2>5. h[0] = S
        BY <2>2
    <2>6. ASSUME NEW k \in 1..(i + 1)
          PROVE  h[k] = Expand(w, h[k - 1])
        <3>1. k - 1 \in 0..i /\ k - 1 # i + 1
            BY <2>2
        <3>2. h[k - 1] = g[k - 1]
            BY <2>2, <3>1
        <3>3. CASE k = i + 1
            BY <2>2, <3>2, <3>3
        <3>4. CASE k # i + 1
            <4>1. k \in 1..i
                BY <2>2, <3>4
            <4>2. h[k] = g[k] /\ g[k] = Expand(w, g[k - 1])
                BY <2>2, <3>4, <4>1 DEF BallUpTo
            <4>3. QED
                BY <3>2, <4>2
        <3>5. QED
            BY <3>3, <3>4
    <2> HIDE DEF h
    <2>7. h \in BallUpTo(w, S, i + 1)
        BY <2>4, <2>5, <2>6 DEF BallUpTo
    <2>8. QED
        BY <2>2, <2>7
<1> HIDE DEF T
<1>3. T = Nat
    <2>1. T \in SUBSET Nat
        BY DEF T
    <2>2. QED
        BY <1>1, <1>2, <2>1, NatSetInduction
<1>4. QED
    BY <1>3 DEF T

LEMMA BeginningsAgree ==
    ASSUME NEW w, NEW S, NEW m \in Nat, NEW n \in Nat,
           NEW g \in BallUpTo(w, S, m), NEW h \in BallUpTo(w, S, n),
           NEW k \in Nat, k <= m, k <= n
    PROVE  g[k] = h[k]
<1> DEFINE T == {i \in Nat : i <= m /\ i <= n => g[i] = h[i]}
<1>1. 0 \in T
    BY DEF BallUpTo
<1>2. ASSUME NEW i \in T
      PROVE  i + 1 \in T
    <2>1. i \in Nat /\ (i + 1) - 1 = i
        OBVIOUS
    <2>2. SUFFICES ASSUME i + 1 <= m, i + 1 <= n PROVE g[i + 1] = h[i + 1]
        BY <2>1
    <2>3. g[i] = h[i]
        BY <2>1, <2>2
    <2>4. i + 1 \in 1..m /\ i + 1 \in 1..n
        BY <2>1, <2>2
    <2>5. g[i + 1] = Expand(w, g[(i + 1) - 1]) /\ h[i + 1] = Expand(w, h[(i + 1) - 1])
        BY <2>4 DEF BallUpTo
    <2>6. QED
        BY <2>1, <2>3, <2>5
<1> HIDE DEF T
<1>3. T = Nat
    <2>1. T \in SUBSET Nat
        BY DEF T
    <2>2. QED
        BY <1>1, <1>2, <2>1, NatSetInduction
<1>4. QED
    BY <1>3 DEF T

(* What Ball is, by its recursion. *)
LEMMA BallIs ==
    ASSUME NEW w \in Wikis, NEW S \in SUBSET Articles
    PROVE  /\ Ball(w, S)[0] = S
           /\ \A k \in Nat : Ball(w, S)[k + 1] = Expand(w, Ball(w, S)[k])
<1> DEFINE beginning(n) == CHOOSE g \in BallUpTo(w, S, n) : TRUE
           f == [n \in Nat |-> beginning(n)[n]]
           Recursion(b) == b = [k \in Nat |-> IF k = 0 THEN S ELSE Expand(w, b[k - 1])]
<1>1. \A n \in Nat : beginning(n) \in BallUpTo(w, S, n)
    BY BeginningsExist
<1> HIDE DEF beginning
<1>2. f[0] = S
    BY <1>1 DEF BallUpTo
<1>3. ASSUME NEW k \in Nat, k # 0
      PROVE  f[k] = Expand(w, f[k - 1])
    <2>1. k - 1 \in Nat /\ k \in 1..k
        BY <1>3
    <2>2. beginning(k)[k] = Expand(w, beginning(k)[k - 1])
        BY <1>1, <2>1 DEF BallUpTo
    <2>3. beginning(k)[k - 1] = beginning(k - 1)[k - 1]
        BY <1>1, <2>1, BeginningsAgree
    <2>4. QED
        BY <2>1, <2>2, <2>3
<1>4. Recursion(f)
    <2>1. \A k \in Nat : f[k] = IF k = 0 THEN S ELSE Expand(w, f[k - 1])
        BY <1>2, <1>3
    <2>2. f = [k \in Nat |-> f[k]]
        OBVIOUS
    <2> HIDE DEF f
    <2>3. QED
        BY <2>1, <2>2
<1> HIDE DEF f
<1>5. Ball(w, S) = CHOOSE b : Recursion(b)
    BY DEF Ball
<1>6. Recursion(Ball(w, S))
    BY <1>4, <1>5, Zenon DEF Recursion
<1>7. QED
    BY <1>6

------------------------------------------------------------------------------
(* A graph: links are between nodes. *)
Graph(r) == r.edges \subseteq r.nodes \X r.nodes

LEMMA InitInv == Init => Inv
<1> SUFFICES ASSUME Init PROVE Inv
    OBVIOUS
<1>1. /\ wiki \in Wikis /\ region = NewRegion(wiki.nearby)
      /\ visit = [nodes |-> {}, todo |-> {}, both |-> FALSE]
      /\ removed = {} /\ late = {} /\ started = 0 /\ completed = 0 /\ filtered = FALSE
    BY DEF Init
<1>2. wiki.nearby \in SUBSET Articles
    BY <1>1, WikisAssumption
<1>3. region \in Regions /\ region.edges = {}
    BY <1>1, <1>2, NewRegionFacts
<1>4. region.ob = {} /\ region.ib = {} /\ DOMAIN region.dists = {}
    BY <1>1 DEF NewRegion
<1>5. TypeOK
    <2>1. visit \in [nodes : SUBSET Articles, todo : SUBSET {"ob", "ib"}, both : BOOLEAN]
        BY <1>1
    <2>2. started \in 0..MaxDilations /\ completed \in 0..started
        BY <1>1, DilationsAssumption
    <2>3. filtered \in BOOLEAN
        BY <1>1
    <2>4. QED
        BY <1>1, <1>3, <2>1, <2>2, <2>3 DEF TypeOK
<1>6. VisitedExpanded
    BY <1>4 DEF VisitedExpanded, OutLinks, InLinks
<1>7. FarKnown /\ AllKnown /\ UnderWay
    BY <1>1, <1>4 DEF FarKnown, AllKnown, UnderWay
<1>8. QED
    BY <1>5, <1>6, <1>7 DEF Inv

LEMMA DilateInv ==
    ASSUME Inv, NEW inbound \in BOOLEAN, NEW outbound \in BOOLEAN, dilate(inbound, outbound)
    PROVE  Inv'
<1>1. /\ UNCHANGED <<wiki, region, removed, late, completed>>
      /\ started' = started + 1 /\ started < MaxDilations /\ filtered' = FALSE
    BY DEF dilate
<1>2. visit' \in [nodes : SUBSET Articles, todo : SUBSET {"ob", "ib"}, both : BOOLEAN]
    <2>1. nodes_to_visit(region, inbound, outbound) \subseteq Articles
        BY DEF nodes_to_visit, Inv, TypeOK, Regions
    <2>2. (inbound /\ outbound) \in BOOLEAN
        OBVIOUS
    <2>3. {h \in {"ob", "ib"} : IF h = "ob" THEN outbound ELSE inbound} \subseteq {"ob", "ib"}
        OBVIOUS
    <2>4. QED
        BY <2>1, <2>2, <2>3 DEF dilate
<1>3. started' \in 0..MaxDilations /\ completed' \in 0..started'
    BY <1>1, DilationsAssumption DEF Inv, TypeOK
<1>4. filtered' \in BOOLEAN
    BY <1>1
<1>5. TypeOK'
    BY <1>1, <1>2, <1>3, <1>4 DEF Inv, TypeOK
<1>6. VisitedExpanded' /\ FarKnown' /\ AllKnown'
    BY <1>1 DEF Inv, VisitedExpanded, FarKnown, AllKnown, Far, OutLinks, InLinks
<1>7. UnderWay'
    BY <1>1, DilationsAssumption DEF Inv, TypeOK, UnderWay
<1>8. QED
    BY <1>5, <1>6, <1>7 DEF Inv

(* What a half adds: its links, and the mark that they are there. *)
Added(r, q, E) ==
    /\ q \in Regions /\ Graph(q) /\ Grown(r, q)
    /\ q.edges = r.edges \cup E /\ q.nodes = r.nodes \cup Ends(E) /\ q.dists = r.dists

LEMMA GrownGraph ==
    ASSUME NEW r \in Regions, NEW E \in SUBSET Links, Graph(r)
    PROVE  LET a == add_edges_from(r, E) IN
           /\ a \in Regions /\ Graph(a) /\ Grown(r, a) /\ a.nodes = r.nodes \cup Ends(E)
           /\ a.edges = r.edges \cup E /\ a.dists = r.dists /\ a.ob = r.ob /\ a.ib = r.ib
<1> DEFINE a == add_edges_from(r, E)
<1>1. /\ a \in Regions /\ Grown(r, a) /\ a.edges = r.edges \cup E
      /\ a.dists = r.dists /\ a.ob = r.ob /\ a.ib = r.ib
    BY AddEdgesFacts DEF add_edges_from, Regions
<1>2. a.nodes = r.nodes \cup {e[1] : e \in E} \cup {e[2] : e \in E}
    BY DEF add_edges_from, Regions
<1>3. E \subseteq a.nodes \X a.nodes
    BY <1>2 DEF Links
<1>4. Graph(a)
    BY <1>1, <1>2, <1>3 DEF Graph
<1>5. {e[1] : e \in E} \cup {e[2] : e \in E} = Ends(E)
    BY DEF Ends
<1>6. QED
    BY <1>1, <1>2, <1>4, <1>5

OutboundMarked(r, q, V) == q.ob = r.ob \cup V /\ q.ib = r.ib

LEMMA OutboundFacts ==
    ASSUME NEW r \in Regions, NEW V \in SUBSET Articles, NEW E \in SUBSET Links, Graph(r),
           NEW q \in {dilate_outbound(r, V, E)}
    PROVE  Added(r, q, E) /\ OutboundMarked(r, q, V)
<1>1. PICK a : a = add_edges_from(r, E)
    OBVIOUS
<1>2. /\ a \in Regions /\ Graph(a) /\ Grown(r, a) /\ a.nodes = r.nodes \cup Ends(E)
      /\ a.edges = r.edges \cup E /\ a.dists = r.dists /\ a.ob = r.ob /\ a.ib = r.ib
    BY <1>1, GrownGraph
<1>3. q = [a EXCEPT !.ob = @ \cup V]
    BY <1>1 DEF dilate_outbound
<1>4. QED
    BY <1>2, <1>3 DEF Added, OutboundMarked, Regions, Graph, Grown

InboundMarked(r, q, V) == q.ib = r.ib \cup V /\ q.ob = r.ob

LEMMA InboundFacts ==
    ASSUME NEW r \in Regions, NEW V \in SUBSET Articles, NEW E \in SUBSET Links, Graph(r),
           NEW q \in {dilate_inbound(r, V, E)}
    PROVE  Added(r, q, E) /\ InboundMarked(r, q, V)
<1>1. PICK a : a = add_edges_from(r, E)
    OBVIOUS
<1>2. /\ a \in Regions /\ Graph(a) /\ Grown(r, a) /\ a.nodes = r.nodes \cup Ends(E)
      /\ a.edges = r.edges \cup E /\ a.dists = r.dists /\ a.ob = r.ob /\ a.ib = r.ib
    BY <1>1, GrownGraph
<1>3. q = [a EXCEPT !.ib = @ \cup V]
    BY <1>1 DEF dilate_inbound
<1>4. QED
    BY <1>2, <1>3 DEF Added, InboundMarked, Regions, Graph, Grown

(* Either half keeps the types and the far articles; h is its mark. *)
LEMMA HalfInv ==
    ASSUME Inv, NEW h \in {"ob", "ib"}, NEW r \in Regions, Half(h, r), h \in visit.todo,
           Graph(r), Grown(region, r), r.dists = region.dists
    PROVE  TypeOK' /\ UnderWay' /\ FarKnown' /\ AllKnown'
<1>1. /\ region' = r /\ UNCHANGED <<wiki, removed, started, filtered>>
      /\ visit' = [visit EXCEPT !.todo = @ \ {h}]
      /\ late' = late \cup ((r.nodes \ region.nodes) \cap DOMAIN region.dists)
      /\ completed' = IF visit.both /\ visit.todo = {h} THEN completed + 1 ELSE completed
    BY DEF Half
<1>2. /\ visit' \in [nodes : SUBSET Articles, todo : SUBSET {"ob", "ib"}, both : BOOLEAN]
      /\ visit'.todo = visit.todo \ {h}
    BY <1>1 DEF Inv, TypeOK
<1>3. completed' \in 0..started' /\ UnderWay'
    BY <1>1, <1>2, DilationsAssumption DEF Inv, TypeOK, UnderWay
<1>4. late' \subseteq Articles
    BY <1>1 DEF Inv, TypeOK, Regions
<1>5. TypeOK'
    BY <1>1, <1>2, <1>3, <1>4 DEF Inv, TypeOK, Graph
<1>6. FarKnown'
    <2> SUFFICES ASSUME NEW n \in (r.nodes \ r.seeds) \cap DOMAIN r.dists,
                        Far(n), wiki.title[n] = n
                 PROVE  n \in late'
        BY <1>1 DEF FarKnown, Far
    <2>1. CASE n \in region.nodes
        BY <2>1, <1>1 DEF Inv, FarKnown, Grown
    <2>2. CASE n \notin region.nodes
        BY <2>2, <1>1
    <2>3. QED
        BY <2>1, <2>2
<1>7. AllKnown'
    BY <1>1 DEF Inv, UnderWay, AllKnown
<1>8. QED
    BY <1>3, <1>5, <1>6, <1>7

LEMMA LinksOfUnion ==
    \A w, S, T : /\ OutLinks(w, S \cup T) = OutLinks(w, S) \cup OutLinks(w, T)
                 /\ InLinks(w, S \cup T) = InLinks(w, S) \cup InLinks(w, T)
BY DEF OutLinks, InLinks

LEMMA OutboundInv == Inv /\ outbound_half => Inv'
<1> SUFFICES ASSUME Inv, outbound_half PROVE Inv'
    OBVIOUS
<1>1. PICK V, E, r : /\ V = visit.nodes /\ E = OutLinks(wiki, V)
                     /\ r = dilate_outbound(region, V, E)
    OBVIOUS
<1>2. "ob" \in visit.todo /\ Half("ob", r)
    BY <1>1 DEF outbound_half
<1>3. region \in Regions /\ Graph(region) /\ V \in SUBSET Articles /\ E \in SUBSET Links
    BY <1>1, WikiTyped DEF Inv, TypeOK, Graph
<1>4. /\ r \in Regions /\ Graph(r) /\ Grown(region, r)
      /\ r.edges = region.edges \cup E /\ r.dists = region.dists
      /\ r.ob = region.ob \cup V /\ r.ib = region.ib
    <2>1. Added(region, r, E) /\ OutboundMarked(region, r, V)
        BY <1>1, <1>3, OutboundFacts
    <2>2. QED
        BY <2>1 DEF Added, OutboundMarked
<1>5. region' = r /\ UNCHANGED <<wiki, removed>>
    BY <1>2 DEF Half
<1>6. TypeOK' /\ UnderWay' /\ FarKnown' /\ AllKnown'
    BY <1>2, <1>4, HalfInv
<1>7. VisitedExpanded'
    <2>1. OutLinks(wiki, r.ob) = OutLinks(wiki, region.ob) \cup E
        BY <1>1, <1>4, LinksOfUnion
    <2>2. InLinks(wiki, r.ib) = InLinks(wiki, region.ib)
        BY <1>1, <1>4, LinksOfUnion
    <2>3. \A e \in OutLinks(wiki, r.ob) : e \in r.edges \/ {e[1], e[2]} \cap removed # {}
        BY <1>4, <2>1 DEF Inv, VisitedExpanded
    <2>4. \A e \in InLinks(wiki, r.ib) : e \in r.edges \/ {e[1], e[2]} \cap removed # {}
        BY <1>4, <2>2 DEF Inv, VisitedExpanded
    <2>5. QED
        BY <1>5, <2>3, <2>4 DEF VisitedExpanded, OutLinks, InLinks
<1>8. QED
    BY <1>6, <1>7 DEF Inv

LEMMA InboundInv == Inv /\ inbound_half => Inv'
<1> SUFFICES ASSUME Inv, inbound_half PROVE Inv'
    OBVIOUS
<1>1. PICK V, E, r : /\ V = visit.nodes /\ E = InLinks(wiki, V)
                     /\ r = dilate_inbound(region, V, E)
    OBVIOUS
<1>2. "ib" \in visit.todo /\ Half("ib", r)
    BY <1>1 DEF inbound_half
<1>3. region \in Regions /\ Graph(region) /\ V \in SUBSET Articles /\ E \in SUBSET Links
    BY <1>1, WikiTyped DEF Inv, TypeOK, Graph
<1>4. /\ r \in Regions /\ Graph(r) /\ Grown(region, r)
      /\ r.edges = region.edges \cup E /\ r.dists = region.dists
      /\ r.ib = region.ib \cup V /\ r.ob = region.ob
    <2>1. Added(region, r, E) /\ InboundMarked(region, r, V)
        BY <1>1, <1>3, InboundFacts
    <2>2. QED
        BY <2>1 DEF Added, InboundMarked
<1>5. region' = r /\ UNCHANGED <<wiki, removed>>
    BY <1>2 DEF Half
<1>6. TypeOK' /\ UnderWay' /\ FarKnown' /\ AllKnown'
    BY <1>2, <1>4, HalfInv
<1>7. VisitedExpanded'
    <2>1. OutLinks(wiki, r.ob) = OutLinks(wiki, region.ob)
        BY <1>1, <1>4, LinksOfUnion
    <2>2. InLinks(wiki, r.ib) = InLinks(wiki, region.ib) \cup E
        BY <1>1, <1>4, LinksOfUnion
    <2>3. \A e \in OutLinks(wiki, r.ob) : e \in r.edges \/ {e[1], e[2]} \cap removed # {}
        BY <1>4, <2>1 DEF Inv, VisitedExpanded
    <2>4. \A e \in InLinks(wiki, r.ib) : e \in r.edges \/ {e[1], e[2]} \cap removed # {}
        BY <1>4, <2>2 DEF Inv, VisitedExpanded
    <2>5. QED
        BY <1>5, <2>3, <2>4 DEF VisitedExpanded, OutLinks, InLinks
<1>8. QED
    BY <1>6, <1>7 DEF Inv

LEMMA RaiseInv == Inv /\ raise => Inv'
<1> SUFFICES ASSUME Inv, raise PROVE Inv'
    OBVIOUS
<1>1. visit' = [visit EXCEPT !.todo = {}]
      /\ UNCHANGED <<wiki, region, removed, late, started, completed, filtered>>
    BY DEF raise, history
<1>2. visit' \in [nodes : SUBSET Articles, todo : SUBSET {"ob", "ib"}, both : BOOLEAN]
      /\ visit'.todo = {}
    BY <1>1 DEF Inv, TypeOK
<1>3. TypeOK' /\ UnderWay'
    BY <1>1, <1>2 DEF Inv, TypeOK, UnderWay
<1>4. VisitedExpanded' /\ FarKnown' /\ AllKnown'
    BY <1>1 DEF Inv, VisitedExpanded, FarKnown, AllKnown, Far, OutLinks, InLinks
<1>5. QED
    BY <1>3, <1>4 DEF Inv

(* What a filter takes out, it takes out with its links, and counts. *)
LEMMA FilterInv ==
    ASSUME Inv, NEW u \in Regions, NEW S, Filter(remove_nodes_from(u, S)), filtered' \in BOOLEAN,
           u.nodes = region.nodes, u.edges = region.edges, u.ob = region.ob, u.ib = region.ib
    PROVE  TypeOK' /\ UnderWay' /\ VisitedExpanded'
<1>1. PICK r : r = remove_nodes_from(u, S)
    OBVIOUS
<1>2. /\ r \in Regions /\ r.nodes = region.nodes \ S
      /\ r.edges = {e \in region.edges : e[1] \notin S /\ e[2] \notin S}
      /\ r.ob = region.ob /\ r.ib = region.ib
    BY <1>1 DEF remove_nodes_from, Regions
<1>3. /\ visit.todo = {} /\ region' = r /\ removed' = removed \cup (region.nodes \ r.nodes)
      /\ UNCHANGED <<wiki, visit, late, started, completed>>
    BY <1>1 DEF Filter, Idle
<1>4. Graph(region) /\ region \in Regions
    BY DEF Inv, TypeOK, Graph
<1>5. Graph(r) /\ removed' \subseteq Articles
    BY <1>2, <1>3, <1>4 DEF Inv, TypeOK, Graph, Regions
<1>6. TypeOK' /\ UnderWay'
    BY <1>2, <1>3, <1>5 DEF Inv, TypeOK, UnderWay, Graph
<1>7. \A e \in region.edges : e \in r.edges \/ {e[1], e[2]} \cap removed' # {}
    <2> SUFFICES ASSUME NEW e \in region.edges, e \notin r.edges
                 PROVE  {e[1], e[2]} \cap removed' # {}
        OBVIOUS
    <2>1. e[1] \in region.nodes /\ e[2] \in region.nodes
        BY <1>4 DEF Graph
    <2>2. e[1] \in S \/ e[2] \in S
        BY <1>2
    <2>3. QED
        BY <1>2, <1>3, <2>1, <2>2
<1>8. /\ \A e \in OutLinks(wiki, r.ob) : e \in r.edges \/ {e[1], e[2]} \cap removed' # {}
      /\ \A e \in InLinks(wiki, r.ib) : e \in r.edges \/ {e[1], e[2]} \cap removed' # {}
    BY <1>2, <1>3, <1>7 DEF Inv, VisitedExpanded
<1>9. VisitedExpanded'
    BY <1>3, <1>8 DEF VisitedExpanded, OutLinks, InLinks
<1>10. QED
    BY <1>6, <1>9

LEMMA BlacklistInv == Inv /\ filter_by_blacklist => Inv'
<1> SUFFICES ASSUME Inv, filter_by_blacklist PROVE Inv'
    OBVIOUS
<1>1. Filter(remove_nodes_from(region, Blacklist \ region.seeds)) /\ filtered' = FALSE
    BY DEF filter_by_blacklist, filter_nodes_by_blacklist
<1>2. region \in Regions /\ filtered' \in BOOLEAN
    BY <1>1 DEF Inv, TypeOK
<1>3. TypeOK' /\ UnderWay' /\ VisitedExpanded'
    BY <1>1, <1>2, FilterInv
<1>4. /\ region'.nodes \subseteq region.nodes /\ region'.dists = region.dists
      /\ region'.seeds = region.seeds /\ UNCHANGED <<wiki, late>>
    BY <1>1, <1>2, RemoveFacts DEF Filter
<1>5. FarKnown' /\ AllKnown'
    BY <1>1, <1>4 DEF Inv, FarKnown, AllKnown, Far
<1>6. QED
    BY <1>3, <1>5 DEF Inv

LEMMA UpdateKeeps ==
    ASSUME NEW r \in Regions, NEW P
    PROVE  LET u == update_dists(r, P) IN
           /\ u.ob = r.ob /\ u.ib = r.ib
           /\ DOMAIN r.dists \cup nodes_without_dists(r) \subseteq DOMAIN u.dists
<1> DEFINE fresh == nodes_without_dists(r) \cup {p[1] : p \in P}
           f == [n \in DOMAIN r.dists \cup fresh |->
                    IF n \in fresh THEN Nearest(P, n) ELSE r.dists[n]]
<1>1. update_dists(r, P) = [r EXCEPT !.dists = f]
    BY DEF update_dists
<1>2. DOMAIN r.dists \cup nodes_without_dists(r) \subseteq DOMAIN f
    OBVIOUS
<1> HIDE DEF f, fresh
<1>3. QED
    BY <1>1, <1>2 DEF Regions

(* The answer for an article that is its own title has all its distances, *)
(* so the nearest of them is one: a far article is seen to be far.         *)
LEMMA FarSeen ==
    ASSUME TypeOK, NEW V \in SUBSET Articles, NEW n \in V, wiki.title[n] = n, Far(n)
    PROVE  Nearest(Placements(wiki, V), n) > MaxDist
<1> DEFINE D == {p[2] : p \in {q \in Placements(wiki, V) : q[1] = n}}
<1>1. wiki.coords[n] \subseteq Distances /\ Distances \subseteq Nat /\ MaxDist \in Nat
    BY WikiTyped, DistancesAssumption
<1>2. D \subseteq wiki.coords[n]
    BY DEF Placements
<1>3. wiki.coords[n] \subseteq D
    <2> SUFFICES ASSUME NEW d \in wiki.coords[n] PROVE d \in D
        OBVIOUS
    <2>1. <<n, d>> \in Placements(wiki, V)
        BY <1>1 DEF Placements
    <2>2. QED
        BY <2>1
<1>4. D = wiki.coords[n] /\ D # {} /\ D \subseteq Nat
    BY <1>1, <1>2, <1>3 DEF Far
<1>5. Nearest(Placements(wiki, V), n) =
          IF D = {} THEN Unplaced ELSE CHOOSE d \in D : \A e \in D : d <= e
    BY DEF Nearest
<1> HIDE DEF D
<1>6. \E d \in D : \A e \in D : d <= e
    BY <1>4, LeastDistance
<1>7. Nearest(Placements(wiki, V), n) \in D
    BY <1>4, <1>5, <1>6
<1>8. QED
    BY <1>4, <1>7 DEF Far

LEMMA DistanceInv == Inv /\ filter_by_distance => Inv'
<1> SUFFICES ASSUME Inv, filter_by_distance PROVE Inv'
    OBVIOUS
<1>1. PICK V, P, u, S : /\ V = nodes_without_dists(region) /\ P = Placements(wiki, V)
                        /\ u = update_dists(region, P)
                        /\ S = {n \in V : Nearest(P, n) > MaxDist} \ region.seeds
    OBVIOUS
<1>2. Filter(remove_nodes_from(u, S)) /\ filtered' = TRUE
    BY <1>1 DEF filter_by_distance, filter_nodes_by_distance
<1>3. region \in Regions /\ V \in SUBSET Articles /\ P \in SUBSET (Articles \X Distances)
    BY <1>1, WikiTyped DEF Inv, TypeOK, nodes_without_dists, Regions
<1>4. /\ u \in Regions /\ u.seeds = region.seeds /\ u.nodes = region.nodes
      /\ u.edges = region.edges
    BY <1>1, <1>3, UpdateFacts
<1>5. /\ u.ob = region.ob /\ u.ib = region.ib
      /\ DOMAIN region.dists \cup V \subseteq DOMAIN u.dists
    BY <1>1, <1>3, UpdateKeeps
<1>6. TypeOK' /\ UnderWay' /\ VisitedExpanded'
    BY <1>2, <1>4, <1>5, FilterInv
<1>7. /\ region'.nodes = region.nodes \ S /\ region'.seeds = region.seeds
      /\ region'.dists = u.dists /\ UNCHANGED <<wiki, late>>
    BY <1>2, <1>4, RemoveFacts DEF Filter
<1>8. AllKnown'
    BY <1>1, <1>5, <1>7 DEF AllKnown, nodes_without_dists
<1>9. FarKnown'
    <2> SUFFICES ASSUME NEW n \in (region.nodes \ S) \ region.seeds,
                        Far(n), wiki.title[n] = n
                 PROVE  n \in late
        BY <1>7 DEF FarKnown, Far
    <2>1. CASE n \in DOMAIN region.dists
        BY <2>1 DEF Inv, FarKnown
    <2>2. CASE n \notin DOMAIN region.dists
        <3>1. n \in V
            BY <1>1, <2>2 DEF nodes_without_dists
        <3>2. Nearest(P, n) > MaxDist
            BY <1>1, <1>3, <3>1, FarSeen DEF Inv
        <3>3. QED
            BY <1>1, <3>1, <3>2
    <2>3. QED
        BY <2>1, <2>2
<1>10. QED
    BY <1>6, <1>8, <1>9 DEF Inv

LEMMA StutterInv == Inv /\ UNCHANGED vars => Inv'
BY DEF Inv, TypeOK, UnderWay, VisitedExpanded, FarKnown, AllKnown, Far, OutLinks, InLinks,
       vars, history
------------------------------------------------------------------------------
LEMMA NextInv == Inv /\ [Next]_vars => Inv'
BY DilateInv, OutboundInv, InboundInv, RaiseInv, BlacklistInv, DistanceInv, StutterInv DEF Next

LEMMA Invariance == Spec => []Inv
BY InitInv, NextInv, PTL DEF Spec

(* A region is a graph between its nodes, whatever is called on it.        *)
THEOREM RegionTyped == Spec => []TypeOK
<1>1. Inv => TypeOK
    BY DEF Inv
<1>2. QED
    BY <1>1, Invariance, PTL

(* visited_nodes_ib and visited_nodes_ob are true of any region: what they *)
(* hold was expanded, through exceptions, filters and further dilations.   *)
THEOREM MarksAlwaysTrue == Spec => []VisitedExpanded
<1>1. Inv => VisitedExpanded
    BY DEF Inv
<1>2. QED
    BY <1>1, Invariance, PTL

(* filter_nodes_by_distance() leaves no far article in a region but those  *)
(* that came into it with a distance that was known.                       *)
THEOREM OnlyLateAreFar == Spec => []FarOnlyIfLate
<1>1. Inv => FarOnlyIfLate
    BY DEF Inv, FarKnown, AllKnown, FarOnlyIfLate
<1>2. QED
    BY <1>1, Invariance, PTL

------------------------------------------------------------------------------
(* Regions as balls.                                                       *)

Around == Ball(wiki, region.seeds)

(* A call under way visits what was within one link less; if it goes in    *)
(* both directions, what it does not visit of the ball that is whole was   *)
(* visited in both, and the half that is done has marked what it visited.  *)
VisitsBall ==
    visit.todo # {} =>
        /\ started > 0 /\ visit.nodes \subseteq Around[started - 1]
        /\ visit.both =>
              /\ removed = {} =>
                     Around[completed] \subseteq visit.nodes \cup (region.ib \cap region.ob)
              /\ "ib" \in visit.todo
              /\ "ob" \notin visit.todo => visit.nodes \subseteq region.ob

BallInv == RegionIsBall /\ VisitsBall

LEMMA ExpandGrows ==
    ASSUME NEW w, NEW B, NEW C, B \subseteq C
    PROVE  Expand(w, B) \subseteq Expand(w, C)
<1>1. OutLinks(w, B) \subseteq OutLinks(w, C) /\ InLinks(w, B) \subseteq InLinks(w, C)
    BY DEF OutLinks, InLinks
<1>2. QED
    BY <1>1 DEF Expand

LEMMA AroundIs ==
    ASSUME TypeOK
    PROVE  /\ Around[0] = region.seeds
           /\ \A k \in Nat : /\ Around[k + 1] = Expand(wiki, Around[k])
                             /\ Around[k] \subseteq Around[k + 1]
<1>1. wiki \in Wikis /\ region.seeds \in SUBSET Articles
    BY DEF TypeOK, Regions
<1>2. /\ Around[0] = region.seeds
      /\ \A k \in Nat : Around[k + 1] = Expand(wiki, Around[k])
    BY <1>1, BallIs DEF Around
<1>3. QED
    BY <1>2 DEF Expand

LEMMA InitBall == Init => BallInv
<1> SUFFICES ASSUME Init PROVE BallInv
    OBVIOUS
<1>1. TypeOK
    BY InitInv DEF Inv
<1>2. /\ region.seeds = wiki.nearby /\ region.nodes = wiki.nearby
      /\ started = 0 /\ completed = 0 /\ visit.todo = {}
    BY DEF Init, NewRegion
<1>3. QED
    BY <1>1, <1>2, AroundIs DEF BallInv, RegionIsBall, VisitsBall, Around

LEMMA DilateBall ==
    ASSUME Inv, BallInv, NEW inbound \in BOOLEAN, NEW outbound \in BOOLEAN,
           inbound \/ outbound, dilate(inbound, outbound)
    PROVE  BallInv'
<1>1. /\ UNCHANGED <<wiki, region, removed, completed>> /\ started' = started + 1
      /\ visit' = [nodes |-> nodes_to_visit(region, inbound, outbound),
                   both |-> inbound /\ outbound,
                   todo |-> {h \in {"ob", "ib"} : IF h = "ob" THEN outbound ELSE inbound}]
    BY DEF dilate
<1>2. started \in Nat /\ TypeOK
    BY DilationsAssumption DEF Inv, TypeOK
<1>3. Around' = Around
    BY <1>1 DEF Around
<1>4. region.nodes \subseteq Around[started] /\ Around[started] \subseteq Around[started + 1]
    BY <1>2, AroundIs DEF BallInv, RegionIsBall, Around
<1>5. RegionIsBall'
    BY <1>1, <1>3, <1>4 DEF BallInv, RegionIsBall, Around
<1>6. visit'.nodes \subseteq Around'[started' - 1] /\ started' > 0
    <2>1. visit'.nodes \subseteq region.nodes
        BY <1>1 DEF nodes_to_visit
    <2>2. started' - 1 = started
        BY <1>1, <1>2
    <2>3. QED
        BY <1>1, <1>2, <1>3, <1>4, <2>1, <2>2
<1>7. ASSUME visit'.both
      PROVE  /\ removed = {} =>
                    Around[completed] \subseteq visit'.nodes \cup (region.ib \cap region.ob)
             /\ visit'.todo = {"ob", "ib"}
    <2>1. inbound /\ outbound
        BY <1>1, <1>7
    <2>2. visit'.nodes = region.nodes \ (region.ib \cap region.ob)
        BY <1>1, <2>1 DEF nodes_to_visit
    <2>3. removed = {} => Around[completed] \subseteq region.nodes
        BY DEF BallInv, RegionIsBall, Around
    <2>4. visit'.todo = {"ob", "ib"}
        BY <1>1, <2>1
    <2>5. QED
        BY <2>2, <2>3, <2>4
<1>8. VisitsBall'
    BY <1>1, <1>3, <1>6, <1>7 DEF VisitsBall
<1>9. QED
    BY <1>5, <1>8 DEF BallInv

(* The answers for what is visited lie within one link of it. *)
LEMMA HalfStays ==
    ASSUME Inv, BallInv, visit.todo # {},
           NEW E \in {OutLinks(wiki, visit.nodes), InLinks(wiki, visit.nodes)}
    PROVE  region.nodes \cup Ends(E) \subseteq Around[started]
<1>1. started \in Nat /\ started - 1 \in Nat /\ (started - 1) + 1 = started /\ TypeOK
    BY DilationsAssumption DEF Inv, TypeOK, BallInv, VisitsBall
<1>2. visit.nodes \subseteq Around[started - 1]
    BY DEF BallInv, VisitsBall
<1>3. Around[started] = Expand(wiki, Around[started - 1])
    BY <1>1, AroundIs
<1>4. Ends(E) \subseteq Expand(wiki, visit.nodes)
    BY DEF Ends, Expand
<1>5. Expand(wiki, visit.nodes) \subseteq Expand(wiki, Around[started - 1])
    BY <1>2, ExpandGrows
<1>6. QED
    BY <1>3, <1>4, <1>5 DEF BallInv, RegionIsBall, Around

LEMMA OutboundBall == Inv /\ BallInv /\ outbound_half => BallInv'
<1> SUFFICES ASSUME Inv, BallInv, outbound_half PROVE BallInv'
    OBVIOUS
<1>1. PICK V, E, r : /\ V = visit.nodes /\ E = OutLinks(wiki, V)
                     /\ r = dilate_outbound(region, V, E)
    OBVIOUS
<1>2. "ob" \in visit.todo /\ Half("ob", r)
    BY <1>1 DEF outbound_half
<1>3. region \in Regions /\ Graph(region) /\ V \in SUBSET Articles /\ E \in SUBSET Links
    BY <1>1, WikiTyped DEF Inv, TypeOK, Graph
<1>4. /\ Grown(region, r) /\ r.nodes = region.nodes \cup Ends(E)
      /\ r.ob = region.ob \cup V /\ r.ib = region.ib
    <2>1. Added(region, r, E) /\ OutboundMarked(region, r, V)
        BY <1>1, <1>3, OutboundFacts
    <2>2. QED
        BY <2>1 DEF Added, OutboundMarked
<1>5. /\ region' = r /\ UNCHANGED <<wiki, removed, started>>
      /\ visit' = [visit EXCEPT !.todo = @ \ {"ob"}]
      /\ completed' = IF visit.both /\ visit.todo = {"ob"} THEN completed + 1 ELSE completed
    BY <1>2 DEF Half
<1>6. visit'.nodes = V /\ visit'.both = visit.both /\ visit'.todo = visit.todo \ {"ob"}
    BY <1>1, <1>5 DEF Inv, TypeOK
<1>7. Around' = Around
    BY <1>4, <1>5 DEF Around, Grown
<1>8. completed' = completed
    BY <1>2, <1>5 DEF BallInv, VisitsBall
<1>9. r.nodes \subseteq Around[started]
    BY <1>1, <1>2, <1>4, HalfStays
<1>10. RegionIsBall'
    BY <1>4, <1>5, <1>7, <1>8, <1>9 DEF BallInv, RegionIsBall, Around
<1>11. VisitsBall'
    BY <1>1, <1>4, <1>5, <1>6, <1>7, <1>8 DEF BallInv, VisitsBall
<1>12. QED
    BY <1>10, <1>11 DEF BallInv

(* Where all links of what is marked are there, a ball that is marked in   *)
(* both directions may grow by one link.                                   *)
LEMMA WholeCall ==
    ASSUME NEW w, NEW r, Graph(r),
           OutLinks(w, r.ob) \subseteq r.edges, InLinks(w, r.ib) \subseteq r.edges,
           NEW B, B \subseteq r.nodes, B \subseteq r.ob \cap r.ib
    PROVE  Expand(w, B) \subseteq r.nodes
<1>1. OutLinks(w, B) \subseteq OutLinks(w, r.ob) /\ InLinks(w, B) \subseteq InLinks(w, r.ib)
    BY DEF OutLinks, InLinks
<1>2. OutLinks(w, B) \cup InLinks(w, B) \subseteq r.nodes \X r.nodes
    BY <1>1 DEF Graph
<1>3. QED
    BY <1>2 DEF Expand

LEMMA InboundBall == Inv /\ BallInv /\ inbound_half => BallInv'
<1> SUFFICES ASSUME Inv, BallInv, inbound_half PROVE BallInv'
    OBVIOUS
<1>1. PICK V, E, r : /\ V = visit.nodes /\ E = InLinks(wiki, V)
                     /\ r = dilate_inbound(region, V, E)
    OBVIOUS
<1>2. visit.todo = {"ib"} /\ Half("ib", r)
    BY <1>1 DEF inbound_half
<1>3. region \in Regions /\ Graph(region) /\ V \in SUBSET Articles /\ E \in SUBSET Links
    BY <1>1, WikiTyped DEF Inv, TypeOK, Graph
<1>4. /\ Grown(region, r) /\ r.nodes = region.nodes \cup Ends(E)
      /\ r.ib = region.ib \cup V /\ r.ob = region.ob
    <2>1. Added(region, r, E) /\ InboundMarked(region, r, V)
        BY <1>1, <1>3, InboundFacts
    <2>2. QED
        BY <2>1 DEF Added, InboundMarked
<1>5. /\ region' = r /\ UNCHANGED <<wiki, removed, started>>
      /\ visit' = [visit EXCEPT !.todo = @ \ {"ib"}]
      /\ completed' = IF visit.both THEN completed + 1 ELSE completed
    BY <1>2 DEF Half
<1>6. visit'.todo = {}
    BY <1>2, <1>5 DEF Inv, TypeOK
<1>7. Around' = Around
    BY <1>4, <1>5 DEF Around, Grown
<1>8. r.nodes \subseteq Around[started]
    BY <1>1, <1>2, <1>4, HalfStays
<1>9. completed \in Nat /\ TypeOK
    BY DilationsAssumption DEF Inv, TypeOK
<1>10. ASSUME removed = {}
       PROVE  Around[completed'] \subseteq r.nodes
    <2>1. Around[completed] \subseteq region.nodes
        BY <1>10 DEF BallInv, RegionIsBall, Around
    <2>2. CASE ~visit.both
        BY <1>4, <1>5, <2>1, <2>2
    <2>3. CASE visit.both
        <3>1. Around[completed] \subseteq r.ob \cap r.ib
            BY <1>1, <1>2, <1>4, <1>10, <2>3 DEF BallInv, VisitsBall
        <3>2. /\ Graph(r)
              /\ OutLinks(wiki, r.ob) \subseteq r.edges /\ InLinks(wiki, r.ib) \subseteq r.edges
            <4>1. TypeOK' /\ VisitedExpanded' /\ removed' = {} /\ wiki' = wiki
                BY <1>5, <1>10, InboundInv DEF Inv
            <4>2. QED
                BY <1>5, <4>1 DEF TypeOK, VisitedExpanded, Graph, OutLinks, InLinks
        <3>3. Expand(wiki, Around[completed]) \subseteq r.nodes
            BY <1>4, <2>1, <3>1, <3>2, WholeCall
        <3>4. Around[completed + 1] = Expand(wiki, Around[completed])
            BY <1>9, AroundIs
        <3>5. QED
            BY <1>5, <2>3, <3>3, <3>4
    <2>4. QED
        BY <2>2, <2>3
<1>11. RegionIsBall'
    BY <1>5, <1>7, <1>8, <1>10 DEF RegionIsBall, Around
<1>12. VisitsBall'
    BY <1>6 DEF VisitsBall
<1>13. QED
    BY <1>11, <1>12 DEF BallInv

(* A filter takes nodes out, and from then on removed is not empty. *)
LEMMA FilterBall ==
    ASSUME Inv, BallInv, NEW r, Filter(r), r.seeds = region.seeds,
           r.nodes \subseteq region.nodes
    PROVE  BallInv'
<1>1. /\ visit.todo = {} /\ region' = r /\ removed' = removed \cup (region.nodes \ r.nodes)
      /\ UNCHANGED <<wiki, visit, started, completed>>
    BY DEF Filter, Idle
<1>2. Around' = Around
    BY <1>1 DEF Around
<1>3. removed' = {} => removed = {} /\ r.nodes = region.nodes
    BY <1>1
<1>4. RegionIsBall'
    BY <1>1, <1>2, <1>3 DEF BallInv, RegionIsBall, Around
<1>5. QED
    BY <1>1, <1>4 DEF BallInv, VisitsBall

LEMMA FiltersBall == Inv /\ BallInv /\ (filter_by_blacklist \/ filter_by_distance) => BallInv'
<1> SUFFICES ASSUME Inv, BallInv, filter_by_blacklist \/ filter_by_distance PROVE BallInv'
    OBVIOUS
<1>1. region \in Regions
    BY DEF Inv, TypeOK
<1>2. Placements(wiki, nodes_without_dists(region)) \in SUBSET (Articles \X Distances)
    BY WikiTyped DEF Inv
<1>3. PICK r : Filter(r) /\ Shrunk(region, r)
    BY <1>1, <1>2, BlacklistFacts, DistanceFacts DEF filter_by_blacklist, filter_by_distance
<1>4. QED
    BY <1>3, FilterBall DEF Shrunk

LEMMA RestBall == Inv /\ BallInv /\ (raise \/ UNCHANGED vars) => BallInv'
<1> SUFFICES ASSUME Inv, BallInv, raise \/ UNCHANGED vars PROVE BallInv'
    OBVIOUS
<1>1. UNCHANGED <<wiki, region, removed, started, completed>>
    BY DEF raise, vars, history
<1>2. UNCHANGED visit \/ visit'.todo = {}
    BY DEF raise, vars, Inv, TypeOK
<1>3. Around' = Around
    BY <1>1 DEF Around
<1>4. QED
    BY <1>1, <1>2, <1>3 DEF BallInv, RegionIsBall, VisitsBall, Around

LEMMA NextBall == Inv /\ BallInv /\ [Next]_vars => BallInv'
BY DilateBall, OutboundBall, InboundBall, FiltersBall, RestBall DEF Next

(* However the calls of dilate() are split by exceptions and directions, a *)
(* region is within as many links of its seeds as calls were started, and  *)
(* while no filter took anything, it holds everything within as many as    *)
(* calls in both directions were whole.                                    *)
THEOREM RegionAlwaysBall == Spec => []RegionIsBall
<1>1. BallInv => RegionIsBall
    BY DEF BallInv
<1>2. QED
    BY <1>1, InitBall, NextBall, Invariance, PTL DEF Spec
==============================================================================
