-------------------------------- MODULE Region --------------------------------
(***************************************************************************)
(* One region under any sequence of its operations: RegionSubGraph is a    *)
(* class of its own, whose dilate(), in one direction or both, and filters *)
(* may be called in any order and again; ArticleNetwork has the one order  *)
(* of run_query.  Each half of dilate() is a step, for the calls it makes  *)
(* may raise between them; the caller then has the region as it is, and    *)
(* may go on with it.  Wikipedia stands still.                             *)
(***************************************************************************)
EXTENDS RegionSubGraph

CONSTANTS
    Wikis,                   \* Wikipedias and what is nearby: [links, title, coords, nearby]
    MaxDilations             \* bound on the calls of dilate()

ASSUME WikisAssumption ==
    \A w \in Wikis : /\ w.links \subseteq Links
                     /\ w.title \in [Articles -> Articles]
                     /\ \A n \in Articles : w.title[w.title[n]] = w.title[n]
                     /\ w.coords \in [Articles -> SUBSET Distances]
                     /\ w.nearby \subseteq Articles
ASSUME DilationsAssumption == MaxDilations \in Nat

VARIABLES
    wiki,
    region,
    visit,                   \* the call of dilate() under way: nodes_to_visit, halves to do
    removed,                 \* articles that a filter took out at some time
    late,                    \* articles that came (back) when their distance was known
    started, completed,      \* calls of dilate(); of those in both directions, the whole ones
    filtered                 \* filter_nodes_by_distance() has just returned

history == <<removed, late, started, completed, filtered>>
vars == <<wiki, region, visit, history>>

Idle == visit.todo = {}

Init ==
    /\ wiki \in Wikis
    /\ region = NewRegion(wiki.nearby)
    /\ visit = [nodes |-> {}, todo |-> {}, both |-> FALSE]
    /\ removed = {} /\ late = {}
    /\ started = 0 /\ completed = 0
    /\ filtered = FALSE

(* Faulty variant: what is about to be visited is marked at once. *)
dilate_marking(inbound, outbound) ==
    /\ Idle /\ started < MaxDilations
    /\ LET V == nodes_to_visit(region, inbound, outbound) IN
       /\ visit' = [nodes |-> V, both |-> inbound /\ outbound,
                    todo |-> {h \in {"ob", "ib"} : IF h = "ob" THEN outbound ELSE inbound}]
       /\ region' = [region EXCEPT !.ob = IF outbound THEN @ \cup V ELSE @,
                                   !.ib = IF inbound THEN @ \cup V ELSE @]
    /\ started' = started + 1
    /\ filtered' = FALSE
    /\ UNCHANGED <<wiki, removed, late, completed>>

(* dilate() is called: what it visits is settled for both halves. *)
dilate(inbound, outbound) ==
    /\ Idle /\ started < MaxDilations
    /\ visit' = [nodes |-> nodes_to_visit(region, inbound, outbound),
                 both |-> inbound /\ outbound,
                 todo |-> {h \in {"ob", "ib"} : IF h = "ob" THEN outbound ELSE inbound}]
    /\ started' = started + 1
    /\ filtered' = FALSE
    /\ UNCHANGED <<wiki, region, removed, late, completed>>

(* The region is r after half h. *)
Half(h, r) ==
    /\ region' = r
    /\ visit' = [visit EXCEPT !.todo = @ \ {h}]
    /\ late' = late \cup ((r.nodes \ region.nodes) \cap DOMAIN region.dists)
    /\ completed' = IF visit.both /\ visit.todo = {h} THEN completed + 1 ELSE completed
    /\ UNCHANGED <<wiki, removed, started, filtered>>

outbound_half ==
    /\ "ob" \in visit.todo
    /\ Half("ob", dilate_outbound(region, visit.nodes, OutLinks(wiki, visit.nodes)))

inbound_half ==
    /\ visit.todo = {"ib"}
    /\ Half("ib", dilate_inbound(region, visit.nodes, InLinks(wiki, visit.nodes)))

(* get_payload() raises in either half. *)
raise ==
    /\ ~Idle
    /\ visit' = [visit EXCEPT !.todo = {}]
    /\ UNCHANGED <<wiki, region, history>>

Filter(r) ==
    /\ Idle
    /\ region' = r
    /\ removed' = removed \cup (region.nodes \ r.nodes)
    /\ UNCHANGED <<wiki, visit, late, started, completed>>

filter_by_blacklist ==
    /\ Filter(filter_nodes_by_blacklist(region))
    /\ filtered' = FALSE

filter_by_distance ==
    /\ Filter(filter_nodes_by_distance(region, Placements(wiki, nodes_without_dists(region))))
    /\ filtered' = TRUE

Next ==
    \/ \E inbound, outbound \in BOOLEAN : (inbound \/ outbound) /\ dilate(inbound, outbound)
    \/ outbound_half \/ inbound_half \/ raise
    \/ filter_by_blacklist \/ filter_by_distance

Spec == Init /\ [][Next]_vars

-----------------------------------------------------------------------------
(* The articles within k links of S, in either direction. *)
Expand(w, B) == B \cup UNION {{e[1], e[2]} : e \in OutLinks(w, B) \cup InLinks(w, B)}

Ball(w, S) ==
    LET ball[k \in Nat] == IF k = 0 THEN S ELSE Expand(w, ball[k - 1])
    IN  ball

Far(n) == wiki.coords[n] # {} /\ \A d \in wiki.coords[n] : d > MaxDist

-----------------------------------------------------------------------------
(* The graph is one: its links are between its nodes. *)
TypeOK ==
    /\ wiki \in Wikis
    /\ region \in Regions
    /\ region.edges \subseteq region.nodes \X region.nodes
    /\ visit \in [nodes : SUBSET Articles, todo : SUBSET {"ob", "ib"}, both : BOOLEAN]
    /\ removed \subseteq Articles /\ late \subseteq Articles
    /\ started \in 0..MaxDilations /\ completed \in 0..started
    /\ filtered \in BOOLEAN

(* What visited_nodes_ob and _ib say is true: the links of an article in    *)
(* them are in the graph, but for those whose other end, or itself, was    *)
(* filtered.  A half that raised has not marked anything.                  *)
VisitedExpanded ==
    /\ \A e \in OutLinks(wiki, region.ob) : e \in region.edges \/ {e[1], e[2]} \cap removed # {}
    /\ \A e \in InLinks(wiki, region.ib) : e \in region.edges \/ {e[1], e[2]} \cap removed # {}

(* Whatever was called, raised and called again: a region reaches no       *)
(* further than its calls of dilate(), and (while nothing was filtered) as *)
(* far as those of them in both directions that were complete.             *)
RegionIsBall ==
    /\ region.nodes \subseteq Ball(wiki, region.seeds)[started]
    /\ removed = {} => Ball(wiki, region.seeds)[completed] \subseteq region.nodes

(* After filter_nodes_by_distance() the only far articles of the graph,    *)
(* seeds apart, are those that came in when their distance was known from  *)
(* an earlier filter.  (Distances come back under the title an article     *)
(* resolves to, so redirects have none.)                                   *)
FarOnlyIfLate ==
    filtered =>
        \A n \in region.nodes \ region.seeds :
            Far(n) /\ wiki.title[n] = n => n \in late
==============================================================================
