--------------------------- MODULE ArticleNetwork ----------------------------
(***************************************************************************)
(* One run of run_query() (tourguide_flaskapp/main.py) over an             *)
(* ArticleNetwork (article_network.py): look up the articles nearby, take  *)
(* the user's topics, grow both regions with calls to Wikipedia's API and  *)
(* look for chains of at most two links between them.                      *)
(*                                                                         *)
(* Every round of API calls is a step.  A call may raise (the handler dies,*)
(* nothing is answered).  Wikipedia may be edited between rounds and, as a *)
(* round comes in many requests (WikiRequester), while one is under way:   *)
(* what it yields may be from different moments, and less than there is,   *)
(* because an error body without "query" is read as an empty last batch.   *)
(***************************************************************************)
EXTENDS RegionSubGraph, Sequences

CONSTANTS
    Wikis,                   \* the Wikipedias to start from
    Topics,                  \* the sets of topics a session may hold
    Lossy,                   \* may API answers be truncated, and mix moments?
    TrivialPaths,            \* networkx >= 3.2: <<s>> is a path from s to s
    MaxEdits                 \* bound: edits while a query runs

Snapshots ==
    [links : SUBSET Links, title : [Articles -> Articles],
     coords : [Articles -> SUBSET Distances], nearby : SUBSET Articles]

ASSUME WikisAssumption ==
    Wikis \subseteq {w \in Snapshots : \A n \in Articles : w.title[w.title[n]] = w.title[n]}
ASSUME TopicsAssumption == Topics \subseteq SUBSET Articles
ASSUME SwitchesAssumption == Lossy \in BOOLEAN /\ TrivialPaths \in BOOLEAN
ASSUME EditsAssumption == MaxEdits \in Nat

VARIABLES
    wiki,         \* Wikipedia now
    ever,         \* every link it had since the query began
    edits,        \* edits so far
    asked,        \* session['topics']
    step,         \* where run_query() is
    nearby,       \* anet.nearby
    topics,       \* anet.topics
    visiting,     \* nodes_to_visit in dilate()
    all_paths     \* anet.all_paths, per topic

world == <<wiki, ever, edits, asked>>
vars == <<world, step, nearby, topics, visiting, all_paths>>

NoRegion == NewRegion({})
NoPaths == [t \in {} |-> {}]

CallSteps == {"add_nearby", "outbound_nearby", "inbound_nearby", "filter_nearby",
              "outbound_topics", "inbound_topics"}
Steps == CallSteps \cup {"add_topics", "filter_topics", "find_all_paths", "done", "failed"}

Paths == UNION {[1 .. k -> Articles] : k \in 1 .. 3}

TypeOK ==
    /\ wiki \in Snapshots
    /\ ever \subseteq Links
    /\ edits \in 0 .. MaxEdits
    /\ asked \in Topics
    /\ step \in Steps
    /\ nearby \in Regions
    /\ topics \in Regions
    /\ visiting \subseteq Articles
    /\ DOMAIN all_paths \subseteq Articles
    /\ \A t \in DOMAIN all_paths : all_paths[t] \subseteq Paths

Init ==
    /\ wiki \in Wikis
    /\ ever = wiki.links
    /\ edits = 0
    /\ asked \in Topics
    /\ step = "add_nearby"
    /\ nearby = NoRegion
    /\ topics = NoRegion
    /\ visiting = {}
    /\ all_paths = NoPaths

(* What a round of API calls may yield of the answer A, and the links that *)
(* it may be about.                                                        *)
Received(A) == IF Lossy THEN SUBSET A ELSE {A}
answering == IF Lossy THEN [wiki EXCEPT !.links = ever] ELSE wiki

add_nearby ==
    /\ step = "add_nearby"
    /\ \E S \in Received(wiki.nearby) : nearby' = NewRegion(S)
    /\ step' = "add_topics"
    /\ UNCHANGED <<world, topics, visiting, all_paths>>

(* add_topics(), then grow() computes what the first dilate() visits. *)
add_topics ==
    /\ step = "add_topics"
    /\ topics' = NewRegion(asked)
    /\ visiting' = nodes_to_visit(nearby, TRUE, TRUE)
    /\ step' = "outbound_nearby"
    /\ UNCHANGED <<world, nearby, all_paths>>

outbound_nearby ==
    /\ step = "outbound_nearby"
    /\ \E E \in Received(OutLinks(answering, visiting)) :
          nearby' = dilate_outbound(nearby, visiting, E)
    /\ step' = "inbound_nearby"
    /\ UNCHANGED <<world, topics, visiting, all_paths>>

inbound_nearby ==
    /\ step = "inbound_nearby"
    /\ \E E \in Received(InLinks(answering, visiting)) :
          nearby' = dilate_inbound(nearby, visiting, E)
    /\ step' = "filter_nearby"
    /\ UNCHANGED <<world, topics, visiting, all_paths>>

(* The two filters, then the second dilate() computes what it visits. *)
filter_nearby ==
    LET r == filter_nodes_by_blacklist(nearby) IN
    /\ step = "filter_nearby"
    /\ \E P \in Received(Placements(wiki, nodes_without_dists(r))) :
          nearby' = filter_nodes_by_distance(r, P)
    /\ visiting' = nodes_to_visit(topics, TRUE, TRUE)
    /\ step' = "outbound_topics"
    /\ UNCHANGED <<world, topics, all_paths>>

outbound_topics ==
    /\ step = "outbound_topics"
    /\ \E E \in Received(OutLinks(answering, visiting)) :
          topics' = dilate_outbound(topics, visiting, E)
    /\ step' = "inbound_topics"
    /\ UNCHANGED <<world, nearby, visiting, all_paths>>

inbound_topics ==
    /\ step = "inbound_topics"
    /\ \E E \in Received(InLinks(answering, visiting)) :
          topics' = dilate_inbound(topics, visiting, E)
    /\ step' = "filter_topics"
    /\ UNCHANGED <<world, nearby, visiting, all_paths>>

filter_topics ==
    /\ step = "filter_topics"
    /\ topics' = filter_nodes_by_blacklist(topics)
    /\ visiting' = {}
    /\ step' = "find_all_paths"
    /\ UNCHANGED <<world, nearby, all_paths>>

(* nx.compose() of the two graphs, read as undirected. *)
full_graph_nodes == nearby.nodes \cup topics.nodes
Adjacent(a, b) == {<<a, b>>, <<b, a>>} \cap (nearby.edges \cup topics.edges) # {}

seeds == nearby.seeds \cup topics.seeds

(* Faulty variants: seeds may be bridges; a chain may have a link more. *)
inter_nodes_any == full_graph_nodes

simple_paths_cutoff_3(s, t, inter) ==
    {<<s, x, t>> : x \in {y \in inter : s # t /\ Adjacent(s, y) /\ Adjacent(y, t)}} \cup
    {<<s, e[1], e[2], t>> : e \in {l \in inter \X inter :
        s # t /\ l[1] # l[2] /\ Adjacent(s, l[1]) /\ Adjacent(l[1], l[2]) /\ Adjacent(l[2], t)}}

inter_nodes == full_graph_nodes \ seeds

(* all_simple_paths(.., s, t, cutoff=2) in the subgraph of s, t and inter. *)
simple_paths(s, t, inter) ==
    IF s = t THEN {<<s>> : n \in {TRUE} \cap {TrivialPaths}}
    ELSE {<<s, t>> : n \in {TRUE} \cap {Adjacent(s, t)}} \cup
         {<<s, x, t>> : x \in {y \in inter : Adjacent(s, y) /\ Adjacent(y, t)}}

get_paths_to_topic(t) == UNION {simple_paths(s, t, inter_nodes) : s \in nearby.seeds}

(* A start that is missing from the graph raises NodeNotFound. *)
find_all_paths ==
    /\ step = "find_all_paths"
    /\ IF topics.seeds # {} /\ ~(nearby.seeds \subseteq full_graph_nodes)
       THEN step' = "failed" /\ UNCHANGED all_paths
       ELSE /\ step' = "done"
            /\ all_paths' = [t \in topics.seeds |-> get_paths_to_topic(t)]
    /\ UNCHANGED <<world, nearby, topics, visiting>>

(* Faulty variant: the status counts the topics that were searched. *)
path_status_keys ==
    IF step # "done" THEN "unknown"
    ELSE IF DOMAIN all_paths # {} THEN "has_paths"
    ELSE "no_paths"

path_status ==
    IF step # "done" THEN "unknown"
    ELSE IF \E t \in DOMAIN all_paths : all_paths[t] # {} THEN "has_paths"
    ELSE "no_paths"

(* A call raises, and with it the handler. *)
raise ==
    /\ step \in CallSteps
    /\ step' = "failed"
    /\ UNCHANGED <<world, nearby, topics, visiting, all_paths>>

(* An edit of Wikipedia adds or removes a link. *)
edit(e) ==
    /\ step \in Steps \ {"done", "failed"}
    /\ edits < MaxEdits
    /\ edits' = edits + 1
    /\ wiki' = [wiki EXCEPT !.links = (@ \cup {e}) \ (@ \cap {e})]
    /\ ever' = ever \cup {e}
    /\ UNCHANGED <<asked, step, nearby, topics, visiting, all_paths>>

Next ==
    \/ add_nearby
    \/ add_topics
    \/ outbound_nearby
    \/ inbound_nearby
    \/ filter_nearby
    \/ outbound_topics
    \/ inbound_topics
    \/ filter_topics
    \/ find_all_paths
    \/ raise
    \/ \E e \in Links : edit(e)

Spec == Init /\ [][Next]_vars
------------------------------------------------------------------------------
(* Properties. *)

(* No filter takes a seed out of its graph: find_all_paths() starts and    *)
(* ends its chains at seeds, and networkx raises if a start is missing.    *)
SeedsStay ==
    /\ nearby.seeds \subseteq nearby.nodes
    /\ topics.seeds \subseteq topics.nodes

(* However calls failed to answer and edits fell between them, a chain     *)
(* that is shown leads from an article nearby to a topic the user asked    *)
(* for, over links Wikipedia had while the query ran, and the article in   *)
(* between is neither a seed nor blacklisted.                              *)
LinkedEver(a, b) == {<<a, b>>, <<b, a>>} \cap ever # {}

Sound(p, t) ==
    /\ p[1] \in wiki.nearby /\ p[Len(p)] = t
    /\ \A k \in 1 .. Len(p) - 1 : LinkedEver(p[k], p[k + 1])
    /\ \A k \in 2 .. Len(p) - 1 : p[k] \notin seeds \cup Blacklist

PathsSound ==
    /\ DOMAIN all_paths \subseteq asked
    /\ \A t \in DOMAIN all_paths : \A p \in all_paths[t] : Sound(p, t)

(* If Wikipedia answers in full and stands still, exactly the right chains *)
(* are found between seeds that are named as Wikipedia names them: direct  *)
(* links, and bridges that are neither seeds nor blacklisted, as far as a  *)
(* link of the start to y is Reached: through the region nearby, unless y  *)
(* is blacklisted or far; or through the topics' region, which is not      *)
(* filtered by distance, if the link is one of a topic's, unless the start *)
(* is blacklisted.  (A redirect has no coordinates, so is never far.)      *)
Linked(a, b) == {<<a, b>>, <<b, a>>} \cap wiki.links # {}

Far(n) == /\ wiki.title[n] = n
          /\ wiki.coords[n] # {}
          /\ \A d \in wiki.coords[n] : d > MaxDist

Reached(s, y) ==
    /\ Linked(s, y)
    /\ \/ y \in wiki.nearby
       \/ y \notin Blacklist /\ ~Far(y)
       \/ s \notin Blacklist \ asked /\ \E u \in asked : wiki.title[u] \in {s, y}

Bridges(s, t) == {x \in Articles \ (seeds \cup Blacklist) : Reached(s, x) /\ Linked(x, t)}

PathsExact ==
    step = "done" =>
        \A t \in asked : \A s \in wiki.nearby :
            wiki.title[s] = s /\ wiki.title[t] = t /\ s # t =>
                {p \in all_paths[t] : p[1] = s} =
                    {<<s, x, t>> : x \in Bridges(s, t)} \cup
                    {<<s, t>> : n \in {TRUE} \cap {Reached(s, t)}}
==============================================================================
