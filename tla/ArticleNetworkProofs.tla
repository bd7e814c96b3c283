------------------------ MODULE ArticleNetworkProofs -------------------------
(***************************************************************************)
(* Theorems about ArticleNetwork and AnswerLists for any Wikipedia and any *)
(* topics.  With any number of edits and answers in full or truncated: the *)
(* type invariant, that seeds stay in their graphs, that chains are sound, *)
(* and that the menus show all of them.  With full answers and no edit:    *)
(* that the chains are exact.  Filtered and the lemmas on operators are    *)
(* those of RegionSubGraphProofs.                                          *)
(***************************************************************************)
EXTENDS AnswerLists, RegionSubGraphProofs, SequenceTheorems, TLAPS

(* Chains exist only at the end. *)
NoPathsYet == step # "done" => all_paths = NoPaths

(* Whatever is in a graph was on Wikipedia. *)
EdgesEver == wiki.links \cup nearby.edges \cup topics.edges \subseteq ever

SeedsKnown == nearby.seeds \subseteq wiki.nearby /\ topics.seeds \subseteq asked

NearbyFiltered ==
    step \in {"outbound_topics", "inbound_topics", "filter_topics", "find_all_paths", "done"}
        => Filtered(nearby)

TopicsFiltered == step \in {"find_all_paths", "done"} => Filtered(topics)

Inv ==
    /\ TypeOK
    /\ NoPathsYet
    /\ EdgesEver
    /\ SeedsKnown
    /\ SeedsStay
    /\ NearbyFiltered
    /\ TopicsFiltered
    /\ PathsSound
------------------------------------------------------------------------------
(* A region may be empty, or hold whatever Wikipedia answered. *)

LEMMA ReceivedSubset ==
    ASSUME NEW A, NEW B \in Received(A)
    PROVE  B \subseteq A
BY DEF Received

LEMMA InitInv == Init => Inv
<1> SUFFICES ASSUME Init PROVE Inv
    OBVIOUS
<1>1. NoRegion \in Regions /\ NoRegion.seeds = {} /\ NoRegion.nodes = {} /\ NoRegion.edges = {}
    BY NewRegionFacts DEF NoRegion
<1>2. wiki \in Snapshots
    BY WikisAssumption DEF Init
<1>3. DOMAIN NoPaths = {}
    BY DEF NoPaths
<1>4. TypeOK
    BY <1>1, <1>2, <1>3, EditsAssumption DEF Init, TypeOK, Steps, CallSteps, Snapshots
<1>5. NoPathsYet /\ NearbyFiltered /\ TopicsFiltered
    BY DEF Init, NoPathsYet, NearbyFiltered, TopicsFiltered
<1>6. EdgesEver /\ SeedsKnown /\ SeedsStay
    BY <1>1 DEF Init, EdgesEver, SeedsKnown, SeedsStay
<1>7. PathsSound
    BY <1>3 DEF Init, PathsSound
<1>8. QED
    BY <1>4, <1>5, <1>6, <1>7 DEF Inv

LEMMA NoPathsTyped ==
    /\ DOMAIN NoPaths \subseteq Articles
    /\ \A t \in DOMAIN NoPaths : NoPaths[t] \subseteq Paths
BY DEF NoPaths

LEMMA AddNearbyInv == Inv /\ add_nearby => Inv'
<1> SUFFICES ASSUME Inv, add_nearby PROVE Inv'
    OBVIOUS
<1>1. PICK S \in Received(wiki.nearby) : nearby' = NewRegion(S)
    BY DEF add_nearby
<1>2. S \subseteq wiki.nearby /\ S \subseteq Articles
    BY <1>1, ReceivedSubset DEF Inv, TypeOK, Snapshots
<1>3. /\ nearby' \in Regions
      /\ nearby'.seeds = S /\ nearby'.nodes = S /\ nearby'.edges = {}
    BY <1>1, <1>2, NewRegionFacts
<1>4. all_paths' = NoPaths /\ step' = "add_topics" /\ UNCHANGED <<wiki, ever, edits, asked, topics, visiting>>
    BY DEF Inv, add_nearby, NoPathsYet, world
<1>5. TypeOK'
    BY <1>3, <1>4, NoPathsTyped DEF Inv, TypeOK, Steps, CallSteps
<1>6. NoPathsYet' /\ NearbyFiltered' /\ TopicsFiltered'
    BY <1>4 DEF NoPathsYet, NearbyFiltered, TopicsFiltered
<1>7. EdgesEver' /\ SeedsKnown' /\ SeedsStay'
    BY <1>2, <1>3, <1>4 DEF Inv, EdgesEver, SeedsKnown, SeedsStay
<1>8. PathsSound'
    BY <1>4 DEF NoPaths, PathsSound
<1>9. QED
    BY <1>5, <1>6, <1>7, <1>8 DEF Inv

LEMMA AddTopicsInv == Inv /\ add_topics => Inv'
<1> SUFFICES ASSUME Inv, add_topics PROVE Inv'
    OBVIOUS
<1>1. asked \subseteq Articles
    BY TopicsAssumption DEF Inv, TypeOK
<1>2. /\ topics' \in Regions
      /\ topics'.seeds = asked /\ topics'.nodes = asked /\ topics'.edges = {}
    BY <1>1, NewRegionFacts DEF add_topics
<1>3. visiting' \subseteq Articles
    BY DEF add_topics, nodes_to_visit, Inv, TypeOK, Regions
<1>4. all_paths' = NoPaths /\ step' = "outbound_nearby" /\ UNCHANGED <<wiki, ever, edits, asked, nearby>>
    BY DEF Inv, add_topics, NoPathsYet, world
<1>5. TypeOK'
    BY <1>2, <1>3, <1>4, NoPathsTyped DEF Inv, TypeOK, Steps, CallSteps
<1>6. NoPathsYet' /\ NearbyFiltered' /\ TopicsFiltered'
    BY <1>4 DEF NoPathsYet, NearbyFiltered, TopicsFiltered
<1>7. EdgesEver' /\ SeedsKnown' /\ SeedsStay'
    BY <1>2, <1>4 DEF Inv, EdgesEver, SeedsKnown, SeedsStay
<1>8. PathsSound'
    BY <1>4 DEF NoPaths, PathsSound
<1>9. QED
    BY <1>5, <1>6, <1>7, <1>8 DEF Inv

(* Fetched links were on Wikipedia. *)
LEMMA FetchedEver ==
    ASSUME Inv, NEW E \in Received(OutLinks(answering, visiting))
                          \cup Received(InLinks(answering, visiting))
    PROVE  E \subseteq Links /\ E \subseteq ever
<1>1. E \subseteq answering.links
    BY ReceivedSubset DEF OutLinks, InLinks
<1>2. answering.links \subseteq ever
    BY DEF answering, Inv, TypeOK, Snapshots, EdgesEver
<1>3. QED
    BY <1>1, <1>2 DEF Inv, TypeOK

LEMMA OutboundNearbyInv == Inv /\ outbound_nearby => Inv'
<1> SUFFICES ASSUME Inv, outbound_nearby PROVE Inv'
    OBVIOUS
<1>1. PICK E \in Received(OutLinks(answering, visiting)) : nearby' = dilate_outbound(nearby, visiting, E)
    BY DEF outbound_nearby
<1>2. E \subseteq Links /\ E \subseteq ever
    BY <1>1, FetchedEver
<1>3. nearby' \in Regions /\ Grown(nearby, nearby') /\ nearby'.edges = nearby.edges \cup E
    BY <1>1, <1>2, DilateFacts DEF Inv, TypeOK
<1>4. all_paths' = NoPaths /\ step' = "inbound_nearby" /\ UNCHANGED <<wiki, ever, edits, asked, topics, visiting>>
    BY DEF Inv, outbound_nearby, NoPathsYet, world
<1>5. TypeOK'
    BY <1>3, <1>4, NoPathsTyped DEF Inv, TypeOK, Steps, CallSteps
<1>6. NoPathsYet' /\ NearbyFiltered' /\ TopicsFiltered'
    BY <1>4 DEF outbound_nearby, Inv, NoPathsYet, NearbyFiltered, TopicsFiltered, Filtered
<1>7. EdgesEver' /\ SeedsKnown' /\ SeedsStay'
    BY <1>2, <1>3, <1>4 DEF Inv, EdgesEver, SeedsKnown, SeedsStay, Grown
<1>8. PathsSound'
    BY <1>4 DEF NoPaths, PathsSound
<1>9. QED
    BY <1>5, <1>6, <1>7, <1>8 DEF Inv

LEMMA InboundNearbyInv == Inv /\ inbound_nearby => Inv'
<1> SUFFICES ASSUME Inv, inbound_nearby PROVE Inv'
    OBVIOUS
<1>1. PICK E \in Received(InLinks(answering, visiting)) : nearby' = dilate_inbound(nearby, visiting, E)
    BY DEF inbound_nearby
<1>2. E \subseteq Links /\ E \subseteq ever
    BY <1>1, FetchedEver
<1>3. nearby' \in Regions /\ Grown(nearby, nearby') /\ nearby'.edges = nearby.edges \cup E
    BY <1>1, <1>2, DilateFacts DEF Inv, TypeOK
<1>4. all_paths' = NoPaths /\ step' = "filter_nearby" /\ UNCHANGED <<wiki, ever, edits, asked, topics, visiting>>
    BY DEF Inv, inbound_nearby, NoPathsYet, world
<1>5. TypeOK'
    BY <1>3, <1>4, NoPathsTyped DEF Inv, TypeOK, Steps, CallSteps
<1>6. NoPathsYet' /\ NearbyFiltered' /\ TopicsFiltered'
    BY <1>4 DEF inbound_nearby, Inv, NoPathsYet, NearbyFiltered, TopicsFiltered, Filtered
<1>7. EdgesEver' /\ SeedsKnown' /\ SeedsStay'
    BY <1>2, <1>3, <1>4 DEF Inv, EdgesEver, SeedsKnown, SeedsStay, Grown
<1>8. PathsSound'
    BY <1>4 DEF NoPaths, PathsSound
<1>9. QED
    BY <1>5, <1>6, <1>7, <1>8 DEF Inv

LEMMA OutboundTopicsInv == Inv /\ outbound_topics => Inv'
<1> SUFFICES ASSUME Inv, outbound_topics PROVE Inv'
    OBVIOUS
<1>1. PICK E \in Received(OutLinks(answering, visiting)) : topics' = dilate_outbound(topics, visiting, E)
    BY DEF outbound_topics
<1>2. E \subseteq Links /\ E \subseteq ever
    BY <1>1, FetchedEver
<1>3. topics' \in Regions /\ Grown(topics, topics') /\ topics'.edges = topics.edges \cup E
    BY <1>1, <1>2, DilateFacts DEF Inv, TypeOK
<1>4. all_paths' = NoPaths /\ step' = "inbound_topics" /\ UNCHANGED <<wiki, ever, edits, asked, nearby, visiting>>
    BY DEF Inv, outbound_topics, NoPathsYet, world
<1>5. TypeOK'
    BY <1>3, <1>4, NoPathsTyped DEF Inv, TypeOK, Steps, CallSteps
<1>6. NoPathsYet' /\ NearbyFiltered' /\ TopicsFiltered'
    BY <1>4 DEF outbound_topics, Inv, NoPathsYet, NearbyFiltered, TopicsFiltered, Filtered
<1>7. EdgesEver' /\ SeedsKnown' /\ SeedsStay'
    BY <1>2, <1>3, <1>4 DEF Inv, EdgesEver, SeedsKnown, SeedsStay, Grown
<1>8. PathsSound'
    BY <1>4 DEF NoPaths, PathsSound
<1>9. QED
    BY <1>5, <1>6, <1>7, <1>8 DEF Inv

LEMMA InboundTopicsInv == Inv /\ inbound_topics => Inv'
<1> SUFFICES ASSUME Inv, inbound_topics PROVE Inv'
    OBVIOUS
<1>1. PICK E \in Received(InLinks(answering, visiting)) : topics' = dilate_inbound(topics, visiting, E)
    BY DEF inbound_topics
<1>2. E \subseteq Links /\ E \subseteq ever
    BY <1>1, FetchedEver
<1>3. topics' \in Regions /\ Grown(topics, topics') /\ topics'.edges = topics.edges \cup E
    BY <1>1, <1>2, DilateFacts DEF Inv, TypeOK
<1>4. all_paths' = NoPaths /\ step' = "filter_topics" /\ UNCHANGED <<wiki, ever, edits, asked, nearby, visiting>>
    BY DEF Inv, inbound_topics, NoPathsYet, world
<1>5. TypeOK'
    BY <1>3, <1>4, NoPathsTyped DEF Inv, TypeOK, Steps, CallSteps
<1>6. NoPathsYet' /\ NearbyFiltered' /\ TopicsFiltered'
    BY <1>4 DEF inbound_topics, Inv, NoPathsYet, NearbyFiltered, TopicsFiltered, Filtered
<1>7. EdgesEver' /\ SeedsKnown' /\ SeedsStay'
    BY <1>2, <1>3, <1>4 DEF Inv, EdgesEver, SeedsKnown, SeedsStay, Grown
<1>8. PathsSound'
    BY <1>4 DEF NoPaths, PathsSound
<1>9. QED
    BY <1>5, <1>6, <1>7, <1>8 DEF Inv

LEMMA FilterNearbyInv == Inv /\ filter_nearby => Inv'
<1> SUFFICES ASSUME Inv, filter_nearby PROVE Inv'
    OBVIOUS
<1> DEFINE r == filter_nodes_by_blacklist(nearby)
<1>1. PICK P \in Received(Placements(wiki, nodes_without_dists(r))) :
          nearby' = filter_nodes_by_distance(r, P)
    BY DEF filter_nearby
<1>2. P \in SUBSET (Articles \X Distances)
    BY <1>1, ReceivedSubset DEF Placements
<1>3. r \in Regions /\ Shrunk(nearby, r) /\ Filtered(r)
    BY BlacklistFacts DEF Inv, TypeOK
<1> HIDE DEF r
<1>4. nearby' \in Regions /\ Shrunk(r, nearby')
    BY <1>1, <1>2, <1>3, DistanceFacts
<1>5. Filtered(nearby') /\ nearby'.seeds = nearby.seeds /\ nearby'.edges \subseteq nearby.edges
    BY <1>3, <1>4 DEF Shrunk, Filtered
<1>6. nearby'.seeds \subseteq nearby'.nodes
    BY <1>3, <1>4 DEF Shrunk, Inv, SeedsStay
<1>7. visiting' \subseteq Articles
    BY DEF filter_nearby, nodes_to_visit, Inv, TypeOK, Regions
<1>8. all_paths' = NoPaths /\ step' = "outbound_topics" /\ UNCHANGED <<wiki, ever, edits, asked, topics>>
    BY DEF Inv, filter_nearby, NoPathsYet, world
<1>9. TypeOK'
    BY <1>4, <1>7, <1>8, NoPathsTyped DEF Inv, TypeOK, Steps, CallSteps
<1>10. NoPathsYet' /\ NearbyFiltered' /\ TopicsFiltered'
    BY <1>5, <1>8 DEF NoPathsYet, NearbyFiltered, TopicsFiltered, Filtered
<1>11. EdgesEver' /\ SeedsKnown' /\ SeedsStay'
    BY <1>5, <1>6, <1>8 DEF Inv, EdgesEver, SeedsKnown, SeedsStay
<1>12. PathsSound'
    BY <1>8 DEF NoPaths, PathsSound
<1>13. QED
    BY <1>9, <1>10, <1>11, <1>12 DEF Inv

LEMMA FilterTopicsInv == Inv /\ filter_topics => Inv'
<1> SUFFICES ASSUME Inv, filter_topics PROVE Inv'
    OBVIOUS
<1>1. topics' \in Regions /\ Shrunk(topics, topics') /\ Filtered(topics')
    BY BlacklistFacts DEF filter_topics, Inv, TypeOK
<1>2. /\ all_paths' = NoPaths /\ step' = "find_all_paths" /\ visiting' = {}
      /\ UNCHANGED <<wiki, ever, edits, asked, nearby>>
    BY DEF Inv, filter_topics, NoPathsYet, world
<1>3. TypeOK'
    BY <1>1, <1>2, NoPathsTyped DEF Inv, TypeOK, Steps, CallSteps
<1>4. NoPathsYet' /\ NearbyFiltered' /\ TopicsFiltered'
    BY <1>1, <1>2 DEF filter_topics, Inv, NoPathsYet, NearbyFiltered, TopicsFiltered, Filtered
<1>5. EdgesEver' /\ SeedsKnown' /\ SeedsStay'
    BY <1>1, <1>2 DEF Inv, EdgesEver, SeedsKnown, SeedsStay, Shrunk
<1>6. PathsSound'
    BY <1>2 DEF NoPaths, PathsSound
<1>7. QED
    BY <1>3, <1>4, <1>5, <1>6 DEF Inv

------------------------------------------------------------------------------
(* The chains.                                                             *)

LEMMA AdjacentEver ==
    ASSUME Inv, NEW a, NEW b, Adjacent(a, b)
    PROVE  LinkedEver(a, b)
BY DEF Inv, EdgesEver, Adjacent, LinkedEver

(* A bridge is no seed, and both graphs were filtered. *)
LEMMA InterNodes ==
    ASSUME Inv, step \in {"find_all_paths", "done"}, NEW x \in inter_nodes
    PROVE  x \in Articles /\ x \notin seeds \cup Blacklist
<1>1. x \in nearby.nodes \cup topics.nodes /\ x \notin nearby.seeds \cup topics.seeds
    BY DEF inter_nodes, full_graph_nodes, seeds
<1>2. Filtered(nearby) /\ Filtered(topics)
    BY DEF Inv, NearbyFiltered, TopicsFiltered
<1>3. x \notin Blacklist
    BY <1>1, <1>2 DEF Filtered
<1>4. x \in Articles
    BY <1>1 DEF Inv, TypeOK, Regions
<1>5. QED
    BY <1>1, <1>3, <1>4 DEF seeds

LEMMA SimplePathsSound ==
    ASSUME Inv, step = "find_all_paths", NEW s \in nearby.seeds, NEW t \in topics.seeds,
           NEW p \in simple_paths(s, t, inter_nodes)
    PROVE  Sound(p, t) /\ p \in Paths
<1>1. s \in Articles /\ t \in Articles /\ s \in wiki.nearby
    BY DEF Inv, TypeOK, Regions, SeedsKnown
<1>2. CASE s = t /\ p = <<s>>
    <2>1. Len(p) = 1 /\ p[1] = s /\ p \in [1 .. 1 -> Articles]
        BY <1>1, <1>2
    <2>2. QED
        BY <1>1, <1>2, <2>1 DEF Sound, Paths
<1>3. CASE Adjacent(s, t) /\ p = <<s, t>>
    <2>1. Len(p) = 2 /\ p[1] = s /\ p[2] = t /\ p \in [1 .. 2 -> Articles]
        BY <1>1, <1>3
    <2>2. LinkedEver(s, t)
        BY <1>3, AdjacentEver
    <2>3. QED
        BY <1>1, <2>1, <2>2 DEF Sound, Paths
<1>4. CASE \E x \in inter_nodes : Adjacent(s, x) /\ Adjacent(x, t) /\ p = <<s, x, t>>
    <2>1. PICK x \in inter_nodes : Adjacent(s, x) /\ Adjacent(x, t) /\ p = <<s, x, t>>
        BY <1>4
    <2>2. x \in Articles /\ x \notin seeds \cup Blacklist
        BY InterNodes
    <2>3. Len(p) = 3 /\ p[1] = s /\ p[2] = x /\ p[3] = t /\ p \in [1 .. 3 -> Articles]
        BY <1>1, <2>1, <2>2
    <2>4. LinkedEver(s, x) /\ LinkedEver(x, t)
        BY <2>1, AdjacentEver
    <2>5. \A k \in 1 .. Len(p) - 1 : LinkedEver(p[k], p[k + 1])
        <3>1. \A k \in 1 .. Len(p) - 1 : k = 1 \/ k = 2
            BY <2>3
        <3>2. QED
            BY <2>3, <2>4, <3>1
    <2>6. \A k \in 2 .. Len(p) - 1 : p[k] \notin seeds \cup Blacklist
        <3>1. \A k \in 2 .. Len(p) - 1 : k = 2
            BY <2>3
        <3>2. QED
            BY <2>2, <2>3, <3>1
    <2>7. QED
        BY <1>1, <2>3, <2>5, <2>6 DEF Sound, Paths
<1>5. QED
    BY <1>2, <1>3, <1>4 DEF simple_paths

LEMMA FindAllPathsInv == Inv /\ find_all_paths => Inv'
<1> SUFFICES ASSUME Inv, find_all_paths PROVE Inv'
    OBVIOUS
<1>1. step = "find_all_paths" /\ UNCHANGED <<wiki, ever, edits, asked, nearby, topics, visiting>>
    BY DEF find_all_paths, world
<1>2. NearbyFiltered' /\ TopicsFiltered'
    BY <1>1 DEF Inv, NearbyFiltered, TopicsFiltered, Filtered
<1>3. EdgesEver' /\ SeedsKnown' /\ SeedsStay'
    BY <1>1 DEF Inv, EdgesEver, SeedsKnown, SeedsStay
<1>4. CASE step' = "failed" /\ UNCHANGED all_paths
    <2>1. all_paths' = NoPaths
        BY <1>1, <1>4 DEF Inv, NoPathsYet
    <2>2. TypeOK' /\ NoPathsYet'
        BY <1>1, <1>4, <2>1, NoPathsTyped DEF Inv, TypeOK, Steps, CallSteps, NoPathsYet
    <2>3. PathsSound'
        BY <2>1 DEF NoPaths, PathsSound
    <2>4. QED
        BY <1>2, <1>3, <2>2, <2>3 DEF Inv
<1>5. CASE step' = "done" /\ all_paths' = [t \in topics.seeds |-> get_paths_to_topic(t)]
    <2>1. \A t \in topics.seeds : \A p \in all_paths'[t] : Sound(p, t) /\ p \in Paths
        BY <1>1, <1>5, SimplePathsSound DEF get_paths_to_topic
    <2>2. DOMAIN all_paths' = topics.seeds
        BY <1>5
    <2>3. \A t \in topics.seeds : \A p \in all_paths'[t] : Sound(p, t)'
        BY <1>1, <2>1 DEF Sound, LinkedEver, seeds
    <2>4. PathsSound'
        BY <1>1, <2>2, <2>3 DEF PathsSound, Inv, SeedsKnown
    <2>5. topics.seeds \subseteq Articles
        BY DEF Inv, TypeOK, Regions
    <2>6. TypeOK' /\ NoPathsYet'
        BY <1>1, <1>5, <2>1, <2>2, <2>5 DEF Inv, TypeOK, Steps, NoPathsYet
    <2>7. QED
        BY <1>2, <1>3, <2>4, <2>6 DEF Inv
<1>6. QED
    BY <1>4, <1>5 DEF find_all_paths

LEMMA RaiseInv == Inv /\ raise => Inv'
<1> SUFFICES ASSUME Inv, raise PROVE Inv'
    OBVIOUS
<1>1. /\ all_paths' = NoPaths /\ step' = "failed"
      /\ UNCHANGED <<wiki, ever, edits, asked, nearby, topics, visiting>>
    BY DEF Inv, raise, NoPathsYet, CallSteps, world
<1>2. TypeOK'
    BY <1>1, NoPathsTyped DEF Inv, TypeOK, Steps, CallSteps
<1>3. NoPathsYet' /\ NearbyFiltered' /\ TopicsFiltered'
    BY <1>1 DEF NoPathsYet, NearbyFiltered, TopicsFiltered
<1>4. EdgesEver' /\ SeedsKnown' /\ SeedsStay'
    BY <1>1 DEF Inv, EdgesEver, SeedsKnown, SeedsStay
<1>5. PathsSound'
    BY <1>1 DEF NoPaths, PathsSound
<1>6. QED
    BY <1>2, <1>3, <1>4, <1>5 DEF Inv

LEMMA EditInv == ASSUME NEW e \in Links PROVE Inv /\ edit(e) => Inv'
<1> SUFFICES ASSUME Inv, edit(e) PROVE Inv'
    OBVIOUS
<1>1. /\ all_paths' = NoPaths /\ step # "done"
      /\ UNCHANGED <<asked, step, nearby, topics, visiting>>
    BY DEF Inv, edit, NoPathsYet
<1>2. wiki \in Snapshots
    BY DEF Inv, TypeOK
<1>3. /\ wiki' \in Snapshots /\ wiki'.nearby = wiki.nearby
      /\ wiki'.links \subseteq wiki.links \cup {e}
    BY <1>2 DEF edit, Snapshots
<1>4. ever' = ever \cup {e}
    BY DEF edit
<1>5. edits' \in 0 .. MaxEdits
    BY EditsAssumption DEF edit, Inv, TypeOK
<1>6. TypeOK'
    BY <1>1, <1>3, <1>4, <1>5, NoPathsTyped DEF Inv, TypeOK
<1>7. NoPathsYet' /\ NearbyFiltered' /\ TopicsFiltered'
    BY <1>1 DEF Inv, NoPathsYet, NearbyFiltered, TopicsFiltered, Filtered
<1>8. EdgesEver' /\ SeedsKnown' /\ SeedsStay'
    BY <1>1, <1>3, <1>4 DEF Inv, EdgesEver, SeedsKnown, SeedsStay
<1>9. PathsSound'
    BY <1>1 DEF NoPaths, PathsSound
<1>10. QED
    BY <1>6, <1>7, <1>8, <1>9 DEF Inv

LEMMA StutterInv == Inv /\ UNCHANGED vars => Inv'
BY DEF Inv, TypeOK, NoPathsYet, EdgesEver, SeedsKnown, SeedsStay, NearbyFiltered,
       TopicsFiltered, Filtered, PathsSound, Sound, LinkedEver, seeds, vars, world
------------------------------------------------------------------------------
(* The theorems. *)

LEMMA NextInv == Inv /\ [Next]_vars => Inv'
BY AddNearbyInv, AddTopicsInv, OutboundNearbyInv, InboundNearbyInv, FilterNearbyInv,
   OutboundTopicsInv, InboundTopicsInv, FilterTopicsInv, FindAllPathsInv, RaiseInv,
   EditInv, StutterInv DEF Next

LEMMA Invariance == Spec => []Inv
BY InitInv, NextInv, PTL DEF Spec

(* Every variable has its type, whatever Wikipedia answers: among others,  *)
(* only articles are visited and only chains of up to three articles are   *)
(* shown.                                                                  *)
THEOREM NetworkTyped == Spec => []TypeOK
<1>1. Inv => TypeOK
    BY DEF Inv
<1>2. QED
    BY <1>1, Invariance, PTL

(* find_all_paths() never meets a start that is missing from its graph, as *)
(* no filter in region_subgraph.py takes out a seed.                       *)
THEOREM SeedsAlwaysStay == Spec => []SeedsStay
<1>1. Inv => SeedsStay
    BY DEF Inv
<1>2. QED
    BY <1>1, Invariance, PTL

(* However Wikipedia was edited while run_query() ran and whatever part of *)
(* its answers went missing, the chains shown are made of links Wikipedia  *)
(* had during the query, through neither seeds nor blacklisted articles.   *)
THEOREM PathsAlwaysSound == Spec => []PathsSound
<1>1. Inv => PathsSound
    BY DEF Inv
<1>2. QED
    BY <1>1, Invariance, PTL

------------------------------------------------------------------------------
(* When Wikipedia answers in full and stands still: what the two graphs    *)
(* are at every step.                                                      *)

LinksOf(S) == OutLinks(wiki, S) \cup InLinks(wiki, S)

(* A region grown from S that has the links E. *)
Shape(r, S, E) ==
    /\ r.seeds = S /\ r.nodes = S \cup Ends(E) /\ r.edges = E
    /\ DOMAIN r.dists = {}

(* What the filters of either graph leave of its articles. *)
KeptNearby(n) == n \in wiki.nearby \/ (n \notin Blacklist /\ ~Far(n))
KeptTopics(n) == n \in asked \/ n \notin Blacklist

NearbyDone ==
    /\ nearby.seeds = wiki.nearby
    /\ nearby.edges = {e \in LinksOf(wiki.nearby) : KeptNearby(e[1]) /\ KeptNearby(e[2])}

NearbyShape ==
    /\ step \in {"add_topics", "outbound_nearby"} => nearby = NewRegion(wiki.nearby)
    /\ step \in {"outbound_nearby", "inbound_nearby"} => visiting = wiki.nearby
    /\ step = "inbound_nearby" => Shape(nearby, wiki.nearby, OutLinks(wiki, wiki.nearby))
    /\ step = "filter_nearby" => Shape(nearby, wiki.nearby, LinksOf(wiki.nearby))
    /\ step \in {"outbound_topics", "inbound_topics", "filter_topics", "find_all_paths", "done"}
          => NearbyDone

TopicsDone ==
    /\ topics.seeds = asked
    /\ topics.nodes = {n \in asked \cup Ends(LinksOf(asked)) : KeptTopics(n)}
    /\ topics.edges = {e \in LinksOf(asked) : KeptTopics(e[1]) /\ KeptTopics(e[2])}

TopicsShape ==
    /\ step \in {"outbound_nearby", "inbound_nearby", "filter_nearby", "outbound_topics"}
          => topics = NewRegion(asked)
    /\ step \in {"outbound_topics", "inbound_topics"} => visiting = asked
    /\ step = "inbound_topics" => Shape(topics, asked, OutLinks(wiki, asked))
    /\ step = "filter_topics" => Shape(topics, asked, LinksOf(asked))
    /\ step \in {"find_all_paths", "done"} => TopicsDone

ChainsDone == step = "done" => all_paths = [t \in asked |-> get_paths_to_topic(t)]

Still == wiki \in Wikis /\ NearbyShape /\ TopicsShape /\ ChainsDone

LEMMA NewShape ==
    ASSUME NEW S \in SUBSET Articles
    PROVE  /\ Shape(NewRegion(S), S, {})
           /\ nodes_to_visit(NewRegion(S), TRUE, TRUE) = S
BY DEF Shape, NewRegion, nodes_to_visit, Ends

LEMMA DilateShape ==
    ASSUME NEW r \in Regions, NEW V \in SUBSET Articles, NEW E \in SUBSET Links,
           NEW S, NEW F, Shape(r, S, F),
           NEW q \in {dilate_outbound(r, V, E), dilate_inbound(r, V, E)}
    PROVE  Shape(q, S, F \cup E)
<1> DEFINE a == add_edges_from(r, E)
<1>1. Ends(F \cup E) = Ends(F) \cup {e[1] : e \in E} \cup {e[2] : e \in E}
    BY DEF Ends
<1>2. /\ a.seeds = r.seeds /\ a.edges = r.edges \cup E /\ a.dists = r.dists
      /\ a.nodes = r.nodes \cup {e[1] : e \in E} \cup {e[2] : e \in E}
    BY DEF add_edges_from, Regions
<1>3. a \in Regions
    BY AddEdgesFacts
<1>4. q = [a EXCEPT !.ob = @ \cup V] \/ q = [a EXCEPT !.ib = @ \cup V]
    BY DEF dilate_outbound, dilate_inbound
<1> HIDE DEF a
<1>5. q.seeds = a.seeds /\ q.nodes = a.nodes /\ q.edges = a.edges /\ q.dists = a.dists
    BY <1>3, <1>4 DEF Regions
<1>6. QED
    BY <1>1, <1>2, <1>5 DEF Shape

(* What the blacklist leaves of a region. *)
LEMMA BlacklistShape ==
    ASSUME NEW r \in Regions, NEW S, NEW E, Shape(r, S, E)
    PROVE  LET q == filter_nodes_by_blacklist(r)
               kept(n) == n \in S \/ n \notin Blacklist
           IN  /\ q \in Regions /\ q.seeds = S /\ DOMAIN q.dists = {}
               /\ q.nodes = {n \in S \cup Ends(E) : kept(n)}
               /\ q.edges = {e \in E : kept(e[1]) /\ kept(e[2])}
<1>1. PICK q : q = remove_nodes_from(r, Blacklist \ r.seeds)
    OBVIOUS
<1>2. /\ q \in Regions /\ q.seeds = r.seeds /\ q.dists = r.dists
      /\ q.nodes = r.nodes \ (Blacklist \ r.seeds)
      /\ q.edges = {e \in r.edges : e[1] \notin Blacklist \ r.seeds /\ e[2] \notin Blacklist \ r.seeds}
    BY <1>1 DEF remove_nodes_from, Regions
<1>3. q = filter_nodes_by_blacklist(r)
    BY <1>1 DEF filter_nodes_by_blacklist
<1>4. QED
    BY <1>2, <1>3 DEF Shape

(* If all articles are asked for, Nearest is greater than MaxDist for the  *)
(* far ones only: those that answer under another title have none.         *)
LEMMA NearestFar ==
    ASSUME wiki \in Wikis, NEW V \in SUBSET Articles, NEW n \in V
    PROVE  Nearest(Placements(wiki, V), n) > MaxDist <=> Far(n)
<1> DEFINE D == {p[2] : p \in {q \in Placements(wiki, V) : q[1] = n}}
<1>1. /\ wiki.coords[n] \subseteq Distances /\ Distances \subseteq Nat /\ MaxDist \in Nat
      /\ \A m \in Articles : wiki.title[wiki.title[m]] = wiki.title[m]
    BY WikisAssumption, DistancesAssumption DEF Snapshots
<1>2. D \subseteq wiki.coords[n]
    BY DEF Placements
<1>3. Nearest(Placements(wiki, V), n) =
          IF D = {} THEN Unplaced ELSE CHOOSE d \in D : \A e \in D : d <= e
    BY DEF Nearest
<1>4. wiki.title[n] = n => wiki.coords[n] \subseteq D
    <2> SUFFICES ASSUME wiki.title[n] = n, NEW d \in wiki.coords[n] PROVE d \in D
        OBVIOUS
    <2>1. <<n, d>> \in Placements(wiki, V)
        BY <1>1 DEF Placements
    <2>2. QED
        BY <2>1
<1>5. wiki.title[n] # n => D = {}
    <2> SUFFICES ASSUME NEW p \in Placements(wiki, V), p[1] = n PROVE wiki.title[n] = n
        OBVIOUS
    <2>1. PICK m \in V : wiki.title[m] = n
        BY DEF Placements
    <2>2. QED
        BY <1>1, <2>1
<1> HIDE DEF D
<1>6. CASE D = {}
    <2>1. Nearest(Placements(wiki, V), n) = Unplaced
        BY <1>3, <1>6
    <2>2. ~(Unplaced > MaxDist)
        BY <1>1 DEF Unplaced
    <2>3. ~Far(n)
        BY <1>4, <1>6 DEF Far
    <2>4. QED
        BY <2>1, <2>2, <2>3
<1>7. CASE D # {}
    <2>1. wiki.title[n] = n /\ D = wiki.coords[n] /\ D \subseteq Nat
        BY <1>1, <1>2, <1>4, <1>5, <1>7
    <2>2. \E d \in D : \A e \in D : d <= e
        BY <1>7, <2>1, LeastDistance
    <2>3. PICK d : /\ d = Nearest(Placements(wiki, V), n)
                   /\ d \in D /\ \A e \in D : d <= e
        BY <1>3, <1>7, <2>2
    <2>4. d > MaxDist <=> \A e \in D : e > MaxDist
        BY <1>1, <2>1, <2>3
    <2>5. QED
        BY <1>7, <2>1, <2>3, <2>4 DEF Far
<1>8. QED
    BY <1>6, <1>7

LEMMA LinksTyped ==
    ASSUME wiki \in Wikis
    PROVE  /\ wiki.nearby \in SUBSET Articles
           /\ \A S : /\ OutLinks(wiki, S) \in SUBSET Links
                     /\ InLinks(wiki, S) \in SUBSET Links
                     /\ LinksOf(S) \in SUBSET Links
BY WikisAssumption DEF Snapshots, OutLinks, InLinks, LinksOf

LEMMA FullAnswers ==
    ASSUME ~Lossy
    PROVE  answering = wiki /\ \A A : Received(A) = {A}
BY DEF answering, Received

LEMMA FilterNearbyShape ==
    ASSUME TypeOK, wiki \in Wikis, Shape(nearby, wiki.nearby, LinksOf(wiki.nearby)),
           ~Lossy, filter_nearby
    PROVE  /\ nearby'.seeds = wiki.nearby
           /\ nearby'.edges =
                  {e \in LinksOf(wiki.nearby) : KeptNearby(e[1]) /\ KeptNearby(e[2])}
<1> DEFINE N == wiki.nearby
           L == LinksOf(wiki.nearby)
           listed(n) == n \in N \/ n \notin Blacklist
<1>1. PICK r, V, P : /\ r = filter_nodes_by_blacklist(nearby)
                     /\ V = nodes_without_dists(r) /\ P = Placements(wiki, V)
    OBVIOUS
<1>2. /\ r \in Regions /\ r.seeds = N /\ DOMAIN r.dists = {}
      /\ r.nodes = {n \in N \cup Ends(L) : listed(n)}
      /\ r.edges = {e \in L : listed(e[1]) /\ listed(e[2])}
    BY <1>1, BlacklistShape DEF TypeOK
<1>3. V = r.nodes /\ V \in SUBSET Articles /\ P \in SUBSET (Articles \X Distances)
    BY <1>1, <1>2 DEF nodes_without_dists, Regions, Placements
<1>4. PICK u, far : /\ u = update_dists(r, P)
                    /\ far = {n \in V : Nearest(P, n) > MaxDist} \ r.seeds
    OBVIOUS
<1>5. u \in Regions /\ u.seeds = N /\ u.nodes = r.nodes /\ u.edges = r.edges
    BY <1>2, <1>3, <1>4, UpdateFacts
<1>6. nearby' = remove_nodes_from(u, far)
    BY <1>1, <1>4, FullAnswers DEF filter_nearby, filter_nodes_by_distance
<1>7. /\ nearby'.seeds = N
      /\ nearby'.edges = {e \in r.edges : e[1] \notin far /\ e[2] \notin far}
    BY <1>5, <1>6 DEF remove_nodes_from, Regions
<1>8. \A n \in V : n \in far <=> Far(n) /\ n \notin N
    BY <1>1, <1>2, <1>3, <1>4, NearestFar
<1>9. \A e \in r.edges : e[1] \in V /\ e[2] \in V
    BY <1>2, <1>3 DEF Ends
<1>10. \A e \in r.edges : e[1] \notin far /\ e[2] \notin far <=>
                              KeptNearby(e[1]) /\ KeptNearby(e[2])
    BY <1>2, <1>8, <1>9 DEF KeptNearby
<1>11. \A e \in L : KeptNearby(e[1]) /\ KeptNearby(e[2]) => e \in r.edges
    BY <1>2 DEF KeptNearby
<1>12. QED
    BY <1>2, <1>7, <1>10, <1>11

LEMMA FilterTopicsShape ==
    ASSUME TypeOK, Shape(topics, asked, LinksOf(asked)), filter_topics
    PROVE  /\ topics'.seeds = asked
           /\ topics'.nodes = {n \in asked \cup Ends(LinksOf(asked)) : KeptTopics(n)}
           /\ topics'.edges = {e \in LinksOf(asked) : KeptTopics(e[1]) /\ KeptTopics(e[2])}
<1>1. topics' = filter_nodes_by_blacklist(topics) /\ topics \in Regions
    BY DEF filter_topics, TypeOK
<1>2. QED
    BY <1>1, BlacklistShape DEF KeptTopics

(* In the graphs as they are at the end, a start and another seed or a     *)
(* bridge are adjacent if the start's link is Reached.                     *)
LEMMA LinksOfTitle ==
    ASSUME wiki \in Wikis, NEW S, NEW a, NEW b
    PROVE  /\ <<a, b>> \in LinksOf(S) <=>
                  <<a, b>> \in wiki.links /\ \E n \in S : wiki.title[n] \in {a, b}
BY DEF LinksOf, OutLinks, InLinks

LEMMA AdjacentReached ==
    ASSUME wiki \in Wikis, NearbyDone, TopicsDone,
           NEW s \in wiki.nearby, wiki.title[s] = s, NEW y, y \in asked \/ y \notin Blacklist
    PROVE  Adjacent(s, y) <=> Reached(s, y)
<1> DEFINE topical == \E u \in asked : wiki.title[u] \in {s, y}
<1>1. ASSUME NEW a, NEW b, {a, b} = {s, y}
      PROVE  /\ <<a, b>> \in nearby.edges <=>
                    <<a, b>> \in wiki.links /\ KeptNearby(s) /\ KeptNearby(y)
             /\ <<a, b>> \in topics.edges <=>
                    <<a, b>> \in wiki.links /\ topical /\ KeptTopics(s) /\ KeptTopics(y)
    <2>1. <<a, b>> \in LinksOf(wiki.nearby) <=> <<a, b>> \in wiki.links
        BY <1>1, LinksOfTitle
    <2>2. <<a, b>> \in LinksOf(asked) <=> <<a, b>> \in wiki.links /\ topical
        BY <1>1, LinksOfTitle
    <2>3. KeptNearby(a) /\ KeptNearby(b) <=> KeptNearby(s) /\ KeptNearby(y)
        BY <1>1
    <2>4. KeptTopics(a) /\ KeptTopics(b) <=> KeptTopics(s) /\ KeptTopics(y)
        BY <1>1
    <2>5. <<a, b>> \in nearby.edges <=>
              <<a, b>> \in LinksOf(wiki.nearby) /\ KeptNearby(a) /\ KeptNearby(b)
        BY DEF NearbyDone
    <2>6. <<a, b>> \in topics.edges <=>
              <<a, b>> \in LinksOf(asked) /\ KeptTopics(a) /\ KeptTopics(b)
        BY DEF TopicsDone
    <2>7. QED
        BY <2>1, <2>2, <2>3, <2>4, <2>5, <2>6
<1>2. KeptNearby(s) /\ KeptTopics(y) /\ (KeptTopics(s) <=> s \notin Blacklist \ asked)
    BY DEF KeptNearby, KeptTopics
<1>3. Adjacent(s, y) <=>
          Linked(s, y) /\ (KeptNearby(y) \/ (topical /\ KeptTopics(s)))
    <2>1. {s, y} = {y, s}
        OBVIOUS
    <2>2. QED
        BY <1>1, <1>2, <2>1 DEF Adjacent, Linked
<1>4. QED
    BY <1>2, <1>3 DEF Reached, KeptNearby

(* A bridge is in the graph, and linked with a topic there. *)
LEMMA BridgeAdjacent ==
    ASSUME wiki \in Wikis, TopicsDone, NEW t \in asked, wiki.title[t] = t,
           NEW x, x \notin Blacklist, Linked(x, t)
    PROVE  x \in topics.nodes /\ Adjacent(x, t)
<1>1. PICK a, b : {a, b} = {x, t} /\ <<a, b>> \in wiki.links
                  /\ <<a, b>> \in {<<x, t>>, <<t, x>>}
    BY DEF Linked
<1>2. <<a, b>> \in LinksOf(asked)
    BY <1>1, LinksOfTitle
<1>3. KeptTopics(x) /\ KeptTopics(t)
    BY DEF KeptTopics
<1>4. <<a, b>> \in topics.edges
    BY <1>1, <1>2, <1>3 DEF TopicsDone
<1>5. x \in Ends(LinksOf(asked))
    BY <1>1, <1>2 DEF Ends
<1>6. QED
    BY <1>1, <1>3, <1>4, <1>5 DEF TopicsDone, Adjacent

LEMMA AdjacentLinked ==
    ASSUME NearbyDone, TopicsDone, NEW a, NEW b, Adjacent(a, b)
    PROVE  Linked(a, b)
BY DEF NearbyDone, TopicsDone, Adjacent, Linked, LinksOf, OutLinks, InLinks

LEMMA BridgesAre ==
    ASSUME Inv, Still, step = "done", NEW s \in wiki.nearby, NEW t \in asked,
           wiki.title[s] = s, wiki.title[t] = t
    PROVE  {y \in inter_nodes : Adjacent(s, y) /\ Adjacent(y, t)} = Bridges(s, t)
<1>1. wiki \in Wikis /\ NearbyDone /\ TopicsDone
    BY DEF Still, NearbyShape, TopicsShape
<1>2. ASSUME NEW x \in inter_nodes, Adjacent(s, x), Adjacent(x, t)
      PROVE  x \in Bridges(s, t)
    <2>1. x \in Articles /\ x \notin seeds \cup Blacklist
        BY <1>2, InterNodes
    <2>2. Reached(s, x) /\ Linked(x, t)
        BY <1>1, <1>2, <2>1, AdjacentReached, AdjacentLinked
    <2>3. QED
        BY <2>1, <2>2 DEF Bridges
<1>3. ASSUME NEW x \in Bridges(s, t)
      PROVE  x \in inter_nodes /\ Adjacent(s, x) /\ Adjacent(x, t)
    <2>1. x \notin seeds \cup Blacklist /\ Reached(s, x) /\ Linked(x, t)
        BY DEF Bridges
    <2>2. Adjacent(s, x)
        BY <1>1, <2>1, AdjacentReached
    <2>3. x \in topics.nodes /\ Adjacent(x, t)
        BY <1>1, <2>1, BridgeAdjacent
    <2>4. QED
        BY <2>1, <2>2, <2>3 DEF inter_nodes, full_graph_nodes
<1>4. QED
    BY <1>2, <1>3

LEMMA ChainsExact == Inv /\ Still => PathsExact
<1> SUFFICES ASSUME Inv, Still, step = "done", NEW t \in asked, NEW s \in wiki.nearby,
                    wiki.title[s] = s, wiki.title[t] = t, s # t
             PROVE  {p \in all_paths[t] : p[1] = s} =
                        {<<s, x, t>> : x \in Bridges(s, t)} \cup
                        {<<s, t>> : n \in {TRUE} \cap {Reached(s, t)}}
    BY DEF PathsExact
<1>1. wiki \in Wikis /\ NearbyDone /\ TopicsDone
    BY DEF Still, NearbyShape, TopicsShape
<1>2. all_paths[t] = UNION {simple_paths(r, t, inter_nodes) : r \in wiki.nearby}
    <2>1. all_paths[t] = get_paths_to_topic(t)
        BY DEF Still, ChainsDone
    <2>2. nearby.seeds = wiki.nearby
        BY <1>1 DEF NearbyDone
    <2>3. QED
        BY <2>1, <2>2 DEF get_paths_to_topic
<1>3. \A r : \A p \in simple_paths(r, t, inter_nodes) : p[1] = r
    BY DEF simple_paths
<1>4. {p \in all_paths[t] : p[1] = s} = simple_paths(s, t, inter_nodes)
    BY <1>2, <1>3
<1>5. simple_paths(s, t, inter_nodes) =
          {<<s, t>> : n \in {TRUE} \cap {Adjacent(s, t)}} \cup
          {<<s, x, t>> : x \in {y \in inter_nodes : Adjacent(s, y) /\ Adjacent(y, t)}}
    BY DEF simple_paths
<1>6. Adjacent(s, t) = Reached(s, t)
    <2>1. Adjacent(s, t) <=> Reached(s, t)
        BY <1>1, AdjacentReached
    <2>2. Adjacent(s, t) \in BOOLEAN /\ Reached(s, t) \in BOOLEAN
        BY DEF Adjacent, Reached
    <2>3. QED
        BY <2>1, <2>2
<1>7. {y \in inter_nodes : Adjacent(s, y) /\ Adjacent(y, t)} = Bridges(s, t)
    BY BridgesAre
<1>8. QED
    BY <1>4, <1>5, <1>6, <1>7, Zenon

------------------------------------------------------------------------------
(* The steps of a query that nothing disturbs. *)

LEMMA InitStill == Init => Still
<1>1. Init => wiki \in Wikis /\ step = "add_nearby"
    BY DEF Init
<1>2. QED
    BY <1>1 DEF Still, NearbyShape, TopicsShape, ChainsDone

LEMMA NearbyStill ==
    ASSUME Inv, Still, ~Lossy, add_nearby \/ add_topics \/ outbound_nearby \/ inbound_nearby
    PROVE  Still'
<1>1. UNCHANGED <<wiki, asked>> /\ wiki \in Wikis
    BY DEF add_nearby, add_topics, outbound_nearby, inbound_nearby, world, Still
<1>2. wiki.nearby \in SUBSET Articles /\ asked \in SUBSET Articles
    BY <1>1, LinksTyped, TopicsAssumption DEF Inv, TypeOK
<1>3. nearby \in Regions
    BY DEF Inv, TypeOK
<1>4. CASE add_nearby
    <2>1. nearby' = NewRegion(wiki.nearby) /\ step' = "add_topics"
        BY <1>4, FullAnswers DEF add_nearby
    <2>2. QED
        BY <1>1, <2>1 DEF Still, NearbyShape, TopicsShape, ChainsDone
<1>5. CASE add_topics
    <2>1. /\ nearby = NewRegion(wiki.nearby) /\ nearby' = nearby
          /\ topics' = NewRegion(asked) /\ step' = "outbound_nearby"
          /\ visiting' = nodes_to_visit(nearby, TRUE, TRUE)
        BY <1>5 DEF add_topics, Still, NearbyShape
    <2>2. visiting' = wiki.nearby
        BY <1>2, <2>1, NewShape
    <2>3. QED
        BY <1>1, <2>1, <2>2 DEF Still, NearbyShape, TopicsShape, ChainsDone
<1>6. CASE outbound_nearby
    <2>1. /\ nearby = NewRegion(wiki.nearby) /\ visiting = wiki.nearby
          /\ topics = NewRegion(asked) /\ topics' = topics /\ visiting' = visiting
          /\ step' = "inbound_nearby"
        BY <1>6 DEF outbound_nearby, Still, NearbyShape, TopicsShape
    <2>2. nearby' = dilate_outbound(nearby, wiki.nearby, OutLinks(wiki, wiki.nearby))
        BY <1>6, <2>1, FullAnswers DEF outbound_nearby
    <2>3. Shape(nearby', wiki.nearby, {} \cup OutLinks(wiki, wiki.nearby))
        BY <1>1, <1>2, <1>3, <2>1, <2>2, NewShape, DilateShape, LinksTyped
    <2>4. {} \cup OutLinks(wiki, wiki.nearby) = OutLinks(wiki, wiki.nearby)
        OBVIOUS
    <2>5. Shape(nearby', wiki'.nearby, OutLinks(wiki', wiki'.nearby))
        BY <1>1, <2>3, <2>4
    <2>6. QED
        BY <1>1, <2>1, <2>5 DEF Still, NearbyShape, TopicsShape, ChainsDone
<1>7. CASE inbound_nearby
    <2>1. /\ Shape(nearby, wiki.nearby, OutLinks(wiki, wiki.nearby)) /\ visiting = wiki.nearby
          /\ topics = NewRegion(asked) /\ topics' = topics
          /\ step' = "filter_nearby"
        BY <1>7 DEF inbound_nearby, Still, NearbyShape, TopicsShape
    <2>2. nearby' = dilate_inbound(nearby, wiki.nearby, InLinks(wiki, wiki.nearby))
        BY <1>7, <2>1, FullAnswers DEF inbound_nearby
    <2>3. Shape(nearby', wiki.nearby, LinksOf(wiki.nearby))
        BY <1>1, <1>2, <1>3, <2>1, <2>2, DilateShape, LinksTyped DEF LinksOf
    <2>4. Shape(nearby', wiki'.nearby, LinksOf(wiki.nearby)')
        BY <1>1, <2>3 DEF LinksOf
    <2>5. QED
        BY <1>1, <2>1, <2>4 DEF Still, NearbyShape, TopicsShape, ChainsDone
<1>8. QED
    BY <1>4, <1>5, <1>6, <1>7

LEMMA DoneKept ==
    ASSUME UNCHANGED <<wiki, asked>>
    PROVE  /\ NearbyDone /\ nearby' = nearby => NearbyDone'
           /\ TopicsDone /\ topics' = topics => TopicsDone'
BY DEF NearbyDone, TopicsDone, LinksOf, KeptNearby, KeptTopics, Far, OutLinks, InLinks

LEMMA TopicsStill ==
    ASSUME Inv, Still, ~Lossy,
           filter_nearby \/ outbound_topics \/ inbound_topics \/ filter_topics
    PROVE  Still'
<1>1. UNCHANGED <<wiki, asked>> /\ wiki \in Wikis
    BY DEF filter_nearby, outbound_topics, inbound_topics, filter_topics, world, Still
<1>2. wiki.nearby \in SUBSET Articles /\ asked \in SUBSET Articles
    BY <1>1, LinksTyped, TopicsAssumption DEF Inv, TypeOK
<1>3. topics \in Regions /\ TypeOK
    BY DEF Inv, TypeOK
<1>4. CASE filter_nearby
    <2>1. /\ Shape(nearby, wiki.nearby, LinksOf(wiki.nearby))
          /\ topics = NewRegion(asked) /\ topics' = topics
          /\ visiting' = nodes_to_visit(topics, TRUE, TRUE) /\ step' = "outbound_topics"
        BY <1>4 DEF filter_nearby, Still, NearbyShape, TopicsShape
    <2>2. visiting' = asked
        BY <1>2, <2>1, NewShape
    <2>3. /\ nearby'.seeds = wiki.nearby
          /\ nearby'.edges =
                {e \in LinksOf(wiki.nearby) : KeptNearby(e[1]) /\ KeptNearby(e[2])}
        BY <1>1, <1>3, <1>4, <2>1, FilterNearbyShape
    <2>4. NearbyDone'
        BY <1>1, <2>3 DEF NearbyDone, LinksOf, KeptNearby, Far, OutLinks, InLinks
    <2>5. QED
        BY <1>1, <2>1, <2>2, <2>4 DEF Still, NearbyShape, TopicsShape, ChainsDone
<1>5. CASE outbound_topics
    <2>1. /\ NearbyDone /\ nearby' = nearby
          /\ topics = NewRegion(asked) /\ visiting = asked /\ visiting' = visiting
          /\ step' = "inbound_topics"
        BY <1>5 DEF outbound_topics, Still, NearbyShape, TopicsShape
    <2>2. topics' = dilate_outbound(topics, asked, OutLinks(wiki, asked))
        BY <1>5, <2>1, FullAnswers DEF outbound_topics
    <2>3. Shape(topics', asked, {} \cup OutLinks(wiki, asked))
        BY <1>1, <1>2, <1>3, <2>1, <2>2, NewShape, DilateShape, LinksTyped
    <2>4. {} \cup OutLinks(wiki, asked) = OutLinks(wiki, asked)
        OBVIOUS
    <2>5. Shape(topics', asked', OutLinks(wiki', asked'))
        BY <1>1, <2>3, <2>4
    <2>6. NearbyDone'
        BY <1>1, <2>1, DoneKept
    <2>7. QED
        BY <1>1, <2>1, <2>5, <2>6 DEF Still, NearbyShape, TopicsShape, ChainsDone
<1>6. CASE inbound_topics
    <2>1. /\ NearbyDone /\ nearby' = nearby
          /\ Shape(topics, asked, OutLinks(wiki, asked)) /\ visiting = asked
          /\ step' = "filter_topics"
        BY <1>6 DEF inbound_topics, Still, NearbyShape, TopicsShape
    <2>2. topics' = dilate_inbound(topics, asked, InLinks(wiki, asked))
        BY <1>6, <2>1, FullAnswers DEF inbound_topics
    <2>3. Shape(topics', asked, LinksOf(asked))
        BY <1>1, <1>2, <1>3, <2>1, <2>2, DilateShape, LinksTyped DEF LinksOf
    <2>4. Shape(topics', asked', LinksOf(asked)')
        BY <1>1, <2>3 DEF LinksOf
    <2>5. NearbyDone'
        BY <1>1, <2>1, DoneKept
    <2>6. QED
        BY <1>1, <2>1, <2>4, <2>5 DEF Still, NearbyShape, TopicsShape, ChainsDone
<1>7. CASE filter_topics
    <2>1. /\ NearbyDone /\ nearby' = nearby /\ Shape(topics, asked, LinksOf(asked))
          /\ step' = "find_all_paths"
        BY <1>7 DEF filter_topics, Still, NearbyShape, TopicsShape
    <2>2. /\ topics'.seeds = asked
          /\ topics'.nodes = {n \in asked \cup Ends(LinksOf(asked)) : KeptTopics(n)}
          /\ topics'.edges = {e \in LinksOf(asked) : KeptTopics(e[1]) /\ KeptTopics(e[2])}
        BY <1>3, <1>7, <2>1, FilterTopicsShape
    <2>3. TopicsDone'
        BY <1>1, <2>2 DEF TopicsDone, LinksOf, KeptTopics, OutLinks, InLinks
    <2>4. NearbyDone'
        BY <1>1, <2>1, DoneKept
    <2>5. QED
        BY <1>1, <2>1, <2>3, <2>4 DEF Still, NearbyShape, TopicsShape, ChainsDone
<1>8. QED
    BY <1>4, <1>5, <1>6, <1>7

LEMMA ChainsKept ==
    ASSUME UNCHANGED <<nearby, topics>>
    PROVE  \A t : get_paths_to_topic(t)' = get_paths_to_topic(t)
BY DEF get_paths_to_topic, simple_paths, inter_nodes, full_graph_nodes, seeds, Adjacent

LEMMA FindAllPathsStill == Inv /\ Still /\ find_all_paths => Still'
<1> SUFFICES ASSUME Inv, Still, find_all_paths PROVE Still'
    OBVIOUS
<1>1. UNCHANGED <<wiki, asked, nearby, topics>> /\ wiki \in Wikis
    BY DEF find_all_paths, world, Still
<1>2. NearbyDone /\ TopicsDone
    BY DEF find_all_paths, Still, NearbyShape, TopicsShape
<1>3. NearbyDone' /\ TopicsDone'
    BY <1>1, <1>2, DoneKept
<1>4. CASE step' = "failed"
    BY <1>1, <1>4 DEF Still, NearbyShape, TopicsShape, ChainsDone
<1>5. CASE step' = "done" /\ all_paths' = [t \in topics.seeds |-> get_paths_to_topic(t)]
    <2>1. topics.seeds = asked'
        BY <1>1, <1>2 DEF TopicsDone
    <2>2. ChainsDone'
        BY <1>1, <1>5, <2>1, ChainsKept DEF ChainsDone
    <2>3. QED
        BY <1>1, <1>3, <1>5, <2>2 DEF Still, NearbyShape, TopicsShape
<1>6. QED
    BY <1>4, <1>5 DEF find_all_paths

LEMMA RestStill == Still /\ (raise \/ UNCHANGED vars) => Still'
<1>1. ASSUME Still, raise PROVE Still'
    <2>1. step' = "failed" /\ UNCHANGED <<wiki, asked>>
        BY <1>1 DEF raise, world
    <2>2. QED
        BY <1>1, <2>1 DEF Still, NearbyShape, TopicsShape, ChainsDone
<1>2. ASSUME Still, UNCHANGED vars PROVE Still'
    <2>1. UNCHANGED <<wiki, asked, step, nearby, topics, visiting, all_paths>>
        BY <1>2 DEF vars, world
    <2>2. /\ NearbyDone => NearbyDone'
          /\ TopicsDone => TopicsDone'
        BY <2>1, DoneKept
    <2>3. ChainsDone'
        BY <1>2, <2>1, ChainsKept DEF Still, ChainsDone
    <2>4. NearbyShape'
        BY <1>2, <2>1, <2>2 DEF Still, NearbyShape, Shape, LinksOf, OutLinks, InLinks
    <2>5. TopicsShape'
        BY <1>2, <2>1, <2>2 DEF Still, TopicsShape, Shape, LinksOf, OutLinks, InLinks
    <2>6. QED
        BY <1>2, <2>1, <2>3, <2>4, <2>5 DEF Still
<1>3. QED
    BY <1>1, <1>2

LEMMA NextStill ==
    ASSUME ~Lossy, MaxEdits = 0
    PROVE  Inv /\ Still /\ [Next]_vars => Still'
<1> SUFFICES ASSUME Inv, Still, [Next]_vars PROVE Still'
    OBVIOUS
<1>1. \A e : ~edit(e)
    BY DEF edit, Inv, TypeOK
<1>2. QED
    BY <1>1, NearbyStill, TopicsStill, FindAllPathsStill, RestStill DEF Next

(* If Wikipedia answers in full and is not edited meanwhile, the chains of *)
(* a query are the right ones, and all of them, whatever the articles, the *)
(* links, redirects, coordinates and the blacklist: what the filters take  *)
(* out and the order of the rounds of calls cost no chain but those that   *)
(* Reached says.                                                           *)
THEOREM PathsAlwaysExact ==
    ASSUME ~Lossy, MaxEdits = 0
    PROVE  Spec => []PathsExact
<1>1. Inv /\ Still /\ [Next]_vars => Still'
    BY NextStill
<1>2. QED
    BY <1>1, InitStill, Invariance, ChainsExact, PTL DEF Spec
------------------------------------------------------------------------------
(* The trees of an answer.  A list of up to n articles is at most n deep.  *)

ListsUpTo(n) == {l \in Lists : Len(l) <= n}

LEMMA ListFacts ==
    ASSUME NEW l \in Lists
    PROVE  l \in Seq(Articles) /\ Len(l) \in 0 .. 3 /\ (Len(l) = 0 <=> l = <<>>)
<1>1. CASE l = <<>>
    BY <1>1
<1>2. CASE l \in Paths
    <2>1. PICK k \in 1 .. 3 : l \in [1 .. k -> Articles]
        BY <1>2 DEF Paths
    <2>2. l \in Seq(Articles) /\ Len(l) = k
        BY <2>1
    <2>3. QED
        BY <2>2
<1>3. QED
    BY <1>1, <1>2 DEF Lists

LEMMA ListIs ==
    ASSUME NEW l \in Seq(Articles), Len(l) <= 3
    PROVE  l \in Lists
<1>1. CASE Len(l) = 0
    BY <1>1 DEF Lists
<1>2. CASE Len(l) # 0
    <2>1. Len(l) \in 1 .. 3
        <3>1. PICK k \in Nat : Len(l) = k
            BY LenProperties
        <3>2. QED
            BY <1>2, <3>1
    <2>3. l \in [1 .. Len(l) -> Articles]
        BY LenProperties
    <2>2. l \in Paths
        BY <2>1, <2>3 DEF Paths
    <2>4. QED
        BY <2>2 DEF Lists
<1>3. QED
    BY <1>1, <1>2

(* A list is its head and its tail. *)
LEMMA HeadAndTail ==
    ASSUME NEW l \in Lists, l # <<>>
    PROVE  /\ Head(l) = l[1] /\ Head(l) \in Articles
           /\ Tail(l) \in Lists /\ Len(Tail(l)) = Len(l) - 1
           /\ \A i \in 1 .. Len(Tail(l)) : Tail(l)[i] = l[i + 1]
           /\ l = <<Head(l)>> \o Tail(l)
<1>1. l \in Seq(Articles) /\ Len(l) \in 1 .. 3
    BY ListFacts
<1>2. /\ Tail(l) \in Seq(Articles) /\ Len(Tail(l)) = Len(l) - 1
      /\ \A i \in 1 .. Len(Tail(l)) : Tail(l)[i] = l[i + 1]
      /\ Head(l) = l[1] /\ Head(l) \in Articles
    BY <1>1
<1>3. Tail(l) \in Lists
    <2>1. Len(Tail(l)) <= 3
        BY <1>1, <1>2
    <2>2. QED
        BY <1>2, <2>1, ListIs
<1>4. l = <<Head(l)>> \o Tail(l)
    BY <1>1, <1>2
<1>5. QED
    BY <1>2, <1>3, <1>4

LEMMA RestsDepth ==
    ASSUME NEW n \in Nat, NEW x \in SUBSET ListsUpTo(n + 1), NEW h
    PROVE  Rests(x, h) \in SUBSET ListsUpTo(n)
<1> SUFFICES ASSUME NEW l \in x, l # <<>> PROVE Tail(l) \in ListsUpTo(n)
    BY DEF Rests
<1>1. l \in Lists /\ Len(l) <= n + 1
    BY DEF ListsUpTo
<1>2. Tail(l) \in Lists /\ Len(Tail(l)) = Len(l) - 1
    BY <1>1, HeadAndTail
<1>3. Len(l) \in 0 .. 3
    BY <1>1, ListFacts
<1>4. Len(Tail(l)) <= n
    BY <1>1, <1>2, <1>3
<1>5. QED
    BY <1>2, <1>4 DEF ListsUpTo

LEMMA AllLists == Lists = ListsUpTo(3)
<1>1. \A l \in Lists : Len(l) <= 3
    <2> SUFFICES ASSUME NEW l \in Lists PROVE Len(l) <= 3
        OBVIOUS
    <2>1. l \in Seq(Articles) /\ Len(l) \in 0 .. 3
        BY ListFacts
    <2>2. PICK k \in 0 .. 3 : Len(l) = k
        BY <2>1
    <2>3. QED
        BY <2>2
<1>2. QED
    BY <1>1 DEF ListsUpTo

LEMMA NoHeads ==
    ASSUME NEW x \in SUBSET ListsUpTo(0)
    PROVE  Heads(x) = {}
BY ListFacts DEF ListsUpTo, Heads

LEMMA HeadsTyped ==
    ASSUME NEW x \in SUBSET Lists
    PROVE  Heads(x) \subseteq Articles
BY HeadAndTail DEF Heads

(* nestedlists is a recursive function: that there is one is shown by      *)
(* unfolding it as deep as lists are long.                                 *)
Flat(x) == {}
Once(x) == {<<h, Flat(Rests(x, h))>> : h \in Heads(x)}
Twice(x) == {<<h, Once(Rests(x, h))>> : h \in Heads(x)}
Thrice(x) == {<<h, Twice(Rests(x, h))>> : h \in Heads(x)}

LEMMA NestedIs ==
    ASSUME NEW lols \in SUBSET Lists
    PROVE  nestedlists[lols] = {<<h, nestedlists[Rests(lols, h)]>> : h \in Heads(lols)}
<1>1. \A x \in SUBSET ListsUpTo(0) : Once(x) = Flat(x)
    BY NoHeads DEF Once, Flat
<1>2. \A x \in SUBSET ListsUpTo(1) : Twice(x) = Once(x)
    <2>1. \A x \in SUBSET ListsUpTo(1) : \A h : Rests(x, h) \in SUBSET ListsUpTo(0)
        BY RestsDepth, 0 + 1 = 1
    <2>2. SUFFICES ASSUME NEW x \in SUBSET ListsUpTo(1) PROVE Twice(x) = Once(x)
        OBVIOUS
    <2>3. \A h : Once(Rests(x, h)) = Flat(Rests(x, h))
        BY <1>1, <2>1
    <2>4. QED
        BY <2>3 DEF Twice, Once
<1>3. \A x \in SUBSET ListsUpTo(2) : Thrice(x) = Twice(x)
    <2>1. \A x \in SUBSET ListsUpTo(2) : \A h : Rests(x, h) \in SUBSET ListsUpTo(1)
        BY RestsDepth, 1 + 1 = 2
    <2>2. SUFFICES ASSUME NEW x \in SUBSET ListsUpTo(2) PROVE Thrice(x) = Twice(x)
        OBVIOUS
    <2>3. \A h : Twice(Rests(x, h)) = Once(Rests(x, h))
        BY <1>2, <2>1
    <2>4. QED
        BY <2>3 DEF Thrice, Twice
<1>4. \A x \in SUBSET Lists : \A h : Rests(x, h) \in SUBSET ListsUpTo(2)
    BY RestsDepth, AllLists, 2 + 1 = 3
<1> DEFINE f == [x \in SUBSET Lists |-> Thrice(x)]
           Whole(g) == [x \in SUBSET Lists |-> {<<h, g[Rests(x, h)]>> : h \in Heads(x)}]
<1>5. \A x \in SUBSET Lists : Thrice(x) = {<<h, f[Rests(x, h)]>> : h \in Heads(x)}
    <2> SUFFICES ASSUME NEW x \in SUBSET Lists
                 PROVE  Thrice(x) = {<<h, f[Rests(x, h)]>> : h \in Heads(x)}
        OBVIOUS
    <2>1. \A h : Rests(x, h) \in SUBSET ListsUpTo(2) /\ Rests(x, h) \in SUBSET Lists
        BY <1>4 DEF ListsUpTo
    <2>2. \A h : f[Rests(x, h)] = Twice(Rests(x, h))
        BY <1>3, <2>1
    <2>3. QED
        BY <2>2 DEF Thrice
<1>6. f = Whole(f)
    BY <1>5
<1> HIDE DEF f
<1>7. nestedlists = CHOOSE g : g = Whole(g)
    BY DEF nestedlists
<1>8. nestedlists = Whole(nestedlists)
    BY <1>6, <1>7
<1>9. QED
    BY <1>8

(* Reading a tree, unfolded in the same way. *)
Trees1 == Branches({{}})
Trees2 == Branches(Trees1)

LEMMA TreesNest == {{}} \subseteq Trees1 /\ Trees1 \subseteq Trees2 /\ Trees2 \subseteq Trees
<1>1. {{}} \subseteq Trees1
    BY DEF Trees1, Branches
<1>2. \A R, S : R \subseteq S => Branches(R) \subseteq Branches(S)
    BY DEF Branches
<1>3. Trees1 \subseteq Trees2
    BY <1>1, <1>2 DEF Trees2, Trees1
<1>4. Trees2 \subseteq Trees
    BY <1>2, <1>3 DEF Trees, Trees2, Trees1
<1>5. QED
    BY <1>1, <1>3, <1>4

LEMMA BranchTyped ==
    ASSUME NEW R, NEW t \in Branches(R), NEW b \in t
    PROVE  b[1] \in Articles /\ b[2] \in R /\ b = <<b[1], b[2]>>
BY DEF Branches

Root(t) == {<<>>}
Down1(t) == IF t = {} THEN {<<>>} ELSE UNION {After(b[1], Root(b[2])) : b \in t}
Down2(t) == IF t = {} THEN {<<>>} ELSE UNION {After(b[1], Down1(b[2])) : b \in t}
Down3(t) == IF t = {} THEN {<<>>} ELSE UNION {After(b[1], Down2(b[2])) : b \in t}

LEMMA ChainsIs ==
    ASSUME NEW tree \in Trees
    PROVE  Chains[tree] =
               IF tree = {} THEN {<<>>}
               ELSE UNION {After(b[1], Chains[b[2]]) : b \in tree}
<1>1. \A t \in {{}} : Down1(t) = Root(t)
    BY DEF Down1, Root
<1>2. \A t \in Trees1 : Down2(t) = Down1(t)
    <2>1. SUFFICES ASSUME NEW t \in Trees1 PROVE Down2(t) = Down1(t)
        OBVIOUS
    <2>2. \A b \in t : Down1(b[2]) = Root(b[2])
        <3>1. \A b \in t : b[2] \in {{}}
            BY BranchTyped DEF Trees1
        <3>2. QED
            BY <1>1, <3>1
    <2>3. QED
        BY <2>2 DEF Down2, Down1
<1>3. \A t \in Trees2 : Down3(t) = Down2(t)
    <2>1. SUFFICES ASSUME NEW t \in Trees2 PROVE Down3(t) = Down2(t)
        OBVIOUS
    <2>2. \A b \in t : Down2(b[2]) = Down1(b[2])
        BY <1>2, BranchTyped DEF Trees2
    <2>3. QED
        BY <2>2 DEF Down3, Down2
<1>4. \A t \in Trees : \A b \in t : b[2] \in Trees2 /\ b[2] \in Trees
    BY BranchTyped, TreesNest DEF Trees, Trees2, Trees1
<1> DEFINE f == [t \in Trees |-> Down3(t)]
           Part(g, t) == IF t = {} THEN {<<>>} ELSE UNION {After(b[1], g[b[2]]) : b \in t}
           Whole(g) == [t \in Trees |-> Part(g, t)]
<1>5. \A t \in Trees : Down3(t) = Part(f, t)
    <2>1. SUFFICES ASSUME NEW t \in Trees PROVE Down3(t) = Part(f, t)
        OBVIOUS
    <2>2. \A b \in t : f[b[2]] = Down2(b[2])
        BY <1>3, <1>4
    <2> HIDE DEF f
    <2>3. QED
        BY <2>2 DEF Down3
<1>6. Chains = CHOOSE g : g = Whole(g)
    BY DEF Chains
<1> HIDE DEF Part
<1>7. f = Whole(f)
    BY <1>5
<1> HIDE DEF f
<1>8. Chains = Whole(Chains)
    <2> HIDE DEF Whole
    <2>1. QED
        BY <1>6, <1>7
<1>9. Chains[tree] = Part(Chains, tree)
    BY <1>8
<1>10. QED
    BY <1>9 DEF Part

(* What a tree of lists holds: the lists that no other list runs on from.  *)
RunsOn(c, d) == Len(c) <= Len(d) /\ \A i \in 1 .. Len(c) : d[i] = c[i]
Final(x) == {c \in x \cup {<<>>} : \A d \in x : RunsOn(c, d) => d = c}

(* Tails run on as the lists do. *)
LEMMA TailsRunOn ==
    ASSUME NEW c \in Lists, NEW d \in Lists, c # <<>>
    PROVE  RunsOn(c, d) <=> d # <<>> /\ Head(d) = Head(c) /\ RunsOn(Tail(c), Tail(d))
<1>1. /\ Len(c) \in 1 .. 3 /\ Len(d) \in 0 .. 3
      /\ Head(c) = c[1] /\ Len(Tail(c)) = Len(c) - 1
      /\ \A i \in 1 .. Len(Tail(c)) : Tail(c)[i] = c[i + 1]
    BY ListFacts, HeadAndTail
<1>2. CASE d = <<>>
    BY <1>1, <1>2 DEF RunsOn
<1>3. CASE d # <<>>
    <2>1. /\ Len(d) \in 1 .. 3
          /\ Head(d) = d[1] /\ Len(Tail(d)) = Len(d) - 1
          /\ \A i \in 1 .. Len(Tail(d)) : Tail(d)[i] = d[i + 1]
        BY <1>1, <1>3, ListFacts, HeadAndTail
    <2>2. ASSUME RunsOn(c, d)
          PROVE  Head(d) = Head(c) /\ RunsOn(Tail(c), Tail(d))
        BY <1>1, <2>1, <2>2 DEF RunsOn
    <2>3. ASSUME Head(d) = Head(c), RunsOn(Tail(c), Tail(d))
          PROVE  RunsOn(c, d)
        BY <1>1, <2>1, <2>3 DEF RunsOn
    <2>4. QED
        BY <1>3, <2>2, <2>3
<1>4. QED
    BY <1>2, <1>3

LEMMA EmptyRunsOn ==
    ASSUME NEW d \in Lists
    PROVE  RunsOn(<<>>, d)
<1>1. Len(d) \in 0 .. 3
    BY ListFacts
<1>2. PICK k \in 0 .. 3 : Len(d) = k
    BY <1>1
<1>3. QED
    BY <1>2 DEF RunsOn

(* A list is last among those with its head if its tail is among theirs. *)
LEMMA LastByHead ==
    ASSUME NEW x \in SUBSET Lists, Heads(x) # {}, NEW v
    PROVE  v \in Final(x) <=> \E h \in Heads(x) : v \in After(h, Final(Rests(x, h)))
<1>1. ASSUME NEW h \in Heads(x), NEW c \in Final(Rests(x, h)), v = <<h>> \o c
      PROVE  v \in Final(x)
    <2>1. Rests(x, h) # {} /\ Rests(x, h) \subseteq Lists
        BY HeadAndTail DEF Heads, Rests
    <2>2. c \in Rests(x, h)
        <3>1. CASE c = <<>>
            <4>1. PICK d \in Rests(x, h) : TRUE
                BY <2>1
            <4>2. d = c
                BY <2>1, <3>1, <4>1, EmptyRunsOn, <1>1 DEF Final
            <4>3. QED
                BY <4>1, <4>2
        <3>2. QED
            BY <3>1, <1>1 DEF Final
    <2>3. PICK l \in x : l # <<>> /\ Head(l) = h /\ c = Tail(l)
        BY <2>2 DEF Rests
    <2>4. v = l
        BY <1>1, <2>3, HeadAndTail
    <2>5. ASSUME NEW d \in x, RunsOn(l, d)
          PROVE  d = l
        <3>1. d # <<>> /\ Head(d) = h /\ RunsOn(c, Tail(d))
            BY <2>3, <2>5, TailsRunOn
        <3>2. Tail(d) \in Rests(x, h)
            BY <3>1 DEF Rests
        <3>3. Tail(d) = c
            BY <1>1, <3>1, <3>2 DEF Final
        <3>4. QED
            BY <2>3, <3>1, <3>3, HeadAndTail
    <2>6. QED
        BY <2>4, <2>5 DEF Final
<1>2. ASSUME v \in Final(x)
      PROVE  \E h \in Heads(x) : v \in After(h, Final(Rests(x, h)))
    <2>1. v # <<>>
        <3>1. PICK l \in x : l # <<>>
            BY DEF Heads
        <3>2. QED
            BY <1>2, <3>1, EmptyRunsOn DEF Final
    <2>2. v \in x
        BY <1>2, <2>1 DEF Final
    <2>3. Head(v) \in Heads(x) /\ Tail(v) \in Rests(x, Head(v)) /\ v = <<Head(v)>> \o Tail(v)
        BY <2>1, <2>2, HeadAndTail DEF Heads, Rests
    <2>4. ASSUME NEW d \in Rests(x, Head(v)), RunsOn(Tail(v), d)
          PROVE  d = Tail(v)
        <3>1. PICK l \in x : l # <<>> /\ Head(l) = Head(v) /\ d = Tail(l)
            BY DEF Rests
        <3>2. RunsOn(v, l)
            BY <2>1, <2>2, <2>4, <3>1, TailsRunOn
        <3>3. QED
            BY <1>2, <3>1, <3>2 DEF Final
    <2>5. Tail(v) \in Final(Rests(x, Head(v)))
        BY <2>3, <2>4 DEF Final
    <2>6. QED
        BY <2>3, <2>5 DEF After
<1>3. QED
    BY <1>1, <1>2 DEF After

(* One level of a tree. *)
TreesOf(n, R) ==
    \A y \in SUBSET ListsUpTo(n) : nestedlists[y] \in R /\ Chains[nestedlists[y]] = Final(y)

LEMMA TreeLevel ==
    ASSUME NEW n \in Nat, NEW R, TreesOf(n, R), Branches(R) \subseteq Trees
    PROVE  TreesOf(n + 1, Branches(R))
<1> SUFFICES ASSUME NEW x \in SUBSET ListsUpTo(n + 1)
             PROVE  nestedlists[x] \in Branches(R) /\ Chains[nestedlists[x]] = Final(x)
    BY DEF TreesOf
<1> DEFINE tree == nestedlists[x]
<1>1. x \in SUBSET Lists
    BY DEF ListsUpTo
<1>2. tree = {<<h, nestedlists[Rests(x, h)]>> : h \in Heads(x)}
    BY <1>1, NestedIs
<1>3. \A h : /\ nestedlists[Rests(x, h)] \in R
             /\ Chains[nestedlists[Rests(x, h)]] = Final(Rests(x, h))
    BY RestsDepth DEF TreesOf
<1> HIDE DEF tree
<1>4. tree \in Branches(R)
    BY <1>1, <1>2, <1>3, HeadsTyped DEF Branches
<1>5. Chains[tree] = IF tree = {} THEN {<<>>} ELSE UNION {After(b[1], Chains[b[2]]) : b \in tree}
    BY <1>4, ChainsIs
<1>6. CASE Heads(x) = {}
    <2>1. \A d \in x : d = <<>>
        BY <1>6 DEF Heads
    <2>2. Final(x) = {<<>>}
        BY <2>1 DEF Final
    <2>3. tree = {}
        BY <1>2, <1>6
    <2>4. QED
        BY <1>4, <1>5, <2>2, <2>3 DEF tree
<1>7. CASE Heads(x) # {}
    <2>1. tree # {}
        BY <1>2, <1>7
    <2>2. ASSUME NEW v
          PROVE  v \in Chains[tree] <=> \E h \in Heads(x) : v \in After(h, Final(Rests(x, h)))
        <3>1. v \in Chains[tree] <=> \E b \in tree : v \in After(b[1], Chains[b[2]])
            BY <1>5, <2>1
        <3>2. ASSUME NEW b \in tree, v \in After(b[1], Chains[b[2]])
              PROVE  \E h \in Heads(x) : v \in After(h, Final(Rests(x, h)))
            <4>1. PICK h \in Heads(x) : b = <<h, nestedlists[Rests(x, h)]>>
                BY <1>2
            <4>2. b[1] = h /\ Chains[b[2]] = Final(Rests(x, h))
                BY <1>3, <4>1
            <4>3. QED
                BY <3>2, <4>2
        <3>3. ASSUME NEW h \in Heads(x), v \in After(h, Final(Rests(x, h)))
              PROVE  \E b \in tree : v \in After(b[1], Chains[b[2]])
            <4>1. <<h, nestedlists[Rests(x, h)]>> \in tree
                BY <1>2
            <4>2. v \in After(h, Chains[nestedlists[Rests(x, h)]])
                BY <1>3, <3>3
            <4>3. QED
                BY <4>1, <4>2
        <3>4. QED
            BY <3>1, <3>2, <3>3
    <2>3. Chains[tree] = Final(x)
        BY <1>1, <1>7, <2>2, LastByHead
    <2>4. QED
        BY <1>4, <2>3 DEF tree
<1>8. QED
    BY <1>6, <1>7

LEMMA TreeHolds ==
    ASSUME NEW x \in SUBSET Lists
    PROVE  /\ Chains[nestedlists[x]] = Final(x)
           /\ nestedlists[x] # {} <=> \E c \in x : c # <<>>
<1>1. TreesOf(0, {{}})
    <2> SUFFICES ASSUME NEW y \in SUBSET ListsUpTo(0)
                 PROVE  nestedlists[y] = {} /\ Chains[nestedlists[y]] = Final(y)
        BY DEF TreesOf
    <2>1. y \in SUBSET Lists /\ Heads(y) = {}
        BY NoHeads DEF ListsUpTo
    <2>2. nestedlists[y] = {}
        BY <2>1, NestedIs
    <2>3. {} \in Trees
        BY TreesNest
    <2>4. Chains[{}] = {<<>>}
        BY <2>3, ChainsIs
    <2>5. \A d \in y : d = <<>>
        BY <2>1 DEF Heads
    <2>6. Final(y) = {<<>>}
        BY <2>5 DEF Final
    <2>7. QED
        BY <2>2, <2>4, <2>6
<1>2. TreesOf(1, Trees1)
    BY <1>1, TreesNest, TreeLevel, 0 + 1 = 1 DEF Trees1
<1>3. TreesOf(2, Trees2)
    BY <1>2, TreesNest, TreeLevel, 1 + 1 = 2 DEF Trees2
<1>4. TreesOf(3, Trees)
    <2>1. Branches(Trees2) = Trees
        BY DEF Trees, Trees2, Trees1
    <2>2. QED
        BY <1>3, <2>1, TreeLevel, 2 + 1 = 3
<1>5. nestedlists[x] # {} <=> Heads(x) # {}
    <2>1. nestedlists[x] = {<<h, nestedlists[Rests(x, h)]>> : h \in Heads(x)}
        BY NestedIs
    <2>2. QED
        BY <2>1
<1>6. QED
    BY <1>4, <1>5, AllLists DEF TreesOf, Heads

LEMMA ReverseFacts ==
    ASSUME NEW c \in Paths
    PROVE  /\ Reverse(c) \in Paths /\ Len(Reverse(c)) = Len(c)
           /\ \A i \in 1 .. Len(c) : Reverse(c)[i] = c[Len(c) - i + 1]
           /\ Reverse(Reverse(c)) = c
<1>1. PICK k \in 1 .. 3 : c \in [1 .. k -> Articles]
    BY DEF Paths
<1>2. Len(c) = k
    BY <1>1
<1>3. /\ Reverse(c) \in [1 .. k -> Articles]
      /\ \A i \in 1 .. k : Reverse(c)[i] = c[k - i + 1]
    BY <1>1, <1>2 DEF Reverse
<1> DEFINE r == Reverse(c)
<1> HIDE DEF r
<1>4. Len(r) = k
    BY <1>3 DEF r
<1>5. Reverse(r) \in [1 .. k -> Articles] /\ \A i \in 1 .. k : Reverse(r)[i] = r[k - i + 1]
    BY <1>3, <1>4 DEF Reverse, r
<1>6. \A i \in 1 .. k : k - i + 1 \in 1 .. k /\ k - (k - i + 1) + 1 = i
    BY <1>1
<1>7. \A i \in 1 .. k : Reverse(r)[i] = c[i]
    BY <1>3, <1>5, <1>6 DEF r
<1>8. Reverse(r) = c
    BY <1>1, <1>5, <1>7
<1>9. QED
    BY <1>1, <1>2, <1>3, <1>4, <1>8 DEF r, Paths

(* Chains start and end at seeds, and have none in between. *)
ChainsEnd ==
    \A t \in DOMAIN all_paths : \A p \in all_paths[t] : p[1] \in seeds /\ p[Len(p)] \in seeds

Chain(p) ==
    /\ p \in Paths /\ p[1] \in seeds /\ p[Len(p)] \in seeds
    /\ \A k \in 2 .. Len(p) - 1 : p[k] \notin seeds

LEMMA FoundAre ==
    ASSUME Inv, ChainsEnd, NEW p \in found
    PROVE  Chain(p)
<1>1. PICK t \in DOMAIN all_paths : p \in all_paths[t]
    BY DEF found
<1>2. p \in Paths
    BY <1>1 DEF Inv, TypeOK
<1>3. Sound(p, t)
    BY <1>1 DEF Inv, PathsSound
<1>4. p[1] \in seeds /\ p[Len(p)] \in seeds
    BY <1>1 DEF ChainsEnd
<1>5. QED
    BY <1>2, <1>3, <1>4 DEF Chain, Sound

LEMMA ReversedIsChain ==
    ASSUME NEW p, Chain(p)
    PROVE  Chain(Reverse(p))
<1>1. p \in Paths
    BY DEF Chain
<1>2. PICK n \in 1 .. 3 : Len(p) = n
    BY <1>1 DEF Paths
<1>3. /\ Reverse(p) \in Paths /\ Len(Reverse(p)) = n
      /\ \A i \in 1 .. n : Reverse(p)[i] = p[n - i + 1]
    BY <1>1, <1>2, ReverseFacts
<1>4. Reverse(p)[1] = p[n] /\ Reverse(p)[n] = p[1]
    BY <1>3
<1>5. ASSUME NEW k \in 2 .. n - 1
      PROVE  Reverse(p)[k] \notin seeds
    <2>1. n - k + 1 \in 2 .. n - 1 /\ Reverse(p)[k] = p[n - k + 1]
        BY <1>3, <1>5
    <2>2. QED
        BY <1>2, <2>1 DEF Chain
<1>6. QED
    BY <1>2, <1>3, <1>4, <1>5 DEF Chain

(* So none runs on from another, in either direction. *)
LEMMA NoneRunsOn ==
    ASSUME NEW c, NEW d, Chain(c), Chain(d), RunsOn(c, d),
           Len(c) > 1 \/ Len(d) = Len(c)
    PROVE  d = c
<1>1. PICK m \in 1 .. 3 : c \in [1 .. m -> Articles] /\ Len(c) = m
    BY DEF Chain, Paths
<1>2. PICK n \in 1 .. 3 : d \in [1 .. n -> Articles] /\ Len(d) = n
    BY DEF Chain, Paths
<1>3. m <= n /\ \A i \in 1 .. m : d[i] = c[i]
    BY <1>1, <1>2 DEF RunsOn
<1>4. CASE m = n
    BY <1>1, <1>2, <1>3, <1>4
<1>5. CASE m # n
    <2>1. m = 2 /\ n = 3
        BY <1>1, <1>2, <1>3, <1>5
    <2>2. c[2] \in seeds /\ d[2] \notin seeds
        BY <1>1, <1>2, <2>1 DEF Chain
    <2>3. QED
        BY <1>3, <2>1, <2>2
<1>6. QED
    BY <1>4, <1>5

LEMMA ChainsLast ==
    ASSUME NEW x, \A c \in x : Chain(c)
    PROVE  /\ x \in SUBSET Lists
           /\ Longer(Read(nestedlists[x])) = Longer(x)
<1>1. \A c \in x : c \in Paths
    BY DEF Chain
<1>2. x \in SUBSET Lists
    BY <1>1 DEF Lists
<1>3. Read(nestedlists[x]) = Final(x) \ {<<>>}
    BY <1>2, TreeHolds DEF Read
<1>4. \A c \in Final(x) \ {<<>>} : c \in x
    BY DEF Final
<1>5. \A c \in x : Len(c) > 1 => c \in Final(x)
    BY NoneRunsOn DEF Final
<1>6. \A c \in x : Len(c) > 1 => c # <<>>
    OBVIOUS
<1>7. QED
    BY <1>2, <1>3, <1>4, <1>5, <1>6 DEF Longer

LEMMA ReadAgrees == Inv /\ ChainsEnd => GroupingsAgree
<1> SUFFICES ASSUME Inv, ChainsEnd PROVE GroupingsAgree
    OBVIOUS
<1> DEFINE back == {Reverse(p) : p \in found}
<1>1. \A c \in found : Chain(c) /\ c \in Paths
    BY FoundAre DEF Chain
<1>2. \A c \in back : Chain(c)
    BY <1>1, ReversedIsChain
<1>3. Longer(Read(nested_lists_by_nearby)) = Longer(found)
    BY <1>1, ChainsLast DEF nested_lists_by_nearby
<1>4. {Reverse(c) : c \in Longer(Read(nested_lists_by_topic))} = Longer(found)
    <2>1. Longer(Read(nested_lists_by_topic)) = Longer(back)
        BY <1>2, ChainsLast DEF nested_lists_by_topic
    <2>2. \A p \in found : Len(Reverse(p)) = Len(p) /\ Reverse(Reverse(p)) = p
        BY <1>1, ReverseFacts
    <2>3. Longer(back) = {Reverse(p) : p \in Longer(found)}
        BY <2>2 DEF Longer
    <2>4. {Reverse(c) : c \in Longer(back)} = Longer(found)
        BY <2>2, <2>3 DEF Longer
    <2>5. QED
        BY <2>1, <2>4
<1>5. ASSUME NEW c \in found \ Longer(found)
      PROVE  c \in Read(nested_lists_by_nearby) \/ \E d \in Longer(found) : d[1] = c[1]
    <2>1. c # <<>> /\ Chain(c)
        BY <1>1 DEF Paths
    <2>2. Read(nested_lists_by_nearby) = Final(found) \ {<<>>}
        BY <1>1, ChainsLast, TreeHolds DEF Read, nested_lists_by_nearby
    <2>3. CASE c \in Final(found)
        BY <2>1, <2>2, <2>3
    <2>4. CASE c \notin Final(found)
        <3>1. PICK d \in found : RunsOn(c, d) /\ d # c
            BY <2>4 DEF Final
        <3>2. Chain(d)
            BY <1>1
        <3>3. Len(d) # Len(c)
            BY <2>1, <3>1, <3>2, NoneRunsOn
        <3>4. PICK m \in 1 .. 3 : Len(c) = m
            BY <2>1 DEF Chain, Paths
        <3>5. PICK n \in 1 .. 3 : Len(d) = n
            BY <3>2 DEF Chain, Paths
        <3>6. n > 1 /\ d[1] = c[1]
            BY <3>1, <3>3, <3>4, <3>5 DEF RunsOn
        <3>7. QED
            BY <3>5, <3>6 DEF Longer
    <2>5. QED
        BY <2>3, <2>4
<1>6. QED
    BY <1>3, <1>4, <1>5 DEF GroupingsAgree

LEMMA StatusAgrees == Inv /\ ChainsEnd => StatusTellsLists
<1> SUFFICES ASSUME Inv, ChainsEnd, step = "done" PROVE StatusTellsLists
    BY DEF StatusTellsLists
<1> DEFINE back == {Reverse(p) : p \in found}
<1>1. \A c \in found : Chain(c) /\ c \in Paths
    BY FoundAre DEF Chain
<1>2. \A c \in back : Chain(c) /\ c \in Paths
    BY <1>1, ReversedIsChain DEF Chain
<1>3. \A c \in Paths : c # <<>>
    BY DEF Paths
<1>4. nested_lists_by_nearby # {} <=> found # {}
    BY <1>1, <1>3, ChainsLast, TreeHolds DEF nested_lists_by_nearby
<1>5. nested_lists_by_topic # {} <=> back # {}
    BY <1>2, <1>3, ChainsLast, TreeHolds DEF nested_lists_by_topic
<1>6. path_status = "has_paths" <=> found # {}
    BY DEF path_status, found
<1>7. QED
    BY <1>4, <1>5, <1>6 DEF StatusTellsLists

LEMMA NextChainsEnd == Inv /\ ChainsEnd /\ [Next]_vars => ChainsEnd'
<1> SUFFICES ASSUME Inv, ChainsEnd, [Next]_vars PROVE ChainsEnd'
    OBVIOUS
<1>1. Inv'
    BY NextInv
<1>2. CASE step' # "done"
    BY <1>1, <1>2 DEF Inv, NoPathsYet, NoPaths, ChainsEnd
<1>3. CASE step' = "done" /\ find_all_paths
    <2>1. /\ all_paths' = [t \in topics.seeds |-> get_paths_to_topic(t)]
          /\ seeds' = seeds
        BY <1>3 DEF find_all_paths, seeds
    <2>2. ASSUME NEW t \in topics.seeds, NEW p \in get_paths_to_topic(t)
          PROVE  p[1] \in seeds /\ p[Len(p)] \in seeds
        <3>1. PICK s \in nearby.seeds : p \in simple_paths(s, t, inter_nodes)
            BY DEF get_paths_to_topic
        <3>2. p[1] = s /\ p[Len(p)] = t
            BY <3>1 DEF simple_paths
        <3>3. QED
            BY <3>2 DEF seeds
    <2>3. QED
        BY <2>1, <2>2 DEF ChainsEnd
<1>4. CASE UNCHANGED vars
    BY <1>4 DEF vars, ChainsEnd, seeds
<1>5. step' = "done" => find_all_paths \/ UNCHANGED vars
    BY DEF Next, add_nearby, add_topics, outbound_nearby, inbound_nearby, filter_nearby,
           outbound_topics, inbound_topics, filter_topics, raise, edit
<1>6. QED
    BY <1>2, <1>3, <1>4, <1>5

LEMMA InitChainsEnd == Init => ChainsEnd
BY DEF Init, NoPaths, ChainsEnd

(* dod_to_nestedlists() loses no chain in either menu, whatever Wikipedia  *)
(* answered: a chain that ran on past another's end would take its place   *)
(* in the tree, and none does, as only bridges that are no seeds are       *)
(* taken (inter_nodes).                                                    *)
THEOREM GroupingsAlwaysAgree == Spec => []GroupingsAgree
BY InitChainsEnd, NextChainsEnd, Invariance, ReadAgrees, PTL DEF Spec

(* path_status() says that there are paths exactly when both menus have    *)
(* something to list.                                                      *)
THEOREM StatusAlwaysTells == Spec => []StatusTellsLists
BY InitChainsEnd, NextChainsEnd, Invariance, StatusAgrees, PTL DEF Spec
==============================================================================
