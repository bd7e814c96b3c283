------------------------------ MODULE Warehouse ------------------------------
(***************************************************************************)
(* The BigQuery tables and the scripts that make them: 3_mongo-to-bq.sh    *)
(* (pages.links), 5_mysql-to-bq.sh from its bq load on (pages.geotags),    *)
(* create_s2_table (pages.s2cells) and the atlas' undirected_links.        *)
(*                                                                         *)
(* Every statement is atomic for readers, a script is not.  A shell script *)
(* goes on after a statement that failed, a script of SQL ends.  Scripts   *)
(* run next to each other, may end anywhere and be run again.              *)
(***************************************************************************)
EXTENDS PlaceQueries

CONSTANTS
    LinkExports,             \* what the exported page_links may hold
    TagExports,              \* what the exported geo_tags may hold
    Unstable                 \* bound: the exports next to which statements fail, and
                             \* which replace each other

Exports == [links : LinkExports, geotags : TagExports]

ASSUME UnstableAssumption == Unstable \subseteq Exports
ASSUME TagExportsAssumption == TagExports \subseteq SUBSET (PageIds \X Cells)

(* What LinkTables shows of page_links in every state, also where a step   *)
(* that makes the links failed: then the rows need not be converse.        *)
ASSUME LinkExportsAssumption ==
    \A L \in LinkExports : L \subseteq LinkRows /\ OneRow(L)

Scripts == {"links", "geotags", "s2cells", "undirected"}
Statements == [s \in Scripts |-> IF s = "geotags" THEN 3 ELSE 2]
Sources == [s \in Scripts |-> IF s \in {"links", "geotags"} THEN {} ELSE {"links", "geotags"}]

VARIABLES
    cloud,                   \* the exported files
    links,                   \* pages.links: its rows, the name of its key column
    geotags,                 \* pages.geotags: its rows, the state of its column geog
    s2cells, undirected,     \* the made tables, with the links and points they are of
    step,                    \* the statement of each script that is next; 0: not running
    failing,                 \* the scripts whose present or last run had a failure
    fresh                    \* the tables whose last run was whole, on sources that were

tables == <<links, geotags, s2cells, undirected>>
vars == <<cloud, tables, step, failing, fresh>>

Init ==
    /\ cloud \in Exports
    /\ links = [rows |-> {}, key |-> "no table"]
    /\ geotags = [rows |-> {}, geog |-> "no table"]
    /\ s2cells = {} /\ undirected = {}
    /\ step = [s \in Scripts |-> 0]
    /\ failing = {} /\ fresh = {}

(* No longer fresh when s begins to change. *)
Outdated(s) == {s} \cup {t \in Scripts : s \in Sources[t]}

upload ==
    /\ cloud \in Unstable
    /\ \E c \in Unstable \ {cloud} :
         /\ cloud' = c
         /\ fresh' = fresh \ UNION {Outdated(s) : s \in {t \in DOMAIN c : c[t] # cloud[t]}}
    /\ step["links"] = 0 /\ step["geotags"] = 0
    /\ UNCHANGED <<tables, step, failing>>

start(s) ==
    /\ step[s] = 0
    /\ step' = [step EXCEPT ![s] = 1]
    /\ failing' = failing \ {s}
    /\ fresh' = fresh \ Outdated(s)
    /\ UNCHANGED <<cloud, tables>>

(* What the k-th statement of s needs of the tables. *)
Possible(s, k) ==
    /\ <<s, k>> = <<"links", 2>> => links.key = "_id"
    /\ <<s, k>> = <<"geotags", 2>> => geotags.geog = "no column"
    /\ <<s, k>> = <<"geotags", 3>> => geotags.geog \in {"NULL", "points"}
    /\ <<s, k>> = <<"s2cells", 2>> => links.key = "page_id" /\ geotags.geog \in {"NULL", "points"}
    /\ <<s, k>> = <<"undirected", 2>> => links.key = "page_id" /\ geotags.geog # "no table"

(* The k-th statement of s is run; the script goes on to the next. *)
Goes(s, k) ==
    /\ step[s] = k /\ Possible(s, k)
    /\ step' = [step EXCEPT ![s] = IF k = Statements[s] THEN 0 ELSE k + 1]
    /\ fresh' = IF k = Statements[s] /\ s \notin failing /\ Sources[s] \subseteq fresh
                THEN fresh \cup {s} ELSE fresh
    /\ UNCHANGED <<cloud, failing>>

(* Faulty variant: without --replace, behind the rows there are. *)
load_links_appending ==
    /\ Goes("links", 1)
    /\ links' = [rows |-> links.rows \cup cloud.links, key |-> "_id"]
    /\ UNCHANGED <<geotags, s2cells, undirected>>

(* bq load --replace, with the schema of the export. *)
load_links ==
    /\ Goes("links", 1)
    /\ links' = [rows |-> cloud.links, key |-> "_id"]
    /\ UNCHANGED <<geotags, s2cells, undirected>>

rename_id ==
    /\ Goes("links", 2)
    /\ links' = [links EXCEPT !.key = "page_id"]
    /\ UNCHANGED <<geotags, s2cells, undirected>>

load_geotags ==
    /\ Goes("geotags", 1)
    /\ geotags' = [rows |-> cloud.geotags, geog |-> "no column"]
    /\ UNCHANGED <<links, s2cells, undirected>>

add_geog ==
    /\ Goes("geotags", 2)
    /\ geotags' = [geotags EXCEPT !.geog = "NULL"]
    /\ UNCHANGED <<links, s2cells, undirected>>

fill_geog ==
    /\ Goes("geotags", 3)
    /\ geotags' = [geotags EXCEPT !.geog = "points"]
    /\ UNCHANGED <<links, s2cells, undirected>>

(* S2_CELLIDFROMPOINT(geog): a point that is NULL is in the cell NULL. *)
Points ==
    IF geotags.geog = "points" THEN geotags.rows ELSE {<<g[1], NULL>> : g \in geotags.rows}

drop_s2cells ==
    /\ Goes("s2cells", 1)
    /\ s2cells' = {}
    /\ UNCHANGED <<links, geotags, undirected>>

create_s2cells ==
    /\ Goes("s2cells", 2)
    /\ s2cells' = {[rows |-> CREATE_S2_TABLE(links.rows, Points),
                    links |-> links.rows, points |-> Points]}
    /\ UNCHANGED <<links, geotags, undirected>>

drop_undirected ==
    /\ Goes("undirected", 1)
    /\ undirected' = {}
    /\ UNCHANGED <<links, geotags, s2cells>>

create_undirected ==
    /\ Goes("undirected", 2)
    /\ undirected' = {[rows |-> CREATE_UNDIRECTED_TABLE(links.rows, geotags.rows),
                       links |-> links.rows]}
    /\ UNCHANGED <<links, geotags, s2cells>>

(* A statement fails: the shell reads on, the SQL script is over. *)
fail(s) ==
    /\ step[s] > 0
    /\ cloud \in Unstable \/ ~Possible(s, step[s])
    /\ failing' = failing \cup {s}
    /\ step' = [step EXCEPT ![s] = IF s \in {"s2cells", "undirected"} \/ @ = Statements[s]
                                   THEN 0 ELSE @ + 1]
    /\ UNCHANGED <<cloud, tables, fresh>>

(* The run of a script ends between two of its statements. *)
break_off(s) ==
    /\ cloud \in Unstable
    /\ step[s] > 0
    /\ failing' = failing \cup {s}
    /\ step' = [step EXCEPT ![s] = 0]
    /\ UNCHANGED <<cloud, tables, fresh>>

Next ==
    \/ upload
    \/ \E s \in Scripts : start(s) \/ fail(s) \/ break_off(s)
    \/ load_links \/ rename_id
    \/ load_geotags \/ add_geog \/ fill_geog
    \/ drop_s2cells \/ create_s2cells
    \/ drop_undirected \/ create_undirected

Spec == Init /\ [][Next]_vars

-----------------------------------------------------------------------------
(* What the queries of the programs return; ERROR if they fail. *)
ERROR == {NULL}

query_nearby(cell) ==
    IF s2cells = {} \/ links.key # "page_id" THEN ERROR
    ELSE UNION {QUERY_NEARBY(s.rows, links.rows, cell) : s \in s2cells}

query_bridges(nodes0, nodes1) ==
    IF links.key # "page_id" THEN ERROR ELSE QUERY_BRIDGES(links.rows, nodes0, nodes1)

query_mutual(node) ==
    IF links.key # "page_id" THEN ERROR ELSE QUERY_MUTUAL_LINKS(links.rows, node)

-----------------------------------------------------------------------------
TypeOK ==
    /\ cloud \in Exports
    /\ links \in [rows : LinkExports \cup {{}}, key : {"no table", "_id", "page_id"}]
    /\ geotags \in [rows : TagExports \cup {{}}, geog : {"no table", "no column", "NULL", "points"}]
    /\ \A s \in s2cells : \A r \in s.rows :
         r \in [cell_id : Cells \cup {NULL}, geo_page_ids : SUBSET PageIds,
                extended_page_ids : SUBSET PageIds]
    /\ \A u \in undirected : \A r \in u.rows :
         r \in [page_id : PageIds, is_geo : BOOLEAN, links : SUBSET PageIds,
                is_neighboring_geo : BOOLEAN]
    /\ step \in [Scripts -> 0..3] /\ \A s \in Scripts : step[s] <= Statements[s]
    /\ failing \subseteq Scripts /\ fresh \subseteq Scripts

(* Whatever failed, was broken off or is under way: the answer to           *)
(* query_nearby is an error, or what belonged to the cell in the tables    *)
(* that pages.s2cells was made from, as far as the pages are still there.  *)
(* Points that were NULL then belonged to no cell.                         *)
NearbyExact ==
    \A s \in s2cells, cell \in Cells :
        query_nearby(cell) \in
            {ERROR, NearbyIn(s.links, s.points, cell) \cap Ids(links.rows)}

(* Run whole, one after the other, the scripts leave tables that answer for*)
(* the present exports, whatever state earlier runs left the tables in.    *)
CleanRunRepairs ==
    /\ "links" \in fresh => \A n \in PageIds : query_mutual(n) # ERROR
    /\ "s2cells" \in fresh =>
         \A cell \in Cells :
             query_nearby(cell) = NearbyIn(cloud.links, cloud.geotags, cell)
    /\ "undirected" \in fresh => \E u \in undirected : u.links = cloud.links

(* query_bridges and the atlas agree on what is linked, if they are of the *)
(* same links and the link database was made without a failure: a bridge   *)
(* from one set of pages to another is a neighbour of both.                *)
BridgesAreNeighbors ==
    \A u \in undirected, p, q \in Ids(links.rows) :
        u.links = links.rows /\ Converse(links.rows) /\ query_bridges({p}, {q}) # ERROR =>
            query_bridges({p}, {q}) \subseteq
                QUERY_ALL_NEIGHBORS(u.rows, {p}) \cap QUERY_ALL_NEIGHBORS(u.rows, {q})

(* The answers on mutual links agree in every table; what they say of one   *)
(* page its own row says, if the link database was made without a failure. *)
MutualBothWays ==
    \A p, q \in PageIds :
        q \in query_mutual(p) /\ p # q =>
            /\ p \in query_mutual(q)
            /\ q \in Row(links.rows, p).out_links
            /\ Converse(links.rows) => q \in Row(links.rows, p).in_links
==============================================================================
