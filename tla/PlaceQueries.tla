---------------------------- MODULE PlaceQueries -----------------------------
(***************************************************************************)
(* The SQL of tourguide_flaskapp/bigquery_interface.py, and of the atlas,  *)
(* as operators on tables: L is the rows of pages.links, G the pairs of a  *)
(* page and the S2 cell of one of its points in pages.geotags.             *)
(* NULL is the value of a column that has none, or of a cell without point.*)
(***************************************************************************)
EXTENDS Naturals, FiniteSets, PageLinks

CONSTANTS PageIds, Cells, NULL

ASSUME NullAssumption ==
    NULL \notin PageIds /\ NULL \notin Cells /\ NULL \notin {"Place", "Person", "City"}
ASSUME PageIdsAssumption == IsFiniteSet(PageIds)

LinkRows ==
    [page_id : PageIds, out_links : SUBSET PageIds, in_links : SUBSET PageIds,
     page_typeroot : {NULL, "Place", "Person"}, page_type : {NULL, "Place", "City"},
     is_disambig : BOOLEAN, is_list : BOOLEAN]

Geotags == PageIds \X (Cells \cup {NULL})

Ids(L) == {l.page_id : l \in L}
Row(L, p) == CHOOSE l \in L : l.page_id = p

-----------------------------------------------------------------------------
(* The table expressions of CREATE_S2_TABLE. *)

cells(L, G) ==
    LET kept == {g \in G : \E l \in L : /\ l.page_id = g[1]
                                        /\ ~l.is_list /\ ~l.is_disambig
                                        /\ l.page_typeroot # NULL}
    IN  {[cell_id |-> c, geo_page_ids |-> {g[1] : g \in {k \in kept : k[2] = c}}] :
            c \in {k[2] : k \in kept}}

_extended(L, G) ==
    {e \in [cell : cells(L, G), geo : L, l1 : L] :
        /\ e.geo.page_id \in e.cell.geo_page_ids
        /\ e.l1.page_id \in e.geo.in_links \cup e.geo.out_links
        /\ e.l1.page_typeroot = "Place"
        /\ e.l1.page_type \notin {NULL, "Place"}
        /\ \A g \in G : g[1] # e.l1.page_id
        /\ ~e.l1.is_list /\ ~e.l1.is_disambig}

(* Faulty variant: a link in each direction counts twice. *)
extended_per_link(L, G) ==
    [c \in cells(L, G) |->
        {l1 \in Ids(L) :
            LET rows == {e \in _extended(L, G) : e.cell = c /\ e.l1.page_id = l1}
                ins  == {e \in rows : l1 \in e.geo.in_links}
                outs == {e \in rows : l1 \in e.geo.out_links}
            IN  2 * (Cardinality(ins) + Cardinality(outs)) > Cardinality(c.geo_page_ids)}]

(* Faulty variant: half of the pages suffice. *)
extended_half(L, G) ==
    [c \in cells(L, G) |->
        {l1 \in Ids(L) :
            LET rows == {e \in _extended(L, G) : e.cell = c /\ e.l1.page_id = l1}
            IN  rows # {} /\ 2 * Cardinality({e.geo : e \in rows}) >= Cardinality(c.geo_page_ids)}]

(* HAVING COUNT(DISTINCT geo_page_id) > 0.5 * num_geo_page_ids             *)
extended(L, G) ==
    [c \in cells(L, G) |->
        {l1 \in Ids(L) :
            LET rows == {e \in _extended(L, G) : e.cell = c /\ e.l1.page_id = l1}
            IN  2 * Cardinality({e.geo : e \in rows}) > Cardinality(c.geo_page_ids)}]

(* LEFT JOIN extended USING(cell_id): without a group the array is empty,  *)
(* also that of the cell NULL, which equals none.                          *)
joined_extended(L, G, c) == IF c.cell_id = NULL THEN {} ELSE extended(L, G)[c]

CREATE_S2_TABLE(L, G) ==
    {[cell_id |-> c.cell_id, geo_page_ids |-> c.geo_page_ids,
      extended_page_ids |-> joined_extended(L, G, c)] : c \in cells(L, G)}

(* Faulty variant: without the join with pages.links. *)
QUERY_NEARBY_unjoined(S, L, cell) ==
    UNION {s.geo_page_ids \cup s.extended_page_ids : s \in {t \in S : t.cell_id = cell}}

QUERY_NEARBY(S, L, cell) ==
    {p \in Ids(L) : \E s \in S : s.cell_id = cell /\ p \in s.geo_page_ids \cup s.extended_page_ids}

(* Pages with links out to both sets. *)
QUERY_BRIDGES(L, nodes0, nodes1) ==
    {l.page_id : l \in {k \in L : /\ ~k.is_disambig /\ k.page_typeroot # NULL
                                  /\ k.out_links \cap nodes0 # {}
                                  /\ k.out_links \cap nodes1 # {}
                                  /\ k.page_id \notin nodes1}}

(* Faulty variant: without the EXISTS. *)
QUERY_MUTUAL_LINKS_outwards(L, node) ==
    ({node} \cap Ids(L)) \cup
    {l1.page_id : l1 \in {k \in L : \E l0 \in L : l0.page_id = node /\ k.page_id \in l0.out_links}}

QUERY_MUTUAL_LINKS(L, node) ==
    ({node} \cap Ids(L)) \cup
    {l1.page_id : l1 \in {k \in L : /\ node \in k.out_links
                                    /\ \E l0 \in L : l0.page_id = node /\ k.page_id \in l0.out_links}}

-----------------------------------------------------------------------------
(* The atlas: the same links without direction. *)

(* Faulty variant: without in_links. *)
unioned_outwards(L) == UNION {{<<l.page_id, k>> : k \in l.out_links} : l \in L}

unioned(L) == UNION {{<<l.page_id, k>> : k \in l.in_links \cup l.out_links} : l \in L}

CREATE_UNDIRECTED_TABLE(L, G) ==
    LET geo == {g[1] : g \in G}
        linksOf(p) == {u[2] : u \in {v \in unioned(L) : v[1] = p}}
    IN  {[page_id |-> p, is_geo |-> p \in geo, links |-> linksOf(p),
          is_neighboring_geo |-> linksOf(p) \cap geo # {}] : p \in {u[1] : u \in unioned(L)}}

QUERY_ALL_NEIGHBORS(U, nodes1) == UNION {u.links : u \in {v \in U : v.page_id \in nodes1}}

-----------------------------------------------------------------------------
(* References, said of pages instead of tables. *)

(* The articles about a place with a point in the cell. *)
PlacesIn(L, G, cell) ==
    {p \in Ids(L) : /\ <<p, cell>> \in G
                    /\ Row(L, p).page_typeroot # NULL
                    /\ ~Row(L, p).is_disambig /\ ~Row(L, p).is_list}

(* A kind of place without a point that more of them are linked with than  *)
(* not, in either direction.                                               *)
Belongs(L, G, cell, p) ==
    LET near   == {q \in PlacesIn(L, G, cell) : p \in Row(L, q).in_links \cup Row(L, q).out_links}
        others == PlacesIn(L, G, cell) \ near
    IN  /\ Row(L, p).page_typeroot = "Place" /\ Row(L, p).page_type = "City"
        /\ ~Row(L, p).is_disambig /\ ~Row(L, p).is_list
        /\ ~\E c \in Cells : <<p, c>> \in G
        /\ Cardinality(near) > Cardinality(others)

NearbyIn(L, G, cell) ==
    PlacesIn(L, G, cell) \cup {p \in Ids(L) : Belongs(L, G, cell, p)}
==============================================================================
