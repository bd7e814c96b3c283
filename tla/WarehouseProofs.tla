--------------------------- MODULE WarehouseProofs ---------------------------
(***************************************************************************)
(* Theorems about Warehouse for any pages, cells, exports and any failures:*)
(* its type invariant, that readers get errors or exact answers, that      *)
(* clean runs repair the tables, and how the queries agree.                *)
(***************************************************************************)
EXTENDS Warehouse, FiniteSetTheorems, FunctionTheorems, TLAPS

-----------------------------------------------------------------------------
(* The SQL against its references, on any tables.                          *)

(* One row for a page. *)
Table(L) ==
    /\ L \subseteq LinkRows
    /\ \A r, s \in L : r.page_id = s.page_id => r = s

(* Before and after the points are filled in. *)
Pointed(G) == G \subseteq PageIds \X Cells \/ G \subseteq PageIds \X {NULL}

LEMMA RowIs ==
    ASSUME NEW L, Table(L), NEW r \in L
    PROVE  Row(L, r.page_id) = r /\ r \in LinkRows /\ r.page_id \in Ids(L)
BY DEF Table, Row, Ids

LEMMA RowOf ==
    ASSUME NEW L, Table(L), NEW p \in Ids(L)
    PROVE  /\ Row(L, p) \in L /\ Row(L, p).page_id = p
           /\ Row(L, p) \in LinkRows /\ p \in PageIds
<1>1. PICK r \in L : r.page_id = p
    BY DEF Ids
<1>2. Row(L, p) = r
    BY <1>1, RowIs
<1>3. QED
    BY <1>1, <1>2 DEF Table, LinkRows

LEMMA PlacesFinite ==
    ASSUME NEW L, Table(L), NEW G, NEW cell
    PROVE  /\ PlacesIn(L, G, cell) \subseteq PageIds
           /\ IsFiniteSet(PlacesIn(L, G, cell))
<1>1. PlacesIn(L, G, cell) \subseteq PageIds
    BY RowOf DEF PlacesIn
<1>2. QED
    BY <1>1, PageIdsAssumption, FS_Subset

Kept(L, G) ==
    {g \in G : \E l \in L : /\ l.page_id = g[1]
                            /\ ~l.is_list /\ ~l.is_disambig
                            /\ l.page_typeroot # NULL}

CellRow(L, G, c) ==
    [cell_id |-> c, geo_page_ids |-> {g[1] : g \in {k \in Kept(L, G) : k[2] = c}}]

LEMMA CellRows == ASSUME NEW L, NEW G
                  PROVE  cells(L, G) = {CellRow(L, G, c) : c \in {k[2] : k \in Kept(L, G)}}
BY DEF cells, CellRow, Kept

(* The rows that survive the join are those of places. *)
LEMMA KeptPlaces ==
    ASSUME NEW L, Table(L), NEW G \in SUBSET Geotags, NEW c
    PROVE  {g[1] : g \in {k \in Kept(L, G) : k[2] = c}} = PlacesIn(L, G, c)
<1>1. ASSUME NEW g \in Kept(L, G), g[2] = c
      PROVE  g[1] \in PlacesIn(L, G, c)
    <2>1. PICK l \in L : /\ l.page_id = g[1]
                         /\ ~l.is_list /\ ~l.is_disambig /\ l.page_typeroot # NULL
        BY DEF Kept
    <2>2. g = <<g[1], c>> /\ g \in G
        BY <1>1 DEF Kept, Geotags
    <2>3. Row(L, g[1]) = l /\ g[1] \in Ids(L)
        BY <2>1, RowIs
    <2>4. QED
        BY <2>1, <2>2, <2>3 DEF PlacesIn
<1>2. ASSUME NEW p \in PlacesIn(L, G, c)
      PROVE  <<p, c>> \in Kept(L, G)
    <2>1. Row(L, p) \in L /\ Row(L, p).page_id = p
        BY RowOf DEF PlacesIn
    <2>2. QED
        BY <2>1 DEF PlacesIn, Kept
<1>3. ASSUME NEW p \in PlacesIn(L, G, c)
      PROVE  p \in {g[1] : g \in {k \in Kept(L, G) : k[2] = c}}
    <2>1. <<p, c>> \in {k \in Kept(L, G) : k[2] = c} /\ <<p, c>>[1] = p
        BY <1>2
    <2>2. QED
        BY <2>1
<1>4. QED
    BY <1>1, <1>3

LEMMA CellIs ==
    ASSUME NEW L, Table(L), NEW G \in SUBSET Geotags, NEW r \in cells(L, G)
    PROVE  /\ r = [cell_id |-> r.cell_id, geo_page_ids |-> PlacesIn(L, G, r.cell_id)]
           /\ r.cell_id \in Cells \cup {NULL}
<1>1. PICK k \in Kept(L, G) : r = CellRow(L, G, k[2])
    BY CellRows
<1>2. r = [cell_id |-> k[2], geo_page_ids |-> PlacesIn(L, G, k[2])]
    BY <1>1, KeptPlaces DEF CellRow
<1>3. k[2] \in Cells \cup {NULL}
    BY DEF Kept, Geotags
<1>4. QED
    BY <1>2, <1>3

LEMMA CellThere ==
    ASSUME NEW L, Table(L), NEW G \in SUBSET Geotags, NEW c, PlacesIn(L, G, c) # {}
    PROVE  [cell_id |-> c, geo_page_ids |-> PlacesIn(L, G, c)] \in cells(L, G)
<1>1. PICK k \in Kept(L, G) : k[2] = c
    BY KeptPlaces
<1>2. CellRow(L, G, c) \in cells(L, G)
    BY <1>1, CellRows
<1>3. QED
    BY <1>2, KeptPlaces DEF CellRow

(* Counting rows of the join counts places, for a place has one row. *)
Linking(L, G, cell, p) ==
    {r \in L : r.page_id \in PlacesIn(L, G, cell) /\ p \in r.in_links \cup r.out_links}

Near(L, G, cell, p) ==
    {q \in PlacesIn(L, G, cell) : p \in Row(L, q).in_links \cup Row(L, q).out_links}

LEMMA LinkingCount ==
    ASSUME NEW L, Table(L), NEW G, NEW cell, NEW p
    PROVE  2 * Cardinality(Linking(L, G, cell, p)) > Cardinality(PlacesIn(L, G, cell))
               <=> Cardinality(Near(L, G, cell, p))
                       > Cardinality(PlacesIn(L, G, cell) \ Near(L, G, cell, p))
<1> DEFINE places == PlacesIn(L, G, cell)
           near == {q \in places : p \in Row(L, q).in_links \cup Row(L, q).out_links}
           rows == Linking(L, G, cell, p)
           f == [q \in near |-> Row(L, q)]
<1>1. IsFiniteSet(places) /\ places \subseteq Ids(L)
    BY PlacesFinite DEF PlacesIn
<1>2. IsFiniteSet(near)
    BY <1>1, FS_Subset
<1>3. f \in [near -> rows]
    <2>1. \A q \in near : Row(L, q) \in L /\ Row(L, q).page_id = q
        BY <1>1, RowOf
    <2>2. QED
        BY <2>1 DEF Linking
<1>4. \A q, u \in near : f[q] = f[u] => q = u
    <2>1. \A q \in near : f[q].page_id = q
        BY <1>1, RowOf
    <2>2. QED
        BY <2>1
<1>5. \A r \in rows : \E q \in near : f[q] = r
    <2> SUFFICES ASSUME NEW r \in rows PROVE r.page_id \in near /\ f[r.page_id] = r
        OBVIOUS
    <2>1. r \in L /\ r.page_id \in places /\ p \in r.in_links \cup r.out_links
        BY DEF Linking
    <2>2. Row(L, r.page_id) = r
        BY <2>1, RowIs
    <2>3. QED
        BY <2>1, <2>2
<1>6. f \in Bijection(near, rows)
    <2> HIDE DEF near, rows, f
    <2>1. QED
        BY <1>3, <1>4, <1>5, Fun_IsBij
<1>7. Cardinality(rows) = Cardinality(near)
    BY <1>2, <1>6, FS_Bijection DEF ExistsBijection
<1>8. near \cap places = near /\ places \cap near = near
    OBVIOUS
<1>9. Cardinality(places \ near) = Cardinality(places) - Cardinality(near)
    BY <1>1, <1>8, FS_Difference
<1>10. Cardinality(places) \in Nat /\ Cardinality(near) \in Nat
    BY <1>1, <1>2, FS_CardinalityType
<1>11. QED
    <2> HIDE DEF near, rows, places
    <2>1. (2 * Cardinality(rows) > Cardinality(places))
              <=> Cardinality(near) > Cardinality(places \ near)
        BY <1>7, <1>9, <1>10
    <2>2. QED
        BY <2>1 DEF near, rows, places, Near

(* What _extended asks of l1. *)
Eligible(L, G, p) ==
    /\ Row(L, p).page_typeroot = "Place" /\ Row(L, p).page_type = "City"
    /\ ~Row(L, p).is_disambig /\ ~Row(L, p).is_list
    /\ ~\E c \in Cells : <<p, c>> \in G

Group(L, G, r, p) ==
    {e.geo : e \in {x \in _extended(L, G) : x.cell = r /\ x.l1.page_id = p}}

LEMMA GroupIs ==
    ASSUME NEW L, Table(L), NEW G \in SUBSET (PageIds \X Cells),
           NEW r \in cells(L, G), NEW p \in Ids(L)
    PROVE  Group(L, G, r, p) =
               IF Eligible(L, G, p) THEN Linking(L, G, r.cell_id, p) ELSE {}
<1> DEFINE rows == {e \in _extended(L, G) : e.cell = r /\ e.l1.page_id = p}
           l == Row(L, p)
<1>1. l \in L /\ l.page_id = p /\ l \in LinkRows /\ p \in PageIds
    BY RowOf
<1>2. r.geo_page_ids = PlacesIn(L, G, r.cell_id)
    <2>1. G \in SUBSET Geotags
        BY DEF Geotags
    <2>2. r = [cell_id |-> r.cell_id, geo_page_ids |-> PlacesIn(L, G, r.cell_id)]
        BY <2>1, CellIs
    <2>3. QED
        BY <2>2
<1>3. Eligible(L, G, p) <=>
          /\ l.page_typeroot = "Place" /\ l.page_type \notin {NULL, "Place"}
          /\ \A g \in G : g[1] # p
          /\ ~l.is_list /\ ~l.is_disambig
    <2>1. l.page_type \in {NULL, "Place", "City"}
        BY <1>1 DEF LinkRows
    <2>2. l.page_type = "City" <=> l.page_type \notin {NULL, "Place"}
        BY <2>1, NullAssumption
    <2>3. (\E c \in Cells : <<p, c>> \in G) <=> \E g \in G : g[1] = p
        <3>1. \A g \in G : g = <<g[1], g[2]>> /\ g[2] \in Cells
            OBVIOUS
        <3>2. \A c : <<p, c>>[1] = p
            OBVIOUS
        <3>3. QED
            BY <3>1, <3>2
    <2>4. QED
        BY <2>2, <2>3 DEF Eligible
<1>4. ASSUME NEW e \in rows
      PROVE  Eligible(L, G, p) /\ e.geo \in Linking(L, G, r.cell_id, p)
    <2>1. /\ e.cell = r /\ e.l1.page_id = p /\ e.geo \in L /\ e.l1 \in L
          /\ e.geo.page_id \in r.geo_page_ids
          /\ p \in e.geo.in_links \cup e.geo.out_links
          /\ e.l1.page_typeroot = "Place" /\ e.l1.page_type \notin {NULL, "Place"}
          /\ \A g \in G : g[1] # p
          /\ ~e.l1.is_list /\ ~e.l1.is_disambig
        BY DEF _extended
    <2>2. e.l1 = l
        BY <2>1, RowIs
    <2>3. QED
        BY <1>2, <1>3, <2>1, <2>2 DEF Linking
<1>5. ASSUME Eligible(L, G, p), NEW q \in Linking(L, G, r.cell_id, p)
      PROVE  \E e \in rows : e.geo = q
    <2> DEFINE e == [cell |-> r, geo |-> q, l1 |-> l]
    <2>1. /\ e \in [cell : cells(L, G), geo : L, l1 : L]
          /\ e.cell = r /\ e.geo = q /\ e.l1 = l
        BY <1>1 DEF Linking
    <2>2. q.page_id \in r.geo_page_ids /\ p \in q.in_links \cup q.out_links
        BY <1>2 DEF Linking
    <2> HIDE DEF e
    <2>3. e \in _extended(L, G)
        BY <1>1, <1>3, <1>5, <2>1, <2>2 DEF _extended
    <2>4. QED
        BY <1>1, <2>1, <2>3
<1>6. QED
    BY <1>4, <1>5 DEF Group

LEMMA ExtendedIs ==
    ASSUME NEW L, Table(L), NEW G \in SUBSET (PageIds \X Cells), NEW r \in cells(L, G)
    PROVE  extended(L, G)[r] = {p \in Ids(L) : Belongs(L, G, r.cell_id, p)}
<1> DEFINE places == PlacesIn(L, G, r.cell_id)
<1>1. r.geo_page_ids = places
    <2>1. G \in SUBSET Geotags
        BY DEF Geotags
    <2>2. r = [cell_id |-> r.cell_id, geo_page_ids |-> PlacesIn(L, G, r.cell_id)]
        BY <2>1, CellIs
    <2>3. QED
        BY <2>2
<1>2. extended(L, G)[r] =
          {p \in Ids(L) : 2 * Cardinality(Group(L, G, r, p)) > Cardinality(r.geo_page_ids)}
    BY DEF extended, Group
<1>3. ASSUME NEW p \in Ids(L)
      PROVE  2 * Cardinality(Group(L, G, r, p)) > Cardinality(places) <=> Belongs(L, G, r.cell_id, p)
    <2>1. Group(L, G, r, p) = IF Eligible(L, G, p) THEN Linking(L, G, r.cell_id, p) ELSE {}
        BY GroupIs
    <2>2. CASE Eligible(L, G, p)
        <3>1. Belongs(L, G, r.cell_id, p) <=>
                  Cardinality(Near(L, G, r.cell_id, p))
                      > Cardinality(places \ Near(L, G, r.cell_id, p))
            BY <2>2 DEF Belongs, Eligible, Near
        <3>2. Group(L, G, r, p) = Linking(L, G, r.cell_id, p)
            BY <2>1, <2>2
        <3>3. QED
            BY <3>1, <3>2, LinkingCount
    <2>3. CASE ~Eligible(L, G, p)
        <3>1. Cardinality(Group(L, G, r, p)) = 0
            BY <2>1, <2>3, FS_EmptySet
        <3>2. Cardinality(places) \in Nat
            BY PlacesFinite, FS_CardinalityType
        <3> HIDE DEF places
        <3>3. ~(2 * Cardinality(Group(L, G, r, p)) > Cardinality(places))
            BY <3>1, <3>2
        <3>4. QED
            BY <2>3, <3>3 DEF Belongs, Eligible
    <2>4. QED
        BY <2>2, <2>3
<1>4. QED
    BY <1>1, <1>2, <1>3

(* A row of pages.s2cells has what belongs to its cell. *)
LEMMA NearbyUnjoined ==
    ASSUME NEW L, Table(L), NEW G, Pointed(G), NEW cell \in Cells
    PROVE  UNION {s.geo_page_ids \cup s.extended_page_ids :
                     s \in {t \in CREATE_S2_TABLE(L, G) : t.cell_id = cell}}
               = NearbyIn(L, G, cell)
<1> DEFINE places == PlacesIn(L, G, cell)
           S == {t \in CREATE_S2_TABLE(L, G) : t.cell_id = cell}
<1>1. G \in SUBSET Geotags
    BY DEF Pointed, Geotags
<1>2. \A s \in S : \E r \in cells(L, G) :
          /\ r.cell_id = cell
          /\ s = [cell_id |-> r.cell_id, geo_page_ids |-> r.geo_page_ids,
                  extended_page_ids |-> extended(L, G)[r]]
    <2>1. cell # NULL
        BY NullAssumption
    <2>2. QED
        BY <2>1 DEF CREATE_S2_TABLE, joined_extended
<1>3. CASE places = {}
    <2>1. ASSUME NEW s \in S PROVE FALSE
        <3>1. PICK k \in Kept(L, G) : k[2] = cell
            BY <1>2, CellRows DEF CellRow
        <3>2. k[1] \in {g[1] : g \in {x \in Kept(L, G) : x[2] = cell}}
            BY <3>1
        <3>3. QED
            BY <1>1, <1>3, <3>2, KeptPlaces
    <2>2. \A p \in Ids(L) : ~Belongs(L, G, cell, p)
        <3> SUFFICES ASSUME NEW p \in Ids(L), Belongs(L, G, cell, p) PROVE FALSE
            OBVIOUS
        <3>1. Cardinality({}) > Cardinality({})
            <4>1. {q \in places : p \in Row(L, q).in_links \cup Row(L, q).out_links} = {}
                BY <1>3
            <4>2. places \ {} = {}
                BY <1>3
            <4>3. QED
                BY <4>1, <4>2 DEF Belongs
        <3>2. QED
            BY <3>1, FS_EmptySet
    <2>3. QED
        BY <1>3, <2>1, <2>2 DEF NearbyIn
<1>4. CASE places # {}
    <2>1. G \in SUBSET (PageIds \X Cells)
        <3>1. \E p : <<p, cell>> \in G
            BY <1>4 DEF PlacesIn
        <3>2. QED
            BY <3>1, NullAssumption DEF Pointed
    <2> DEFINE r0 == [cell_id |-> cell, geo_page_ids |-> places]
               s0 == [cell_id |-> cell, geo_page_ids |-> places,
                      extended_page_ids |-> extended(L, G)[r0]]
    <2>2. r0 \in cells(L, G) /\ r0.cell_id = cell
        BY <1>1, <1>4, CellThere
    <2>3. \A r \in cells(L, G) : r.cell_id = cell => r = r0
        BY <1>1, CellIs
    <2>4. extended(L, G)[r0] = {p \in Ids(L) : Belongs(L, G, cell, p)}
        BY <2>1, <2>2, ExtendedIs
    <2>5. S = {s0}
        <3>1. s0 \in S
            BY <2>2, NullAssumption DEF CREATE_S2_TABLE, joined_extended
        <3>2. \A s \in S : s = s0
            <4> HIDE DEF S, r0, places
            <4>1. \A s \in S : s = [cell_id |-> r0.cell_id, geo_page_ids |-> r0.geo_page_ids,
                                    extended_page_ids |-> extended(L, G)[r0]]
                BY <1>2, <2>3
            <4>2. r0.cell_id = cell /\ r0.geo_page_ids = places
                BY DEF r0
            <4>3. QED
                BY <4>1, <4>2
        <3>3. QED
            BY <3>1, <3>2
    <2>6. s0.geo_page_ids = places /\ s0.extended_page_ids = {p \in Ids(L) : Belongs(L, G, cell, p)}
        BY <2>4
    <2>7. UNION {s.geo_page_ids \cup s.extended_page_ids : s \in S} = NearbyIn(L, G, cell)
        <3> HIDE DEF S, s0, places
        <3>1. UNION {s.geo_page_ids \cup s.extended_page_ids : s \in S}
                  = s0.geo_page_ids \cup s0.extended_page_ids
            BY <2>5
        <3>2. QED
            BY <2>6, <3>1 DEF NearbyIn, places
    <2>8. QED
        BY <2>7
<1>5. QED
    BY <1>3, <1>4

(* query_nearby against its reference. *)
LEMMA QueryNearbyIs ==
    ASSUME NEW L, Table(L), NEW G, Pointed(G), NEW cell \in Cells, NEW M
    PROVE  QUERY_NEARBY(CREATE_S2_TABLE(L, G), M, cell) = NearbyIn(L, G, cell) \cap Ids(M)
BY NearbyUnjoined DEF QUERY_NEARBY

LEMMA S2Typed ==
    ASSUME NEW L, Table(L), NEW G, Pointed(G)
    PROVE  \A s \in CREATE_S2_TABLE(L, G) :
               s \in [cell_id : Cells \cup {NULL}, geo_page_ids : SUBSET PageIds,
                      extended_page_ids : SUBSET PageIds]
<1>1. G \in SUBSET Geotags
    BY DEF Pointed, Geotags
<1>2. SUFFICES ASSUME NEW r \in cells(L, G)
               PROVE  /\ r.cell_id \in Cells \cup {NULL} /\ r.geo_page_ids \in SUBSET PageIds
                      /\ extended(L, G)[r] \in SUBSET PageIds
    BY DEF CREATE_S2_TABLE, joined_extended
<1>3. /\ r = [cell_id |-> r.cell_id, geo_page_ids |-> PlacesIn(L, G, r.cell_id)]
      /\ r.cell_id \in Cells \cup {NULL}
    BY <1>1, CellIs
<1>4. r.geo_page_ids \in SUBSET PageIds
    <2>1. r.geo_page_ids = PlacesIn(L, G, r.cell_id)
        BY <1>3
    <2>2. QED
        BY <2>1, PlacesFinite
<1>5. extended(L, G)[r] \subseteq Ids(L)
    BY DEF extended
<1>6. Ids(L) \subseteq PageIds
    BY RowOf
<1>7. QED
    BY <1>3, <1>4, <1>5, <1>6
-----------------------------------------------------------------------------
(* The invariant.                                                          *)

(* What was made was made of the tables as they were at one moment.        *)
Made ==
    /\ \A s, t \in s2cells : s = t
    /\ \A s \in s2cells :
         /\ s.rows = CREATE_S2_TABLE(s.links, s.points)
         /\ Table(s.links) /\ Pointed(s.points)
    /\ \A u \in undirected :
         \E G : u.rows = CREATE_UNDIRECTED_TABLE(u.links, G) /\ Table(u.links)

(* A table that is being changed is not fresh, nor is what is made of it.  *)
FreshSources ==
    /\ \A s \in Scripts : step[s] > 0 => s \notin fresh
    /\ \A t \in fresh : Sources[t] \subseteq fresh

(* A run without failures so far has done what its statements say.         *)
LinksAreCloud ==
    /\ "links" \in fresh => links = [rows |-> cloud.links, key |-> "page_id"]
    /\ step["links"] = 2 /\ "links" \notin failing =>
         links = [rows |-> cloud.links, key |-> "_id"]

GeotagsAreCloud ==
    /\ "geotags" \in fresh => geotags = [rows |-> cloud.geotags, geog |-> "points"]
    /\ step["geotags"] = 2 /\ "geotags" \notin failing =>
         geotags = [rows |-> cloud.geotags, geog |-> "no column"]
    /\ step["geotags"] = 3 /\ "geotags" \notin failing =>
         geotags = [rows |-> cloud.geotags, geog |-> "NULL"]

MadeOfCloud ==
    /\ "s2cells" \in fresh =>
         \E s \in s2cells : s.links = cloud.links /\ s.points = cloud.geotags
    /\ "undirected" \in fresh => \E u \in undirected : u.links = cloud.links

Inv ==
    /\ TypeOK
    /\ Made
    /\ FreshSources
    /\ LinksAreCloud
    /\ GeotagsAreCloud
    /\ MadeOfCloud
-----------------------------------------------------------------------------
(* Types.                                                                  *)

LEMMA ExportTables ==
    /\ \A L \in LinkExports \cup {{}} : Table(L)
    /\ \A G \in TagExports \cup {{}} : G \subseteq PageIds \X Cells
BY LinkExportsAssumption, TagExportsAssumption DEF Table, OneRow

LEMMA UnionedIs ==
    ASSUME NEW L, Table(L)
    PROVE  \A u \in unioned(L) : u \in PageIds \X PageIds
BY DEF unioned, Table, LinkRows

LEMMA UndirectedTyped ==
    ASSUME NEW L, Table(L), NEW G
    PROVE  \A r \in CREATE_UNDIRECTED_TABLE(L, G) :
               r \in [page_id : PageIds, is_geo : BOOLEAN, links : SUBSET PageIds,
                      is_neighboring_geo : BOOLEAN]
<1> DEFINE geo == {g[1] : g \in G}
           linksOf(p) == {u[2] : u \in {v \in unioned(L) : v[1] = p}}
<1>1. \A p : linksOf(p) \in SUBSET PageIds
    BY UnionedIs
<1>2. \A p \in {u[1] : u \in unioned(L)} : p \in PageIds
    BY UnionedIs
<1>3. CREATE_UNDIRECTED_TABLE(L, G) =
          {[page_id |-> p, is_geo |-> p \in geo, links |-> linksOf(p),
            is_neighboring_geo |-> linksOf(p) \cap geo # {}] : p \in {u[1] : u \in unioned(L)}}
    BY DEF CREATE_UNDIRECTED_TABLE
<1> HIDE DEF geo, linksOf
<1>4. ASSUME NEW p \in PageIds, NEW K \in SUBSET PageIds, NEW a \in BOOLEAN, NEW b \in BOOLEAN
      PROVE  [page_id |-> p, is_geo |-> a, links |-> K, is_neighboring_geo |-> b]
                 \in [page_id : PageIds, is_geo : BOOLEAN, links : SUBSET PageIds,
                      is_neighboring_geo : BOOLEAN]
    OBVIOUS
<1>5. ASSUME NEW p \in {u[1] : u \in unioned(L)}
      PROVE  [page_id |-> p, is_geo |-> p \in geo, links |-> linksOf(p),
              is_neighboring_geo |-> linksOf(p) \cap geo # {}]
                 \in [page_id : PageIds, is_geo : BOOLEAN, links : SUBSET PageIds,
                      is_neighboring_geo : BOOLEAN]
    <2>1. (p \in geo) \in BOOLEAN /\ (linksOf(p) \cap geo # {}) \in BOOLEAN
        OBVIOUS
    <2>2. p \in PageIds /\ linksOf(p) \in SUBSET PageIds
        BY <1>1, <1>2
    <2>3. QED
        BY <1>4, <2>1, <2>2, Zenon
<1>6. QED
    BY <1>3, <1>5, Zenon

(* The tables have the types of TypeOK because of what they were made of.  *)
RowsTyped(S, U) ==
    /\ \A s \in S : \A r \in s.rows :
         r \in [cell_id : Cells \cup {NULL}, geo_page_ids : SUBSET PageIds,
                extended_page_ids : SUBSET PageIds]
    /\ \A u \in U : \A r \in u.rows :
         r \in [page_id : PageIds, is_geo : BOOLEAN, links : SUBSET PageIds,
                is_neighboring_geo : BOOLEAN]

LEMMA MadeTyped == Made' => RowsTyped(s2cells', undirected')
<1> SUFFICES ASSUME Made' PROVE RowsTyped(s2cells', undirected')
    OBVIOUS
<1>1. \A s \in s2cells' : \A r \in s.rows :
          r \in [cell_id : Cells \cup {NULL}, geo_page_ids : SUBSET PageIds,
                 extended_page_ids : SUBSET PageIds]
    BY S2Typed DEF Made
<1>2. \A u \in undirected' : \A r \in u.rows :
          r \in [page_id : PageIds, is_geo : BOOLEAN, links : SUBSET PageIds,
                 is_neighboring_geo : BOOLEAN]
    BY UndirectedTyped DEF Made
<1>3. QED
    BY <1>1, <1>2 DEF RowsTyped

(* The rest of TypeOK. *)
StepsTyped ==
    /\ step \in [Scripts -> 0..3] /\ \A s \in Scripts : step[s] <= Statements[s]
    /\ failing \subseteq Scripts /\ fresh \subseteq Scripts

SourcesTyped ==
    /\ cloud \in Exports
    /\ links \in [rows : LinkExports \cup {{}}, key : {"no table", "_id", "page_id"}]
    /\ geotags \in [rows : TagExports \cup {{}}, geog : {"no table", "no column", "NULL", "points"}]

LEMMA TypeParts == TypeOK <=> StepsTyped /\ SourcesTyped /\ RowsTyped(s2cells, undirected)
BY DEF TypeOK, StepsTyped, SourcesTyped, RowsTyped

LEMMA NextTyped ==
    ASSUME StepsTyped', SourcesTyped', Made'
    PROVE  TypeOK'
BY MadeTyped DEF TypeOK, StepsTyped, SourcesTyped, RowsTyped

LEMMA InitInv == Init => Inv
<1> SUFFICES ASSUME Init PROVE Inv
    OBVIOUS
<1>1. \A s \in Scripts : step[s] = 0 /\ Statements[s] \in {2, 3}
    BY DEF Init, Statements
<1>2. StepsTyped
    <2>1. step \in [Scripts -> 0..3]
        <3>1. 0 \in 0..3
            OBVIOUS
        <3>2. QED
            BY <3>1, Zenon DEF Init
    <2>2. \A s \in Scripts : step[s] <= Statements[s]
        BY <1>1
    <2>3. QED
        BY <2>1, <2>2 DEF Init, StepsTyped
<1>3. SourcesTyped
    BY DEF Init, SourcesTyped
<1>4. RowsTyped(s2cells, undirected)
    BY DEF Init, RowsTyped
<1>5. Made /\ MadeOfCloud
    BY DEF Init, Made, MadeOfCloud
<1>6. FreshSources /\ LinksAreCloud /\ GeotagsAreCloud
    <2>1. fresh = {} /\ step["links"] = 0 /\ step["geotags"] = 0
        BY <1>1 DEF Init, Scripts
    <2>2. FreshSources
        BY <2>1 DEF FreshSources
    <2>3. LinksAreCloud /\ GeotagsAreCloud
        BY <2>1 DEF LinksAreCloud, GeotagsAreCloud
    <2>4. QED
        BY <2>2, <2>3
<1>7. QED
    BY <1>2, <1>3, <1>4, <1>5, <1>6, TypeParts DEF Inv

-----------------------------------------------------------------------------
(* Steps.                                                                  *)

(* Bookkeeping of a statement that succeeds. *)
LEMMA GoesFacts ==
    ASSUME Inv, NEW s \in Scripts, NEW k \in 1..Statements[s], Goes(s, k)
    PROVE  /\ cloud' = cloud /\ failing' = failing
           /\ step[s] = k /\ Possible(s, k)
           /\ step'[s] = IF k = Statements[s] THEN 0 ELSE k + 1
           /\ \A t \in Scripts \ {s} : step'[t] = step[t]
           /\ StepsTyped' /\ FreshSources'
           /\ s \notin fresh /\ \A t \in fresh : s \notin Sources[t]
           /\ fresh \subseteq fresh' /\ fresh' \subseteq fresh \cup {s}
           /\ s \in fresh' => k = Statements[s] /\ s \notin failing /\ Sources[s] \subseteq fresh
<1>1. StepsTyped /\ FreshSources
    BY TypeParts DEF Inv
<1>2. Statements[s] \in {2, 3}
    BY DEF Statements
<1>3. /\ step[s] = k /\ Possible(s, k)
      /\ step' = [step EXCEPT ![s] = IF k = Statements[s] THEN 0 ELSE k + 1]
      /\ fresh' = IF k = Statements[s] /\ s \notin failing /\ Sources[s] \subseteq fresh
                  THEN fresh \cup {s} ELSE fresh
      /\ cloud' = cloud /\ failing' = failing
    BY DEF Goes
<1>4. /\ step'[s] = IF k = Statements[s] THEN 0 ELSE k + 1
      /\ \A t \in Scripts \ {s} : step'[t] = step[t]
      /\ step' \in [Scripts -> 0..3]
    BY <1>1, <1>2, <1>3 DEF StepsTyped
<1>5. s \notin fresh
    BY <1>1, <1>3 DEF FreshSources
<1>6. \A t \in fresh : s \notin Sources[t]
    BY <1>1, <1>5 DEF FreshSources
<1>7. StepsTyped'
    <2>1. \A t \in Scripts : step'[t] <= Statements[t]
        BY <1>1, <1>2, <1>4 DEF StepsTyped
    <2>2. QED
        BY <1>1, <1>3, <1>4, <2>1 DEF StepsTyped
<1>8. FreshSources'
    <2>1. \A t \in Scripts : step'[t] > 0 => t \notin fresh'
        BY <1>1, <1>2, <1>3, <1>4, <1>5 DEF FreshSources
    <2>2. \A t \in fresh' : Sources[t] \subseteq fresh'
        BY <1>1, <1>3 DEF FreshSources
    <2>3. QED
        BY <2>1, <2>2 DEF FreshSources
<1>9. QED
    BY <1>3, <1>4, <1>5, <1>6, <1>7, <1>8

(* What a step leaves alone stays what it was. *)
LEMMA MadeKept == Made /\ UNCHANGED <<s2cells, undirected>> => Made'
BY DEF Made

LEMMA MadeOfCloudKept ==
    ASSUME MadeOfCloud, UNCHANGED <<s2cells, undirected>>,
           "s2cells" \in fresh' => "s2cells" \in fresh /\ cloud'.links = cloud.links
                                       /\ cloud'.geotags = cloud.geotags,
           "undirected" \in fresh' => "undirected" \in fresh /\ cloud'.links = cloud.links
    PROVE  MadeOfCloud'
BY DEF MadeOfCloud

LEMMA LinksAreCloudKept ==
    ASSUME LinksAreCloud, links' = links,
           "links" \in fresh' => "links" \in fresh /\ cloud'.links = cloud.links,
           step'["links"] = 2 /\ "links" \notin failing' =>
               step["links"] = 2 /\ "links" \notin failing /\ cloud'.links = cloud.links
    PROVE  LinksAreCloud'
BY DEF LinksAreCloud

LEMMA GeotagsAreCloudKept ==
    ASSUME GeotagsAreCloud, geotags' = geotags,
           "geotags" \in fresh' => "geotags" \in fresh /\ cloud'.geotags = cloud.geotags,
           \A k \in {2, 3} : step'["geotags"] = k /\ "geotags" \notin failing' =>
               step["geotags"] = k /\ "geotags" \notin failing /\ cloud'.geotags = cloud.geotags
    PROVE  GeotagsAreCloud'
BY DEF GeotagsAreCloud

LEMMA SourcesOf ==
    /\ \A s \in {"links", "geotags"} : Sources[s] = {}
    /\ \A s \in {"s2cells", "undirected"} : Sources[s] = {"links", "geotags"}
    /\ Statements = [s \in Scripts |-> IF s = "geotags" THEN 3 ELSE 2]
    /\ {"links", "geotags", "s2cells", "undirected"} = Scripts
BY DEF Sources, Statements, Scripts

(* The two statements that change pages.links. *)
LEMMA LoadLinksInv == Inv /\ (load_links \/ rename_id) => Inv'
<1> SUFFICES ASSUME Inv, load_links \/ rename_id PROVE Inv'
    OBVIOUS
<1>1. PICK k \in {1, 2} :
          /\ Goes("links", k)
          /\ k = 1 => links' = [rows |-> cloud.links, key |-> "_id"]
          /\ k = 2 => links' = [links EXCEPT !.key = "page_id"]
          /\ UNCHANGED <<geotags, s2cells, undirected>>
    BY DEF load_links, rename_id
<1>2. "links" \in Scripts /\ k \in 1..Statements["links"] /\ Statements["links"] = 2
    BY SourcesOf
<1>3. /\ cloud' = cloud /\ failing' = failing
      /\ step["links"] = k
      /\ step'["links"] = IF k = 2 THEN 0 ELSE k + 1
      /\ \A t \in Scripts \ {"links"} : step'[t] = step[t]
      /\ StepsTyped' /\ FreshSources'
      /\ \A t \in fresh : "links" \notin Sources[t]
      /\ fresh' \subseteq fresh \cup {"links"}
      /\ "links" \in fresh' => k = 2 /\ "links" \notin failing
    BY <1>1, <1>2, GoesFacts
<1>4. SourcesTyped'
    <2>1. SourcesTyped
        BY TypeParts DEF Inv
    <2>2. links' \in [rows : LinkExports \cup {{}}, key : {"no table", "_id", "page_id"}]
        <3>1. CASE k = 1
            <4>1. cloud.links \in LinkExports
                BY <2>1 DEF SourcesTyped, Exports
            <4>2. links' = [rows |-> cloud.links, key |-> "_id"]
                BY <1>1, <3>1
            <4>3. QED
                BY <4>1, <4>2
        <3>2. CASE k = 2
            <4>1. links' = [links EXCEPT !.key = "page_id"]
                BY <1>1, <3>2
            <4>2. QED
                BY <2>1, <4>1 DEF SourcesTyped
        <3>3. QED
            BY <3>1, <3>2
    <2>3. QED
        BY <1>1, <1>3, <2>1, <2>2 DEF SourcesTyped
<1>5. Made'
    BY <1>1, MadeKept DEF Inv
<1>6. LinksAreCloud'
    BY <1>1, <1>3 DEF Inv, LinksAreCloud
<1>7. GeotagsAreCloud'
    BY <1>1, <1>3, SourcesOf, GeotagsAreCloudKept DEF Inv
<1>8. MadeOfCloud'
    BY <1>1, <1>3, MadeOfCloudKept DEF Inv
<1>9. QED
    BY <1>3, <1>4, <1>5, <1>6, <1>7, <1>8, NextTyped DEF Inv

(* The three that change pages.geotags. *)
GeogAfter(k) == IF k = 1 THEN "no column" ELSE IF k = 2 THEN "NULL" ELSE "points"

LEMMA GeotagsStatements ==
    ASSUME Inv, load_geotags \/ add_geog \/ fill_geog
    PROVE  \E k \in {1, 2, 3} :
               /\ Goes("geotags", k)
               /\ geotags' = [rows |-> IF k = 1 THEN cloud.geotags ELSE geotags.rows,
                              geog |-> GeogAfter(k)]
               /\ UNCHANGED <<links, s2cells, undirected>>
<1>1. geotags \in [rows : TagExports \cup {{}},
                   geog : {"no table", "no column", "NULL", "points"}]
    BY TypeParts DEF Inv, SourcesTyped
<1>2. CASE load_geotags
    BY <1>2 DEF load_geotags, GeogAfter
<1>3. CASE add_geog
    <2>1. geotags' = [rows |-> geotags.rows, geog |-> "NULL"]
        BY <1>1, <1>3 DEF add_geog
    <2>2. geotags' = [rows |-> IF 2 = 1 THEN cloud.geotags ELSE geotags.rows,
                      geog |-> GeogAfter(2)]
        BY <2>1 DEF GeogAfter
    <2>3. Goes("geotags", 2) /\ UNCHANGED <<links, s2cells, undirected>>
        BY <1>3 DEF add_geog
    <2>4. QED
        BY <2>2, <2>3, Zenon
<1>4. CASE fill_geog
    <2>1. geotags' = [rows |-> geotags.rows, geog |-> "points"]
        BY <1>1, <1>4 DEF fill_geog
    <2>2. geotags' = [rows |-> IF 3 = 1 THEN cloud.geotags ELSE geotags.rows,
                      geog |-> GeogAfter(3)]
        BY <2>1 DEF GeogAfter
    <2>3. Goes("geotags", 3) /\ UNCHANGED <<links, s2cells, undirected>>
        BY <1>4 DEF fill_geog
    <2>4. QED
        BY <2>2, <2>3, Zenon
<1>5. QED
    BY <1>2, <1>3, <1>4

LEMMA LoadGeotagsInv == Inv /\ (load_geotags \/ add_geog \/ fill_geog) => Inv'
<1> SUFFICES ASSUME Inv, load_geotags \/ add_geog \/ fill_geog PROVE Inv'
    OBVIOUS
<1>1. PICK k \in {1, 2, 3} :
          /\ Goes("geotags", k)
          /\ geotags' = [rows |-> IF k = 1 THEN cloud.geotags ELSE geotags.rows,
                         geog |-> GeogAfter(k)]
          /\ UNCHANGED <<links, s2cells, undirected>>
    BY GeotagsStatements
<1>2. "geotags" \in Scripts /\ k \in 1..Statements["geotags"] /\ Statements["geotags"] = 3
    BY SourcesOf
<1>3. SourcesTyped
    BY TypeParts DEF Inv
<1>4. /\ cloud' = cloud /\ failing' = failing
      /\ step["geotags"] = k
      /\ step'["geotags"] = IF k = 3 THEN 0 ELSE k + 1
      /\ \A t \in Scripts \ {"geotags"} : step'[t] = step[t]
    BY <1>1, <1>2, GoesFacts
<1>5. /\ StepsTyped' /\ FreshSources'
      /\ \A t \in fresh : "geotags" \notin Sources[t]
      /\ fresh' \subseteq fresh \cup {"geotags"} /\ "geotags" \notin fresh
      /\ "geotags" \in fresh' => k = 3 /\ "geotags" \notin failing
    BY <1>1, <1>2, GoesFacts
<1>6. SourcesTyped'
    <2>1. cloud.geotags \in TagExports /\ geotags.rows \in TagExports \cup {{}}
        BY <1>3 DEF SourcesTyped, Exports
    <2>2. geotags' \in [rows : TagExports \cup {{}},
                        geog : {"no table", "no column", "NULL", "points"}]
        BY <1>1, <2>1 DEF GeogAfter
    <2>3. QED
        BY <1>1, <1>3, <1>4, <2>2 DEF SourcesTyped
<1>7. Made'
    BY <1>1, MadeKept DEF Inv
<1>8. LinksAreCloud'
    BY <1>1, <1>4, <1>5, SourcesOf, LinksAreCloudKept DEF Inv
<1>9. GeotagsAreCloud'
    <2>1. ASSUME "geotags" \notin failing
          PROVE  geotags' = [rows |-> cloud.geotags, geog |-> GeogAfter(k)]
        <3>1. k # 1 => geotags.rows = cloud.geotags
            <4>1. k = 2 => geotags = [rows |-> cloud.geotags, geog |-> "no column"]
                BY <1>4, <2>1 DEF Inv, GeotagsAreCloud
            <4>2. k = 3 => geotags = [rows |-> cloud.geotags, geog |-> "NULL"]
                BY <1>4, <2>1 DEF Inv, GeotagsAreCloud
            <4>3. CASE k = 2
                <5>1. geotags = [rows |-> cloud.geotags, geog |-> "no column"]
                    BY <4>1, <4>3, Zenon
                <5>2. QED
                    BY <5>1
            <4>4. CASE k = 3
                <5>1. geotags = [rows |-> cloud.geotags, geog |-> "NULL"]
                    BY <4>2, <4>4, Zenon
                <5>2. QED
                    BY <5>1
            <4>5. QED
                BY <4>3, <4>4
        <3>2. QED
            BY <1>1, <3>1
    <2>2. "geotags" \in fresh' => geotags' = [rows |-> cloud'.geotags, geog |-> "points"]
        BY <1>4, <1>5, <2>1 DEF GeogAfter
    <2>3. step'["geotags"] = 2 /\ "geotags" \notin failing' =>
              geotags' = [rows |-> cloud'.geotags, geog |-> "no column"]
        <3>1. step'["geotags"] = 2 => k = 1
            BY <1>4
        <3>2. QED
            BY <1>4, <2>1, <3>1 DEF GeogAfter
    <2>4. step'["geotags"] = 3 /\ "geotags" \notin failing' =>
              geotags' = [rows |-> cloud'.geotags, geog |-> "NULL"]
        <3>1. step'["geotags"] = 3 => k = 2
            BY <1>4
        <3>2. k = 2 => GeogAfter(k) = "NULL"
            BY DEF GeogAfter
        <3>3. QED
            BY <1>4, <2>1, <3>1, <3>2
    <2>5. QED
        BY <2>2, <2>3, <2>4 DEF GeotagsAreCloud
<1>10. MadeOfCloud'
    BY <1>1, <1>4, <1>5, MadeOfCloudKept DEF Inv
<1>11. QED
    BY <1>4, <1>5, <1>6, <1>7, <1>8, <1>9, <1>10, NextTyped DEF Inv

LEMMA PointsPointed == SourcesTyped => Pointed(Points)
<1> SUFFICES ASSUME SourcesTyped PROVE Pointed(Points)
    OBVIOUS
<1>1. geotags.rows \subseteq PageIds \X Cells
    BY ExportTables DEF SourcesTyped
<1>2. {<<g[1], NULL>> : g \in geotags.rows} \subseteq PageIds \X {NULL}
    BY <1>1
<1>3. QED
    BY <1>1, <1>2 DEF Pointed, Points

(* The two of create_s2_table. *)
LEMMA S2Inv == Inv /\ (drop_s2cells \/ create_s2cells) => Inv'
<1> SUFFICES ASSUME Inv, drop_s2cells \/ create_s2cells PROVE Inv'
    OBVIOUS
<1>1. PICK k \in {1, 2} :
          /\ Goes("s2cells", k)
          /\ k = 1 => s2cells' = {}
          /\ k = 2 => s2cells' = {[rows |-> CREATE_S2_TABLE(links.rows, Points),
                                   links |-> links.rows, points |-> Points]}
          /\ UNCHANGED <<links, geotags, undirected>>
    BY DEF drop_s2cells, create_s2cells
<1>2. "s2cells" \in Scripts /\ k \in 1..Statements["s2cells"] /\ Statements["s2cells"] = 2
    BY SourcesOf
<1>3. /\ cloud' = cloud /\ failing' = failing
      /\ step["s2cells"] = k
      /\ \A t \in Scripts \ {"s2cells"} : step'[t] = step[t]
      /\ StepsTyped' /\ FreshSources'
      /\ fresh' \subseteq fresh \cup {"s2cells"}
      /\ "s2cells" \in fresh' => k = 2 /\ Sources["s2cells"] \subseteq fresh
    BY <1>1, <1>2, GoesFacts
<1>4. SourcesTyped /\ SourcesTyped'
    BY <1>1, <1>3, TypeParts DEF Inv, SourcesTyped
<1>5. Table(links.rows) /\ Pointed(Points)
    BY <1>4, ExportTables, PointsPointed DEF SourcesTyped
<1>6. Made'
    BY <1>1, <1>5 DEF Inv, Made
<1>7. LinksAreCloud'
    BY <1>1, <1>3, SourcesOf, LinksAreCloudKept DEF Inv
<1>8. GeotagsAreCloud'
    BY <1>1, <1>3, SourcesOf, GeotagsAreCloudKept DEF Inv
<1>9. MadeOfCloud'
    <2>1. ASSUME "s2cells" \in fresh'
          PROVE  \E s \in s2cells' : s.links = cloud'.links /\ s.points = cloud'.geotags
        <3>1. "links" \in fresh /\ "geotags" \in fresh
            BY <1>3, <2>1, SourcesOf
        <3>2. links.rows = cloud.links /\ Points = cloud.geotags
            <4>1. links = [rows |-> cloud.links, key |-> "page_id"]
                BY <3>1 DEF Inv, LinksAreCloud
            <4>2. geotags = [rows |-> cloud.geotags, geog |-> "points"]
                BY <3>1 DEF Inv, GeotagsAreCloud
            <4>3. geotags.geog = "points" /\ geotags.rows = cloud.geotags
                BY <4>2
            <4>4. QED
                BY <4>1, <4>3 DEF Points
        <3>3. s2cells' = {[rows |-> CREATE_S2_TABLE(links.rows, Points),
                           links |-> links.rows, points |-> Points]}
            BY <1>1, <1>3, <2>1
        <3>4. QED
            BY <1>3, <3>2, <3>3
    <2>2. "undirected" \in fresh' => \E u \in undirected' : u.links = cloud'.links
        BY <1>1, <1>3 DEF Inv, MadeOfCloud
    <2>3. QED
        BY <2>1, <2>2 DEF MadeOfCloud
<1>10. QED
    BY <1>3, <1>4, <1>6, <1>7, <1>8, <1>9, NextTyped DEF Inv

(* The two of CREATE_UNDIRECTED_TABLE. *)
LEMMA UndirectedInv == Inv /\ (drop_undirected \/ create_undirected) => Inv'
<1> SUFFICES ASSUME Inv, drop_undirected \/ create_undirected PROVE Inv'
    OBVIOUS
<1>1. PICK k \in {1, 2} :
          /\ Goes("undirected", k)
          /\ k = 1 => undirected' = {}
          /\ k = 2 => undirected' = {[rows |-> CREATE_UNDIRECTED_TABLE(links.rows, geotags.rows),
                                      links |-> links.rows]}
          /\ UNCHANGED <<links, geotags, s2cells>>
    BY DEF drop_undirected, create_undirected
<1>2. "undirected" \in Scripts /\ k \in 1..Statements["undirected"] /\ Statements["undirected"] = 2
    BY SourcesOf
<1>3. /\ cloud' = cloud /\ failing' = failing
      /\ step["undirected"] = k
      /\ \A t \in Scripts \ {"undirected"} : step'[t] = step[t]
      /\ StepsTyped' /\ FreshSources'
      /\ fresh' \subseteq fresh \cup {"undirected"}
      /\ "undirected" \in fresh' => k = 2 /\ Sources["undirected"] \subseteq fresh
    BY <1>1, <1>2, GoesFacts
<1>4. SourcesTyped /\ SourcesTyped'
    BY <1>1, <1>3, TypeParts DEF Inv, SourcesTyped
<1>5. Table(links.rows)
    BY <1>4, ExportTables DEF SourcesTyped
<1>6. Made'
    BY <1>1, <1>5 DEF Inv, Made
<1>7. LinksAreCloud'
    BY <1>1, <1>3, SourcesOf, LinksAreCloudKept DEF Inv
<1>8. GeotagsAreCloud'
    BY <1>1, <1>3, SourcesOf, GeotagsAreCloudKept DEF Inv
<1>9. MadeOfCloud'
    <2>1. ASSUME "undirected" \in fresh'
          PROVE  \E u \in undirected' : u.links = cloud'.links
        <3>1. "links" \in fresh
            BY <1>3, <2>1, SourcesOf
        <3>2. links.rows = cloud.links
            BY <3>1 DEF Inv, LinksAreCloud
        <3>3. undirected' = {[rows |-> CREATE_UNDIRECTED_TABLE(links.rows, geotags.rows),
                              links |-> links.rows]}
            BY <1>1, <1>3, <2>1
        <3>4. QED
            BY <1>3, <3>2, <3>3
    <2>2. "s2cells" \in fresh' =>
              \E s \in s2cells' : s.links = cloud'.links /\ s.points = cloud'.geotags
        BY <1>1, <1>3 DEF Inv, MadeOfCloud
    <2>3. QED
        BY <2>1, <2>2 DEF MadeOfCloud
<1>10. QED
    BY <1>3, <1>4, <1>6, <1>7, <1>8, <1>9, NextTyped DEF Inv

-----------------------------------------------------------------------------
(* Steps that change no table: start, fail, break_off, upload.             *)

(* A run that begins makes what depends on it outdated; one that fails is  *)
(* failing; neither touches a table.                                       *)
LEMMA KeptInv ==
    ASSUME Inv, UNCHANGED <<tables, cloud>>, StepsTyped', FreshSources',
           fresh' \subseteq fresh,
           \A s \in Scripts, k \in {2, 3} : step'[s] = k /\ s \notin failing' =>
               step[s] = k /\ s \notin failing
    PROVE  Inv'
<1>1. UNCHANGED <<cloud, links, geotags, s2cells, undirected>>
    BY DEF tables
<1>2. SourcesTyped'
    BY <1>1, TypeParts DEF Inv, SourcesTyped
<1>3. Made'
    BY <1>1, MadeKept DEF Inv
<1>4. "links" \in Scripts /\ "geotags" \in Scripts
    BY DEF Scripts
<1>5. LinksAreCloud'
    BY <1>1, <1>4, LinksAreCloudKept DEF Inv
<1>6. GeotagsAreCloud'
    BY <1>1, <1>4, GeotagsAreCloudKept DEF Inv
<1>7. MadeOfCloud'
    BY <1>1, MadeOfCloudKept DEF Inv
<1>8. QED
    BY <1>2, <1>3, <1>5, <1>6, <1>7, NextTyped DEF Inv

LEMMA SourcesHaveNone ==
    \A t \in Scripts : \A u \in Sources[t] : u \in Scripts /\ Sources[u] = {}
BY DEF Sources, Scripts

(* Taking away all that is outdated leaves no table without its sources.   *)
LEMMA OutdatedTaken ==
    ASSUME FreshSources, NEW s \in Scripts, fresh \subseteq Scripts,
           NEW t \in fresh \ Outdated(s)
    PROVE  Sources[t] \subseteq fresh \ Outdated(s)
<1>1. s \notin Sources[t] /\ Sources[t] \subseteq fresh
    BY DEF FreshSources, Outdated
<1>2. \A u \in Sources[t] : Sources[u] = {}
    BY SourcesHaveNone
<1>3. QED
    BY <1>1, <1>2 DEF Outdated

LEMMA StartInv == ASSUME Inv, NEW s \in Scripts, start(s) PROVE Inv'
<1>1. StepsTyped /\ FreshSources
    BY TypeParts DEF Inv
<1>2. /\ step[s] = 0 /\ step' = [step EXCEPT ![s] = 1]
      /\ failing' = failing \ {s}
      /\ fresh' = fresh \ Outdated(s)
      /\ UNCHANGED <<cloud, tables>>
    BY DEF start
<1>3. step'[s] = 1 /\ \A t \in Scripts \ {s} : step'[t] = step[t]
    BY <1>1, <1>2 DEF StepsTyped
<1>4. StepsTyped'
    <2>1. \A t \in Scripts : step'[t] <= Statements[t]
        BY <1>1, <1>3 DEF StepsTyped, Statements
    <2>2. step' \in [Scripts -> 0..3]
        BY <1>1, <1>2 DEF StepsTyped
    <2>3. QED
        BY <1>1, <1>2, <2>1, <2>2 DEF StepsTyped
<1>5. FreshSources'
    <2>1. s \notin fresh' /\ \A t \in fresh' : s \notin Sources[t]
        BY <1>1, <1>2 DEF Outdated, StepsTyped
    <2>2. \A t \in Scripts : step'[t] > 0 => t \notin fresh'
        BY <1>1, <1>2, <1>3, <2>1 DEF FreshSources
    <2>3. \A t \in fresh' : Sources[t] \subseteq fresh'
        BY <1>1, <1>2, OutdatedTaken DEF StepsTyped
    <2>4. QED
        BY <2>2, <2>3 DEF FreshSources
<1>6. \A t \in Scripts, k \in {2, 3} : step'[t] = k /\ t \notin failing' =>
          step[t] = k /\ t \notin failing
    BY <1>2, <1>3
<1>7. QED
    BY <1>2, <1>4, <1>5, <1>6, KeptInv

(* A statement that fails and a run that is broken off. *)
LEMMA FailInv == ASSUME Inv, NEW s \in Scripts, fail(s) \/ break_off(s) PROVE Inv'
<1>1. StepsTyped /\ FreshSources
    BY TypeParts DEF Inv
<1>2. Statements[s] \in {2, 3} /\ step[s] \in 0..3 /\ step[s] <= Statements[s]
    BY <1>1 DEF Statements, StepsTyped
<1>3. PICK k \in 0..3 : k <= Statements[s] /\ step' = [step EXCEPT ![s] = k]
    <2>1. CASE break_off(s)
        BY <1>2, <2>1 DEF break_off
    <2>2. CASE fail(s)
        <3>1. CASE s \in {"s2cells", "undirected"} \/ step[s] = Statements[s]
            <4>1. step' = [step EXCEPT ![s] = 0]
                BY <1>1, <2>2, <3>1 DEF fail, StepsTyped
            <4>2. QED
                BY <1>2, <4>1
        <3>2. CASE ~(s \in {"s2cells", "undirected"} \/ step[s] = Statements[s])
            <4>1. step' = [step EXCEPT ![s] = step[s] + 1]
                BY <1>1, <2>2, <3>2 DEF fail, StepsTyped
            <4>2. step[s] + 1 \in 0..3 /\ step[s] + 1 <= Statements[s]
                BY <1>2, <3>2
            <4>3. QED
                BY <4>1, <4>2
        <3>3. QED
            BY <3>1, <3>2
    <2>3. QED
        BY <2>1, <2>2
<1>4. /\ step[s] > 0 /\ failing' = failing \cup {s}
      /\ UNCHANGED <<cloud, tables, fresh>>
    BY DEF fail, break_off
<1>5. step'[s] = k /\ \A t \in Scripts \ {s} : step'[t] = step[t]
    BY <1>1, <1>3 DEF StepsTyped
<1>6. StepsTyped'
    <2>1. \A t \in Scripts : step'[t] <= Statements[t]
        BY <1>1, <1>3, <1>5 DEF StepsTyped
    <2>2. step' \in [Scripts -> 0..3]
        BY <1>1, <1>3 DEF StepsTyped
    <2>3. QED
        BY <1>1, <1>4, <2>1, <2>2 DEF StepsTyped
<1>7. FreshSources'
    <2>1. s \notin fresh /\ fresh' = fresh
        BY <1>1, <1>4 DEF FreshSources
    <2>2. QED
        BY <1>1, <1>5, <2>1 DEF FreshSources
<1>8. \A t \in Scripts, i \in {2, 3} : step'[t] = i /\ t \notin failing' =>
          step[t] = i /\ t \notin failing
    BY <1>4, <1>5
<1>9. QED
    BY <1>4, <1>6, <1>7, <1>8, KeptInv

(* Other exports: what they change is outdated. *)
LEMMA UploadInv == Inv /\ upload => Inv'
<1> SUFFICES ASSUME Inv, upload PROVE Inv'
    OBVIOUS
<1> DEFINE changed(c) == {t \in DOMAIN c : c[t] # cloud[t]}
<1>1. PICK c \in Unstable :
          /\ cloud' = c
          /\ fresh' = fresh \ UNION {Outdated(s) : s \in changed(c)}
          /\ step["links"] = 0 /\ step["geotags"] = 0
          /\ UNCHANGED <<tables, step, failing>>
    BY DEF upload
<1>2. StepsTyped /\ FreshSources /\ SourcesTyped
    BY TypeParts DEF Inv
<1>3. c \in Exports /\ DOMAIN c = {"links", "geotags"}
    BY UnstableAssumption DEF Exports
<1>4. changed(c) \subseteq {"links", "geotags"} /\ changed(c) \subseteq Scripts
    BY <1>3 DEF Scripts
<1>5. \A t \in fresh' : t \in fresh /\ \A s \in changed(c) : t \notin Outdated(s)
    BY <1>1
<1>6. UNCHANGED <<links, geotags, s2cells, undirected, step, failing>>
    BY <1>1 DEF tables
<1>7. StepsTyped'
    BY <1>2, <1>5, <1>6 DEF StepsTyped
<1>8. SourcesTyped'
    BY <1>1, <1>2, <1>3, <1>6 DEF SourcesTyped
<1>9. FreshSources'
    <2>1. \A s \in Scripts : step'[s] > 0 => s \notin fresh'
        BY <1>2, <1>5, <1>6 DEF FreshSources
    <2>2. ASSUME NEW t \in fresh', NEW u \in Sources[t]
          PROVE  u \in fresh'
        <3>1. t \in fresh /\ u \in fresh
            BY <1>2, <1>5, <2>2 DEF FreshSources
        <3>2. \A s \in changed(c) : u \notin Outdated(s)
            BY <1>2, <1>4, <1>5, <2>2, <3>1, OutdatedTaken DEF StepsTyped
        <3>3. QED
            BY <1>1, <3>1, <3>2
    <2>3. QED
        BY <2>1, <2>2 DEF FreshSources
<1>10. ASSUME NEW t \in fresh'
       PROVE  /\ t \in {"links", "s2cells", "undirected"} => cloud'.links = cloud.links
              /\ t \in {"geotags", "s2cells", "undirected"} => cloud'.geotags = cloud.geotags
    <2>1. t \in {"links", "s2cells", "undirected"} => t \in Outdated("links")
        BY SourcesOf DEF Outdated
    <2>2. t \in {"geotags", "s2cells", "undirected"} => t \in Outdated("geotags")
        BY SourcesOf DEF Outdated
    <2>3. /\ t \in Outdated("links") => "links" \notin changed(c)
          /\ t \in Outdated("geotags") => "geotags" \notin changed(c)
        BY <1>5, <1>10
    <2>4. /\ "links" \notin changed(c) => c["links"] = cloud["links"]
          /\ "geotags" \notin changed(c) => c["geotags"] = cloud["geotags"]
        BY <1>3
    <2>5. QED
        BY <1>1, <2>1, <2>2, <2>3, <2>4
<1> HIDE DEF changed
<1>11. Made'
    BY <1>6, MadeKept DEF Inv
<1>12. LinksAreCloud'
    BY <1>1, <1>5, <1>6, <1>10, LinksAreCloudKept DEF Inv
<1>13. GeotagsAreCloud'
    BY <1>1, <1>5, <1>6, <1>10, GeotagsAreCloudKept DEF Inv
<1>14. MadeOfCloud'
    BY <1>1, <1>5, <1>6, <1>10, MadeOfCloudKept DEF Inv
<1>15. QED
    BY <1>7, <1>8, <1>9, <1>11, <1>12, <1>13, <1>14, NextTyped DEF Inv

LEMMA StutterInv == Inv /\ UNCHANGED vars => Inv'
<1> SUFFICES ASSUME Inv, UNCHANGED vars PROVE Inv'
    OBVIOUS
<1>1. UNCHANGED <<tables, cloud, step, failing, fresh>>
    BY DEF vars
<1>2. StepsTyped' /\ FreshSources'
    BY <1>1, TypeParts DEF Inv, StepsTyped, FreshSources
<1>3. QED
    BY <1>1, <1>2, KeptInv

LEMMA NextInv == Inv /\ [Next]_vars => Inv'
<1> SUFFICES ASSUME Inv, [Next]_vars PROVE Inv'
    OBVIOUS
<1>1. CASE upload
    BY <1>1, UploadInv
<1>2. ASSUME NEW s \in Scripts, start(s) \/ fail(s) \/ break_off(s) PROVE Inv'
    BY <1>2, StartInv, FailInv
<1>3. CASE load_links \/ rename_id
    BY <1>3, LoadLinksInv
<1>4. CASE load_geotags \/ add_geog \/ fill_geog
    BY <1>4, LoadGeotagsInv
<1>5. CASE drop_s2cells \/ create_s2cells
    BY <1>5, S2Inv
<1>6. CASE drop_undirected \/ create_undirected
    BY <1>6, UndirectedInv
<1>7. CASE UNCHANGED vars
    BY <1>7, StutterInv
<1>8. QED
    BY <1>1, <1>2, <1>3, <1>4, <1>5, <1>6, <1>7 DEF Next

LEMMA Invariance == Spec => []Inv
<1>1. QED
    BY InitInv, NextInv, PTL DEF Spec

-----------------------------------------------------------------------------
(* The theorems.                                                           *)

(* The tables, the runs of the scripts and what is fresh keep their types, *)
(* the rows of pages.s2cells and undirected_links included.                *)
THEOREM WarehouseTyped == Spec => []TypeOK
<1>1. Inv => TypeOK
    BY DEF Inv
<1>2. QED
    BY <1>1, Invariance, PTL

LEMMA OneAnswer ==
    ASSUME Inv, NEW s \in s2cells, NEW cell \in Cells, links.key = "page_id"
    PROVE  query_nearby(cell) = NearbyIn(s.links, s.points, cell) \cap Ids(links.rows)
<1>1. s2cells = {s} /\ s.rows = CREATE_S2_TABLE(s.links, s.points)
    BY DEF Inv, Made
<1>2. query_nearby(cell) = QUERY_NEARBY(s.rows, links.rows, cell)
    BY <1>1 DEF query_nearby
<1>3. Table(s.links) /\ Pointed(s.points)
    BY DEF Inv, Made
<1>4. QED
    BY <1>1, <1>2, <1>3, QueryNearbyIs

(* A reader gets an error or, exactly, what belonged to the cell in the    *)
(* tables pages.s2cells was made from and is still in pages.links: the     *)
(* joins, the groups and the HAVING of create_s2_table and of the query    *)
(* mean that, for any tables and at any point of any runs and failures.    *)
THEOREM NearbyAlwaysExact == Spec => []NearbyExact
<1>1. Inv => NearbyExact
    <2> SUFFICES ASSUME Inv, NEW s \in s2cells, NEW cell \in Cells
                 PROVE  query_nearby(cell) \in
                            {ERROR, NearbyIn(s.links, s.points, cell) \cap Ids(links.rows)}
        BY DEF NearbyExact
    <2>1. CASE links.key = "page_id"
        BY <2>1, OneAnswer
    <2>2. CASE links.key # "page_id"
        BY <2>2 DEF query_nearby
    <2>3. QED
        BY <2>1, <2>2
<1>2. QED
    BY <1>1, Invariance, PTL

LEMMA LinksTable == Inv => Table(links.rows) /\ links.rows \in LinkExports \cup {{}}
<1> SUFFICES ASSUME Inv PROVE Table(links.rows) /\ links.rows \in LinkExports \cup {{}}
    OBVIOUS
<1>1. links.rows \in LinkExports \cup {{}}
    BY TypeParts DEF Inv, SourcesTyped
<1>2. QED
    BY <1>1, ExportTables

(* Once the scripts have run whole, one after the other, every answer is   *)
(* that of the present exports, whatever runs failed before.               *)
THEOREM CleanRunsRepair == Spec => []CleanRunRepairs
<1>1. Inv => CleanRunRepairs
    <2> SUFFICES ASSUME Inv PROVE CleanRunRepairs
        OBVIOUS
    <2>1. ASSUME "links" \in fresh
          PROVE  links.rows = cloud.links /\ links.key = "page_id"
        <3>1. links = [rows |-> cloud.links, key |-> "page_id"]
            BY <2>1 DEF Inv, LinksAreCloud
        <3>2. QED
            BY <3>1
    <2>2. ASSUME "links" \in fresh, NEW n \in PageIds
          PROVE  query_mutual(n) # ERROR
        <3>1. query_mutual(n) = QUERY_MUTUAL_LINKS(links.rows, n)
            BY <2>1, <2>2 DEF query_mutual
        <3>2. QUERY_MUTUAL_LINKS(links.rows, n) \subseteq Ids(links.rows)
            BY DEF QUERY_MUTUAL_LINKS, Ids
        <3>3. Ids(links.rows) \subseteq PageIds
            BY LinksTable, RowOf
        <3>4. QED
            BY <3>1, <3>2, <3>3, NullAssumption DEF ERROR
    <2>3. ASSUME "s2cells" \in fresh, NEW cell \in Cells
          PROVE  query_nearby(cell) = NearbyIn(cloud.links, cloud.geotags, cell)
        <3>1. "links" \in fresh
            BY <2>3, SourcesOf DEF Inv, FreshSources
        <3>2. PICK s \in s2cells : s.links = cloud.links /\ s.points = cloud.geotags
            BY <2>3 DEF Inv, MadeOfCloud
        <3>3. query_nearby(cell) =
                  NearbyIn(cloud.links, cloud.geotags, cell) \cap Ids(cloud.links)
            BY <2>1, <3>1, <3>2, OneAnswer
        <3>4. NearbyIn(cloud.links, cloud.geotags, cell) \subseteq Ids(cloud.links)
            BY DEF NearbyIn, PlacesIn
        <3>5. QED
            BY <3>3, <3>4
    <2>4. "undirected" \in fresh => \E u \in undirected : u.links = cloud.links
        BY DEF Inv, MadeOfCloud
    <2>5. QED
        BY <2>2, <2>3, <2>4 DEF CleanRunRepairs
<1>2. QED
    BY <1>1, Invariance, PTL

(* In an undirected table a page is a neighbour of what it links to and of *)
(* what links to it.                                                       *)
LEMMA NeighborsBothWays ==
    ASSUME NEW L, NEW G, NEW l \in L, NEW q \in l.out_links \cup l.in_links
    PROVE  q \in QUERY_ALL_NEIGHBORS(CREATE_UNDIRECTED_TABLE(L, G), {l.page_id})
<1> DEFINE geo == {g[1] : g \in G}
           linksOf(p) == {u[2] : u \in {v \in unioned(L) : v[1] = p}}
           row(p) == [page_id |-> p, is_geo |-> p \in geo, links |-> linksOf(p),
                      is_neighboring_geo |-> linksOf(p) \cap geo # {}]
<1>1. <<l.page_id, q>> \in unioned(L)
    BY DEF unioned
<1>2. q \in linksOf(l.page_id)
    BY <1>1
<1>3. CREATE_UNDIRECTED_TABLE(L, G) = {row(p) : p \in {u[1] : u \in unioned(L)}}
    BY DEF CREATE_UNDIRECTED_TABLE
<1>4. row(l.page_id) \in CREATE_UNDIRECTED_TABLE(L, G)
    <2>1. l.page_id \in {u[1] : u \in unioned(L)}
        <3>1. <<l.page_id, q>>[1] = l.page_id
            OBVIOUS
        <3>2. QED
            BY <1>1, <3>1, Zenon
    <2>2. QED
        BY <1>3, <2>1, Zenon
<1>5. row(l.page_id).page_id = l.page_id /\ row(l.page_id).links = linksOf(l.page_id)
    OBVIOUS
<1>6. QED
    BY <1>2, <1>4, <1>5 DEF QUERY_ALL_NEIGHBORS

(* Whatever query_bridges finds between two pages is a neighbour of both   *)
(* in an undirected_links made of the same links, whenever that was, if    *)
(* those links are converse.                                               *)
THEOREM BridgesAlwaysNeighbors == Spec => []BridgesAreNeighbors
<1>1. Inv => BridgesAreNeighbors
    <2> SUFFICES ASSUME Inv, NEW u \in undirected, NEW p \in Ids(links.rows),
                        NEW q \in Ids(links.rows), u.links = links.rows,
                        Converse(links.rows), query_bridges({p}, {q}) # ERROR,
                        NEW b \in query_bridges({p}, {q})
                 PROVE  /\ b \in QUERY_ALL_NEIGHBORS(u.rows, {p})
                        /\ b \in QUERY_ALL_NEIGHBORS(u.rows, {q})
        BY DEF BridgesAreNeighbors
    <2>1. b \in QUERY_BRIDGES(links.rows, {p}, {q})
        BY DEF query_bridges
    <2>2. PICK l \in links.rows : l.page_id = b /\ p \in l.out_links /\ q \in l.out_links
        BY <2>1 DEF QUERY_BRIDGES
    <2>3. PICK G : u.rows = CREATE_UNDIRECTED_TABLE(links.rows, G)
        BY DEF Inv, Made
    <2>4. Table(links.rows) /\ links.rows \in LinkExports \cup {{}}
        BY LinksTable
    <2>5. ASSUME NEW n \in {p, q}
          PROVE  b \in QUERY_ALL_NEIGHBORS(u.rows, {n})
        <3>1. PICK r \in links.rows : r.page_id = n
            BY DEF Ids
        <3>2. b \in r.in_links
            BY <2>2, <3>1 DEF Converse
        <3>3. QED
            BY <2>3, <3>1, <3>2, NeighborsBothWays
    <2>6. QED
        BY <2>5
<1>2. QED
    BY <1>1, Invariance, PTL

(* What query_mutual answers of one page it answers of the other, and the  *)
(* page's row in pages.links holds a link each way, its in_links if the    *)
(* links are converse.                                                     *)
THEOREM MutualAlwaysBothWays == Spec => []MutualBothWays
<1>1. Inv => MutualBothWays
    <2> SUFFICES ASSUME Inv, NEW p \in PageIds, NEW q \in PageIds,
                        q \in query_mutual(p), p # q
                 PROVE  /\ p \in query_mutual(q)
                        /\ q \in Row(links.rows, p).out_links
                        /\ Converse(links.rows) => q \in Row(links.rows, p).in_links
        BY DEF MutualBothWays
    <2>1. links.key = "page_id" /\ q \in QUERY_MUTUAL_LINKS(links.rows, p)
        BY NullAssumption DEF query_mutual, ERROR
    <2>2. PICK l1 \in links.rows, l0 \in links.rows :
              /\ l1.page_id = q /\ p \in l1.out_links
              /\ l0.page_id = p /\ q \in l0.out_links
        BY <2>1 DEF QUERY_MUTUAL_LINKS
    <2>3. Table(links.rows) /\ links.rows \in LinkExports \cup {{}}
        BY LinksTable
    <2>4. p \in query_mutual(q)
        BY <2>1, <2>2 DEF query_mutual, QUERY_MUTUAL_LINKS
    <2>5. Converse(links.rows) => q \in l0.in_links
        BY <2>2 DEF Converse
    <2>6. Row(links.rows, p) = l0
        BY <2>2, <2>3, RowIs
    <2>7. QED
        BY <2>2, <2>4, <2>5, <2>6
<1>2. QED
    BY <1>1, Invariance, PTL
==============================================================================
