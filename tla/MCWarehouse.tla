----------------------------- MODULE MCWarehouse -----------------------------
(* Warehouse for TLC.  Pages 1 to 3 may have points; 4 is a kind of place  *)
(* without one.                                                            *)
EXTENDS Warehouse

CONSTANTS a, b               \* cells

FourPages == 1..4

(* The rows of the pages P for the links E, with the page Odd something    *)
(* that is left out of the cells.                                          *)
RowsOf(P, E, Odd) ==
    {[page_id |-> p,
      out_links |-> {e[2] : e \in {f \in E : f[1] = p}},
      in_links |-> {e[1] : e \in {f \in E : f[2] = p}},
      page_typeroot |-> IF <<p, "Person">> \in Odd THEN "Person"
                        ELSE IF <<p, "untyped">> \in Odd THEN NULL ELSE "Place",
      page_type |-> IF p = 4 THEN "City" ELSE NULL,
      is_disambig |-> <<p, "disambig">> \in Odd,
      is_list |-> <<p, "list">> \in Odd] : p \in P}

Pool == {<<1, 4>>, <<4, 1>>, <<4, 2>>, <<3, 4>>, <<2, 3>>, <<3, 2>>}

ManyLinks ==
    {RowsOf(FourPages, E, {}) : E \in SUBSET Pool}
    \cup {RowsOf(FourPages, Pool, {<<p, k>>}) :
             p \in {3, 4}, k \in {"Person", "untyped", "disambig", "list"}}

ManyTags ==
    {{<<1, a>>, <<2, a>>}, {<<1, a>>, <<2, a>>, <<3, a>>, <<3, b>>},
     {<<1, a>>, <<4, b>>}, {<<1, a>>, <<2, b>>}}

(* Two exports: the second has lost a page. *)
TwoLinks ==
    {RowsOf(FourPages, {<<1, 4>>, <<4, 2>>, <<2, 3>>, <<3, 2>>}, {}),
     RowsOf({1, 3, 4}, {<<1, 4>>, <<4, 1>>, <<1, 3>>}, {})}

(* Exports after failures: in_links or the whole table were not made, or   *)
(* out_links are those of an earlier dump.                                 *)
AfterFailures ==
    {{}, {[r EXCEPT !.in_links = {}] : r \in RowsOf(FourPages, Pool, {})},
     {[r EXCEPT !.out_links = IF r.page_id = 1 THEN {2, 3, 4} ELSE {}] :
         r \in RowsOf(FourPages, Pool, {})}}

TwoTags == {{<<1, a>>, <<2, a>>}, {<<1, a>>, <<2, b>>}}
AllLinks == ManyLinks \cup TwoLinks \cup AfterFailures
AllTags == ManyTags \cup TwoTags

Changing == [links : TwoLinks, geotags : TwoTags]
==============================================================================
