------------------------------ MODULE PageLinks ------------------------------
(***************************************************************************)
(* What the link database hands over to the queries: the table page_links, *)
(* which LinkTables makes and Warehouse loads as pages.links.              *)
(***************************************************************************)

(* A page has at most one row. *)
OneRow(L) == \A r, s \in L : r.page_id = s.page_id => r = s

(* A link is in the out_links of the one page and the in_links of the other. *)
Converse(L) == \A r, s \in L : s.page_id \in r.out_links <=> r.page_id \in s.in_links
==============================================================================
