------------------------------ MODULE LinkTables -----------------------------
(***************************************************************************)
(* The link database: 1_parse-script.js reads a dump into the collection   *)
(* pages, 2_mongo-processing.js derives page_links from it in a chain of   *)
(* collections, each dropped and made anew by one aggregation.             *)
(*                                                                         *)
(* The script is piped into mongosh, which goes on after a statement that  *)
(* failed; the run may also end anywhere and be started again, on the same *)
(* or on another dump.  Reading a collection that is not there gives       *)
(* nothing, so a dropped collection is an empty one.                       *)
(***************************************************************************)
EXTENDS Naturals, Sequences, PageLinks

CONSTANTS
    PageIds,
    Titles,                  \* page titles and the texts of links
    NoRedirect,              \* redirectTo() of a page that is none
    Capitalized,             \* $toUpper
    SectionNames,
    badSectionNames,
    Dumps,                   \* what a dump may hold: page ids to documents
    MaxFailedDrops           \* bound on the drop() that fail, over all runs

Documents ==
    [title : Titles, redirect : Titles \cup {NoRedirect},
     sections : SUBSET (SectionNames \X Titles), infoboxes : SUBSET Titles]

ASSUME CapitalizedAssumption == DOMAIN Capitalized = Titles
ASSUME NoRedirectAssumption == NoRedirect \notin Titles
ASSUME SectionsAssumption == badSectionNames \subseteq SectionNames
ASSUME DumpsAssumption ==
    Dumps # {} /\ \A d \in Dumps : DOMAIN d \subseteq PageIds /\ d \in [DOMAIN d -> Documents]
ASSUME FailedDropsAssumption == MaxFailedDrops \in Nat

VARIABLES
    dump,                    \* the dump that was parsed last
    db,                      \* the rows of every collection
    pc,                      \* the statement of the script that is next
    failed,                  \* the statements of this run that failed
    failedDrops              \* how many drop() have failed in all runs

vars == <<dump, db, pc, failed, failedDrops>>

(* The links of a document: where it redirects to, those of its sections   *)
(* but the bad ones, and those of its infoboxes.                           *)
parseLinks(doc) ==
    ({doc.redirect} \ {NoRedirect, doc.title})
    \cup {s[2] : s \in {t \in doc.sections : t[1] \notin badSectionNames}}
    \cup doc.infoboxes

pages ==
    {[page_id |-> p, title |-> dump[p].title, outlinks |-> parseLinks(dump[p])] :
        p \in DOMAIN dump}

-----------------------------------------------------------------------------
(* The collections, each from those it is aggregated from.                 *)

(* Faulty variant: the title as it is spelt. *)
title_pageid_spelt(ps) ==
    {[page_id |-> p.page_id, title |-> p.title, titleCapitalized |-> p.title] : p \in ps}

title_pageid(ps) ==
    {[page_id |-> p.page_id, title |-> p.title,
      titleCapitalized |-> Capitalized[p.title]] : p \in ps}

links0(ps) ==
    UNION {{[from_page_id |-> p.page_id, outlinkCapitalized |-> Capitalized[l]] :
                l \in p.outlinks} : p \in ps}

tmp_title_pageid(tp) ==
    {[id |-> c, page_id |-> {t.page_id : t \in {u \in tp : u.titleCapitalized = c}}] :
        c \in {t.titleCapitalized : t \in tp}}

(* One row for a pair of pages, however often and however spelt. *)
links(l0, tmp) ==
    UNION {UNION {{<<l.from_page_id, p>> : p \in t.page_id} :
                     t \in {u \in tmp : u.id = l.outlinkCapitalized}} : l \in l0}

out_links(ls) ==
    {[id |-> p, out_links |-> {l[2] : l \in {k \in ls : k[1] = p}}] : p \in {l[1] : l \in ls}}

(* Faulty variant: grouped by the wrong end. *)
in_links_from(ls) ==
    {[id |-> p, in_links |-> {l[2] : l \in {k \in ls : k[1] = p}}] : p \in {l[1] : l \in ls}}

in_links(ls) ==
    {[id |-> p, in_links |-> {l[1] : l \in {k \in ls : k[2] = p}}] : p \in {l[2] : l \in ls}}

(* Every page, also one without a link in some direction. *)
page_links(tp, ol, il) ==
    {[page_id |-> t.page_id, title |-> t.title,
      out_links |-> UNION {o.out_links : o \in {x \in ol : x.id = t.page_id}},
      in_links |-> UNION {i.in_links : i \in {x \in il : x.id = t.page_id}}] : t \in tp}

Rows(c) ==
    CASE c = "title_pageid"     -> title_pageid(pages)
      [] c = "links0"           -> links0(pages)
      [] c = "tmp_title_pageid" -> tmp_title_pageid(db["title_pageid"])
      [] c = "links"            -> links(db["links0"], db["tmp_title_pageid"])
      [] c = "out_links"        -> out_links(db["links"])
      [] c = "in_links"         -> in_links(db["links"])
      [] c = "page_links"       -> page_links(db["title_pageid"], db["out_links"], db["in_links"])

Collections == {"title_pageid", "links0", "tmp_title_pageid", "links",
                "out_links", "in_links", "page_links"}

-----------------------------------------------------------------------------
(* Faulty variant: in_links before the links it groups. *)
ScriptInLinksEarly == <<
    <<"drop", "title_pageid">>,     <<"out", "title_pageid">>,
    <<"drop", "links0">>,           <<"out", "links0">>,
    <<"drop", "tmp_title_pageid">>, <<"out", "tmp_title_pageid">>,
    <<"drop", "in_links">>,         <<"out", "in_links">>,
    <<"drop", "links">>,            <<"out", "links">>,
    <<"drop", "links0">>,           <<"drop", "tmp_title_pageid">>,
    <<"drop", "out_links">>,        <<"out", "out_links">>,
    <<"drop", "page_links">>,       <<"out", "page_links">> >>

(* Faulty variant: without out_links.drop(). *)
ScriptOutLinksKept == <<
    <<"drop", "title_pageid">>,     <<"out", "title_pageid">>,
    <<"drop", "links0">>,           <<"out", "links0">>,
    <<"drop", "tmp_title_pageid">>, <<"out", "tmp_title_pageid">>,
    <<"drop", "links">>,            <<"out", "links">>,
    <<"drop", "links0">>,           <<"drop", "tmp_title_pageid">>,
    <<"out", "out_links">>,
    <<"drop", "in_links">>,         <<"out", "in_links">>,
    <<"drop", "page_links">>,       <<"out", "page_links">> >>

(* The statements of 2_mongo-processing.js that change a collection. *)
Script == <<
    <<"drop", "title_pageid">>,     <<"out", "title_pageid">>,
    <<"drop", "links0">>,           <<"out", "links0">>,
    <<"drop", "tmp_title_pageid">>, <<"out", "tmp_title_pageid">>,
    <<"drop", "links">>,            <<"out", "links">>,
    <<"drop", "links0">>,           <<"drop", "tmp_title_pageid">>,
    <<"drop", "out_links">>,        <<"out", "out_links">>,
    <<"drop", "in_links">>,         <<"out", "in_links">>,
    <<"drop", "page_links">>,       <<"out", "page_links">> >>

Done == pc = Len(Script) + 1

Init ==
    /\ dump \in Dumps
    /\ db = [c \in Collections |-> {}]
    /\ pc = 1
    /\ failed = {}
    /\ failedDrops = 0

(* Another dump is parsed, before a run or after one. *)
parse(d) ==
    /\ pc = 1 \/ Done
    /\ dump' = d
    /\ pc' = 1
    /\ failed' = {}
    /\ UNCHANGED <<db, failedDrops>>

drop ==
    /\ ~Done /\ Script[pc][1] = "drop"
    /\ db' = [db EXCEPT ![Script[pc][2]] = {}]
    /\ pc' = pc + 1
    /\ UNCHANGED <<dump, failed, failedDrops>>

(* $out replaces the collection when the aggregation is complete. *)
aggregate ==
    /\ ~Done /\ Script[pc][1] = "out"
    /\ db' = [db EXCEPT ![Script[pc][2]] = Rows(Script[pc][2])]
    /\ pc' = pc + 1
    /\ UNCHANGED <<dump, failed, failedDrops>>

(* mongosh reads on after a statement that failed: the collection is what *)
(* it was.                                                                 *)
drop_fails ==
    /\ ~Done /\ Script[pc][1] = "drop"
    /\ failedDrops < MaxFailedDrops
    /\ failed' = failed \cup {Script[pc]}
    /\ failedDrops' = failedDrops + 1
    /\ pc' = pc + 1
    /\ UNCHANGED <<dump, db>>

aggregate_fails ==
    /\ ~Done /\ Script[pc][1] = "out"
    /\ failed' = failed \cup {Script[pc]}
    /\ pc' = pc + 1
    /\ UNCHANGED <<dump, db, failedDrops>>

(* The run ends here, or is complete; it is started again from the top. *)
rerun ==
    /\ pc > 1
    /\ pc' = 1
    /\ failed' = {}
    /\ UNCHANGED <<dump, db, failedDrops>>

Next ==
    \/ \E d \in Dumps : parse(d)
    \/ drop \/ aggregate \/ drop_fails \/ aggregate_fails
    \/ rerun

Spec == Init /\ [][Next]_vars

-----------------------------------------------------------------------------
(* The reference: which pages a dump links, read off its documents.        *)

Mentions(doc, l) ==
    \/ l \in doc.infoboxes
    \/ doc.redirect = l /\ l # doc.title
    \/ \E s \in SectionNames \ badSectionNames : <<s, l>> \in doc.sections

LinkedIn(d) ==
    {e \in (DOMAIN d) \X (DOMAIN d) :
        \E l \in Titles : Mentions(d[e[1]], l) /\ Capitalized[l] = Capitalized[d[e[2]].title]}

PageLinksOf(d) ==
    {[page_id |-> p, title |-> d[p].title,
      out_links |-> {q \in DOMAIN d : <<p, q>> \in LinkedIn(d)},
      in_links |-> {q \in DOMAIN d : <<q, p>> \in LinkedIn(d)}] : p \in DOMAIN d}

(* Rows that lack pages or links, and have no others. *)
Lacking(rows, full) ==
    \A r \in rows : \E f \in full :
        /\ r.page_id = f.page_id /\ r.title = f.title
        /\ r.out_links \subseteq f.out_links /\ r.in_links \subseteq f.in_links

-----------------------------------------------------------------------------
(* Every collection has rows of its shape. *)
TypeOK ==
    /\ dump \in Dumps
    /\ DOMAIN db = Collections
    /\ db["title_pageid"] \subseteq [page_id : PageIds, title : Titles,
                                     titleCapitalized : {Capitalized[t] : t \in Titles}]
    /\ db["links0"] \subseteq [from_page_id : PageIds,
                               outlinkCapitalized : {Capitalized[t] : t \in Titles}]
    /\ db["tmp_title_pageid"] \subseteq [id : {Capitalized[t] : t \in Titles},
                                         page_id : SUBSET PageIds]
    /\ db["links"] \subseteq PageIds \X PageIds
    /\ db["out_links"] \subseteq [id : PageIds, out_links : SUBSET PageIds]
    /\ db["in_links"] \subseteq [id : PageIds, in_links : SUBSET PageIds]
    /\ db["page_links"] \subseteq [page_id : PageIds, title : Titles,
                                   out_links : SUBSET PageIds, in_links : SUBSET PageIds]
    /\ pc \in 1..(Len(Script) + 1)
    /\ failed \subseteq {"drop", "out"} \X Collections
    /\ failedDrops \in 0..MaxFailedDrops

(* The collections that hold what an earlier run left, as this run could   *)
(* neither drop nor make them.                                             *)
Kept == {c \in Collections : {<<"drop", c>>, <<"out", c>>} \subseteq failed}

(* A run of 2_mongo-processing.js in which no aggregation failed leaves     *)
(* exactly the links of the dump, whatever earlier runs on other dumps left*)
(* behind, wherever they ended, and whichever drop() failed.               *)
RerunExact ==
    Done /\ (\A c \in Collections : <<"out", c>> \notin failed) =>
        db["page_links"] = PageLinksOf(dump)

(* What is exported has one row for a page, whenever it is taken and        *)
(* whatever failed.  The finished table has converse in_links and          *)
(* out_links, as the queries on pages.links take for granted, unless one   *)
(* of the two steps that make them failed, or it is kept from an earlier   *)
(* run; a failure of any other statement does no harm to it.               *)
LinksConverse ==
    /\ OneRow(db["page_links"])
    /\ Done /\ {<<"out", "out_links">>, <<"out", "in_links">>} \cap failed = {}
            /\ "page_links" \notin Kept
        => Converse(db["page_links"])

(* Whichever statements fail, page_links changes only to nothing or to rows *)
(* of the present dump that lack something, as long as no collection is    *)
(* kept: a link of an earlier dump, or one that no page has, gets in only  *)
(* if both the drop() and the aggregation of one collection fail in one run*)
(* (which then joins, say, titles of this dump with out_links of another). *)
MissingNotWrong ==
    [][db'["page_links"] # db["page_links"] /\ Kept = {} =>
          db'["page_links"] = {} \/ Lacking(db'["page_links"], PageLinksOf(dump))]_vars
==============================================================================
