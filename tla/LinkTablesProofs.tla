-------------------------- MODULE LinkTablesProofs ---------------------------
(***************************************************************************)
(* Theorems about LinkTables, for any dumps, failures and reruns: what a   *)
(* failed step costs, and what a run without one restores.                 *)
(***************************************************************************)
EXTENDS LinkTables, TLAPS

(* Where each collection is made, and where it is dropped. *)
LEMMA ScriptLength == Len(Script) = 16
BY DEF Script

LEMMA ScriptMakes ==
    ASSUME NEW n \in 1 .. 16, Script[n][1] = "out"
    PROVE  \/ n = 2  /\ Script[n][2] = "title_pageid"
           \/ n = 4  /\ Script[n][2] = "links0"
           \/ n = 6  /\ Script[n][2] = "tmp_title_pageid"
           \/ n = 8  /\ Script[n][2] = "links"
           \/ n = 12 /\ Script[n][2] = "out_links"
           \/ n = 14 /\ Script[n][2] = "in_links"
           \/ n = 16 /\ Script[n][2] = "page_links"
BY DEF Script

LEMMA ScriptDrops ==
    ASSUME NEW n \in 1 .. 16, Script[n][1] = "drop"
    PROVE  \/ n = 1 /\ Script[n][2] = "title_pageid"
           \/ n \in {3, 9} /\ Script[n][2] = "links0"
           \/ n \in {5, 10} /\ Script[n][2] = "tmp_title_pageid"
           \/ n = 7 /\ Script[n][2] = "links"
           \/ n = 11 /\ Script[n][2] = "out_links"
           \/ n = 13 /\ Script[n][2] = "in_links"
           \/ n = 15 /\ Script[n][2] = "page_links"
BY DEF Script

LEMMA ScriptStatement ==
    ASSUME NEW n \in 1 .. 16
    PROVE  Script[n] = <<Script[n][1], Script[n][2]>>
BY DEF Script

------------------------------------------------------------------------------
(* What each aggregation yields, row by row. *)

LEMMA DumpTyped ==
    ASSUME NEW d \in Dumps
    PROVE  DOMAIN d \subseteq PageIds /\ \A p \in DOMAIN d : d[p] \in Documents
BY DumpsAssumption

LEMMA CapitalizedIn == \A l \in Titles : Capitalized[l] \in {Capitalized[t] : t \in Titles}
OBVIOUS

(* The links of a document are the titles it mentions. *)
LEMMA ParseMentions ==
    ASSUME NEW doc \in Documents, NEW l
    PROVE  l \in parseLinks(doc) <=> l \in Titles /\ Mentions(doc, l)
<1>1. /\ doc.sections \subseteq SectionNames \X Titles /\ doc.infoboxes \subseteq Titles
      /\ doc.redirect \in Titles \cup {NoRedirect}
    BY DEF Documents
<1> DEFINE good == {t \in doc.sections : t[1] \notin badSectionNames}
<1>2. l \in {s[2] : s \in good}
         <=> l \in Titles /\ \E s \in SectionNames \ badSectionNames : <<s, l>> \in doc.sections
    <2>1. ASSUME NEW s \in good
          PROVE  /\ s[1] \in SectionNames \ badSectionNames /\ s[2] \in Titles
                 /\ <<s[1], s[2]>> \in doc.sections
        BY <1>1
    <2>2. ASSUME NEW s \in SectionNames \ badSectionNames, <<s, l>> \in doc.sections
          PROVE  <<s, l>> \in good /\ <<s, l>>[2] = l
        BY <2>2
    <2> HIDE DEF good
    <2>3. QED
        BY <2>1, <2>2
<1>3. QED
    BY <1>1, <1>2, NoRedirectAssumption DEF parseLinks, Mentions

TitleRow(p) == [page_id |-> p, title |-> dump[p].title,
                titleCapitalized |-> Capitalized[dump[p].title]]

PageRow(p) == [page_id |-> p, title |-> dump[p].title, outlinks |-> parseLinks(dump[p])]

LEMMA PagesRows ==
    /\ \A x : x \in pages <=> \E p \in DOMAIN dump : x = PageRow(p)
    /\ \A p : /\ PageRow(p).page_id = p /\ PageRow(p).title = dump[p].title
              /\ PageRow(p).outlinks = parseLinks(dump[p])
BY DEF pages, PageRow

LEMMA TitleRows == \A t : t \in title_pageid(pages) <=> \E p \in DOMAIN dump : t = TitleRow(p)
<1>1. \A p : TitleRow(p) = [page_id |-> PageRow(p).page_id, title |-> PageRow(p).title,
                            titleCapitalized |-> Capitalized[PageRow(p).title]]
    BY PagesRows DEF TitleRow
<1>2. \A t : t \in title_pageid(pages) <=>
         \E x \in pages : t = [page_id |-> x.page_id, title |-> x.title,
                               titleCapitalized |-> Capitalized[x.title]]
    BY DEF title_pageid
<1>3. QED
    BY <1>1, <1>2, PagesRows

LinkRow(p, l) == [from_page_id |-> p, outlinkCapitalized |-> Capitalized[l]]

LEMMA Links0Rows ==
    ASSUME dump \in Dumps
    PROVE  \A r : r \in links0(pages) <=>
                \E p \in DOMAIN dump, l \in Titles : Mentions(dump[p], l) /\ r = LinkRow(p, l)
<1>1. \A p \in DOMAIN dump : dump[p] \in Documents
    BY DumpTyped
<1>2. \A r : r \in links0(pages) <=>
         \E p \in DOMAIN dump : \E l \in parseLinks(dump[p]) : r = LinkRow(p, l)
    <2>1. \A r : r \in links0(pages) <=>
             \E x \in pages : \E l \in x.outlinks : r = LinkRow(x.page_id, l)
        BY DEF links0, LinkRow
    <2>2. QED
        BY <2>1, PagesRows
<1>3. QED
    BY <1>1, <1>2, ParseMentions

LEMMA TmpRows ==
    ASSUME NEW tp, NEW r
    PROVE  r \in tmp_title_pageid(tp) <=>
              \E t \in tp : r = [id |-> t.titleCapitalized,
                                 page_id |-> {u.page_id : u \in {v \in tp :
                                                v.titleCapitalized = t.titleCapitalized}}]
BY DEF tmp_title_pageid

LEMMA LinksRows ==
    ASSUME NEW l0, NEW tmp, NEW e
    PROVE  e \in links(l0, tmp) <=>
              \E l \in l0, t \in tmp : /\ t.id = l.outlinkCapitalized
                                       /\ \E p \in t.page_id : e = <<l.from_page_id, p>>
BY DEF links

(* The rows of tmp_title_pageid name no page with another title. *)
TitlesRight(tmp) ==
    \A r \in tmp : \A p \in r.page_id :
        p \in DOMAIN dump /\ Capitalized[dump[p].title] = r.id

LEMMA TmpRight ==
    ASSUME NEW tp, tp \subseteq title_pageid(pages)
    PROVE  TitlesRight(tmp_title_pageid(tp))
<1> SUFFICES ASSUME NEW r \in tmp_title_pageid(tp), NEW p \in r.page_id
             PROVE  p \in DOMAIN dump /\ Capitalized[dump[p].title] = r.id
    BY DEF TitlesRight
<1>1. PICK t \in tp : r = [id |-> t.titleCapitalized,
                           page_id |-> {u.page_id : u \in {v \in tp :
                                          v.titleCapitalized = t.titleCapitalized}}]
    BY TmpRows
<1>2. r.id = t.titleCapitalized
    BY <1>1
<1>3. PICK u \in tp : u.titleCapitalized = t.titleCapitalized /\ p = u.page_id
    BY <1>1
<1>4. PICK n \in DOMAIN dump : u = TitleRow(n)
    BY TitleRows
<1>5. u.page_id = n /\ u.titleCapitalized = Capitalized[dump[n].title]
    BY <1>4 DEF TitleRow
<1>6. QED
    BY <1>2, <1>3, <1>5

LEMMA LinksRight ==
    ASSUME dump \in Dumps, NEW l0, NEW tmp, l0 \subseteq links0(pages), TitlesRight(tmp)
    PROVE  links(l0, tmp) \subseteq LinkedIn(dump)
<1> SUFFICES ASSUME NEW e \in links(l0, tmp) PROVE e \in LinkedIn(dump)
    OBVIOUS
<1>1. PICK l \in l0, t \in tmp : /\ t.id = l.outlinkCapitalized
                                 /\ \E p \in t.page_id : e = <<l.from_page_id, p>>
    BY LinksRows
<1>2. PICK q \in t.page_id : e = <<l.from_page_id, q>>
    BY <1>1
<1>3. PICK p \in DOMAIN dump, n \in Titles : Mentions(dump[p], n) /\ l = LinkRow(p, n)
    BY Links0Rows
<1>4. l.from_page_id = p /\ l.outlinkCapitalized = Capitalized[n]
    BY <1>3 DEF LinkRow
<1>5. q \in DOMAIN dump /\ Capitalized[dump[q].title] = t.id
    BY DEF TitlesRight
<1>6. QED
    BY <1>1, <1>2, <1>3, <1>4, <1>5 DEF LinkedIn

(* Made of all documents, links has every link of the dump. *)
LEMMA LinksWhole ==
    ASSUME dump \in Dumps
    PROVE  links(links0(pages), tmp_title_pageid(title_pageid(pages))) = LinkedIn(dump)
<1> DEFINE tp == title_pageid(pages)
<1> DEFINE l0 == links0(pages)
<1>1. links(l0, tmp_title_pageid(tp)) \subseteq LinkedIn(dump)
    BY TmpRight, LinksRight
<1>2. ASSUME NEW e \in LinkedIn(dump) PROVE e \in links(l0, tmp_title_pageid(tp))
    <2>1. PICK p \in DOMAIN dump, q \in DOMAIN dump, l \in Titles :
             /\ e = <<p, q>> /\ Mentions(dump[p], l)
             /\ Capitalized[l] = Capitalized[dump[q].title]
        BY <1>2 DEF LinkedIn
    <2>2. LinkRow(p, l) \in l0
        BY <2>1, Links0Rows
    <2>3. /\ LinkRow(p, l).from_page_id = p
          /\ LinkRow(p, l).outlinkCapitalized = Capitalized[l]
        BY DEF LinkRow
    <2>4. /\ TitleRow(q) \in tp /\ TitleRow(q).page_id = q
          /\ TitleRow(q).titleCapitalized = Capitalized[l]
        BY <2>1, TitleRows DEF TitleRow
    <2> HIDE DEF tp, l0
    <2>5. PICK t : /\ t \in tmp_title_pageid(tp)
                   /\ t = [id |-> TitleRow(q).titleCapitalized,
                           page_id |-> {u.page_id : u \in {v \in tp :
                              v.titleCapitalized = TitleRow(q).titleCapitalized}}]
        BY <2>4, TmpRows
    <2>6. t.id = Capitalized[l] /\ q \in t.page_id
        BY <2>4, <2>5
    <2>7. QED
        BY <2>1, <2>2, <2>3, <2>5, <2>6, LinksRows
<1>3. QED
    BY <1>1, <1>2

(* out_links and in_links hold exactly, or only, the links of ls. *)
OutOf(ol, ls) ==
    \A p, q : (\E o \in ol : o.id = p /\ q \in o.out_links) <=> <<p, q>> \in ls
InOf(il, ls) ==
    \A p, q : (\E i \in il : i.id = p /\ q \in i.in_links) <=> <<q, p>> \in ls
OutRight(ol, ls) == \A o \in ol : \A q \in o.out_links : <<o.id, q>> \in ls
InRight(il, ls) == \A i \in il : \A q \in i.in_links : <<q, i.id>> \in ls

LEMMA OutLinksOf ==
    ASSUME NEW ls, ls \subseteq PageIds \X PageIds
    PROVE  OutOf(out_links(ls), ls)
<1> DEFINE row(p) == [id |-> p, out_links |-> {l[2] : l \in {k \in ls : k[1] = p}}]
<1>1. \A p : row(p).id = p /\ \A q : q \in row(p).out_links <=> <<p, q>> \in ls
    <2> SUFFICES ASSUME NEW p, NEW q PROVE q \in row(p).out_links <=> <<p, q>> \in ls
        OBVIOUS
    <2>1. \A l \in ls : l = <<l[1], l[2]>>
        OBVIOUS
    <2>2. q \in row(p).out_links <=> \E l \in ls : l[1] = p /\ l[2] = q
        OBVIOUS
    <2>3. <<p, q>>[1] = p /\ <<p, q>>[2] = q
        OBVIOUS
    <2> HIDE DEF row
    <2>4. QED
        BY <2>1, <2>2, <2>3
<1>2. \A o : o \in out_links(ls) <=> \E l \in ls : o = row(l[1])
    BY DEF out_links
<1> HIDE DEF row
<1>3. ASSUME NEW p, NEW q, NEW o \in out_links(ls), o.id = p, q \in o.out_links
      PROVE  <<p, q>> \in ls
    <2>1. PICK l \in ls : o = row(l[1])
        BY <1>2
    <2>2. l[1] = p
        BY <1>1, <1>3, <2>1
    <2>3. QED
        BY <1>1, <1>3, <2>1, <2>2
<1>4. ASSUME NEW p, NEW q, <<p, q>> \in ls
      PROVE  \E o \in out_links(ls) : o.id = p /\ q \in o.out_links
    <2>1. <<p, q>>[1] = p
        OBVIOUS
    <2>2. row(p) \in out_links(ls)
        BY <1>2, <1>4, <2>1
    <2>3. QED
        BY <1>1, <1>4, <2>2
<1>5. QED
    BY <1>3, <1>4 DEF OutOf

LEMMA InLinksOf ==
    ASSUME NEW ls, ls \subseteq PageIds \X PageIds
    PROVE  InOf(in_links(ls), ls)
<1> DEFINE row(p) == [id |-> p, in_links |-> {l[1] : l \in {k \in ls : k[2] = p}}]
<1>1. \A p : row(p).id = p /\ \A q : q \in row(p).in_links <=> <<q, p>> \in ls
    <2> SUFFICES ASSUME NEW p, NEW q PROVE q \in row(p).in_links <=> <<q, p>> \in ls
        OBVIOUS
    <2>1. \A l \in ls : l = <<l[1], l[2]>>
        OBVIOUS
    <2>2. q \in row(p).in_links <=> \E l \in ls : l[2] = p /\ l[1] = q
        OBVIOUS
    <2>3. <<q, p>>[1] = q /\ <<q, p>>[2] = p
        OBVIOUS
    <2> HIDE DEF row
    <2>4. QED
        BY <2>1, <2>2, <2>3
<1>2. \A i : i \in in_links(ls) <=> \E l \in ls : i = row(l[2])
    BY DEF in_links
<1> HIDE DEF row
<1>3. ASSUME NEW p, NEW q, NEW i \in in_links(ls), i.id = p, q \in i.in_links
      PROVE  <<q, p>> \in ls
    <2>1. PICK l \in ls : i = row(l[2])
        BY <1>2
    <2>2. l[2] = p
        BY <1>1, <1>3, <2>1
    <2>3. QED
        BY <1>1, <1>3, <2>1, <2>2
<1>4. ASSUME NEW p, NEW q, <<q, p>> \in ls
      PROVE  \E i \in in_links(ls) : i.id = p /\ q \in i.in_links
    <2>1. <<q, p>>[2] = p
        OBVIOUS
    <2>2. row(p) \in in_links(ls)
        BY <1>2, <1>4, <2>1
    <2>3. QED
        BY <1>1, <1>4, <2>2
<1>5. QED
    BY <1>3, <1>4 DEF InOf

LEMMA LinksOfRight ==
    ASSUME NEW ls, ls \subseteq LinkedIn(dump), dump \in Dumps
    PROVE  OutRight(out_links(ls), LinkedIn(dump)) /\ InRight(in_links(ls), LinkedIn(dump))
<1>1. ls \subseteq PageIds \X PageIds
    BY DumpTyped DEF LinkedIn
<1>2. QED
    BY <1>1, OutLinksOf, InLinksOf DEF OutOf, InOf, OutRight, InRight

(* The row of a page in page_links. *)
LinksRow(t, ol, il) ==
    [page_id |-> t.page_id, title |-> t.title,
     out_links |-> UNION {o.out_links : o \in {x \in ol : x.id = t.page_id}},
     in_links |-> UNION {i.in_links : i \in {x \in il : x.id = t.page_id}}]

LEMMA PageLinksRows ==
    ASSUME NEW tp, NEW ol, NEW il
    PROVE  /\ \A r : r \in page_links(tp, ol, il) <=> \E t \in tp : r = LinksRow(t, ol, il)
           /\ \A t : /\ LinksRow(t, ol, il).page_id = t.page_id
                     /\ LinksRow(t, ol, il).title = t.title
                     /\ \A q : q \in LinksRow(t, ol, il).out_links <=>
                                  \E o \in ol : o.id = t.page_id /\ q \in o.out_links
                     /\ \A q : q \in LinksRow(t, ol, il).in_links <=>
                                  \E i \in il : i.id = t.page_id /\ q \in i.in_links
<1>1. \A r : r \in page_links(tp, ol, il) <=> \E t \in tp : r = LinksRow(t, ol, il)
    BY DEF page_links, LinksRow
<1>2. \A t, q : q \in LinksRow(t, ol, il).out_links <=>
                   \E o \in ol : o.id = t.page_id /\ q \in o.out_links
    BY DEF LinksRow
<1>3. \A t, q : q \in LinksRow(t, ol, il).in_links <=>
                   \E i \in il : i.id = t.page_id /\ q \in i.in_links
    BY DEF LinksRow
<1>4. QED
    BY <1>1, <1>2, <1>3 DEF LinksRow

FullRow(p) ==
    [page_id |-> p, title |-> dump[p].title,
     out_links |-> {q \in DOMAIN dump : <<p, q>> \in LinkedIn(dump)},
     in_links |-> {q \in DOMAIN dump : <<q, p>> \in LinkedIn(dump)}]

LEMMA FullRows ==
    /\ \A r : r \in PageLinksOf(dump) <=> \E p \in DOMAIN dump : r = FullRow(p)
    /\ \A p : /\ FullRow(p).page_id = p /\ FullRow(p).title = dump[p].title
              /\ \A q : q \in FullRow(p).out_links <=> <<p, q>> \in LinkedIn(dump)
              /\ \A q : q \in FullRow(p).in_links <=> <<q, p>> \in LinkedIn(dump)
<1>1. \A p, q : <<p, q>> \in LinkedIn(dump) => p \in DOMAIN dump /\ q \in DOMAIN dump
    BY DEF LinkedIn
<1>2. \A r : r \in PageLinksOf(dump) <=> \E p \in DOMAIN dump : r = FullRow(p)
    BY DEF PageLinksOf, FullRow
<1>3. QED
    BY <1>1, <1>2 DEF FullRow

(* Rows made of titles and links of the dump lack something at most. *)
LEMMA PageLinksRight ==
    ASSUME NEW tp, NEW ol, NEW il, tp \subseteq title_pageid(pages),
           OutRight(ol, LinkedIn(dump)), InRight(il, LinkedIn(dump))
    PROVE  Lacking(page_links(tp, ol, il), PageLinksOf(dump))
<1> SUFFICES ASSUME NEW r \in page_links(tp, ol, il)
             PROVE  \E f \in PageLinksOf(dump) :
                       /\ r.page_id = f.page_id /\ r.title = f.title
                       /\ r.out_links \subseteq f.out_links /\ r.in_links \subseteq f.in_links
    BY DEF Lacking
<1>1. PICK t \in tp : r = LinksRow(t, ol, il)
    BY PageLinksRows
<1>2. PICK p \in DOMAIN dump : t = TitleRow(p)
    BY TitleRows
<1>3. t.page_id = p /\ t.title = dump[p].title
    BY <1>2 DEF TitleRow
<1>4. /\ r.page_id = p /\ r.title = dump[p].title
      /\ \A q \in r.out_links : <<p, q>> \in LinkedIn(dump)
      /\ \A q \in r.in_links : <<q, p>> \in LinkedIn(dump)
    BY <1>1, <1>3, PageLinksRows DEF OutRight, InRight
<1>5. FullRow(p) \in PageLinksOf(dump)
    BY FullRows
<1>6. QED
    BY <1>4, <1>5, FullRows

(* Rows made of all titles and all links are the reference. *)
LEMMA PageLinksWhole ==
    ASSUME NEW ol, NEW il, OutOf(ol, LinkedIn(dump)), InOf(il, LinkedIn(dump))
    PROVE  page_links(title_pageid(pages), ol, il) = PageLinksOf(dump)
<1>1. ASSUME NEW p \in DOMAIN dump
      PROVE  LinksRow(TitleRow(p), ol, il) = FullRow(p)
    <2> DEFINE t == TitleRow(p)
    <2>1. t.page_id = p /\ t.title = dump[p].title
        BY DEF TitleRow
    <2> HIDE DEF t
    <2> DEFINE outs == UNION {o.out_links : o \in {x \in ol : x.id = t.page_id}}
    <2> DEFINE ins == UNION {i.in_links : i \in {x \in il : x.id = t.page_id}}
    <2>2. outs = {q \in DOMAIN dump : <<p, q>> \in LinkedIn(dump)}
        <3>1. \A q : q \in outs <=> <<p, q>> \in LinkedIn(dump)
            BY <2>1 DEF OutOf
        <3>2. \A q : <<p, q>> \in LinkedIn(dump) => q \in DOMAIN dump
            BY DEF LinkedIn
        <3> HIDE DEF outs
        <3>3. QED
            BY <3>1, <3>2
    <2>3. ins = {q \in DOMAIN dump : <<q, p>> \in LinkedIn(dump)}
        <3>1. \A q : q \in ins <=> <<q, p>> \in LinkedIn(dump)
            BY <2>1 DEF InOf
        <3>2. \A q : <<q, p>> \in LinkedIn(dump) => q \in DOMAIN dump
            BY DEF LinkedIn
        <3> HIDE DEF ins
        <3>3. QED
            BY <3>1, <3>2
    <2>4. LinksRow(t, ol, il) = [page_id |-> t.page_id, title |-> t.title,
                                 out_links |-> outs, in_links |-> ins]
        BY DEF LinksRow
    <2> HIDE DEF outs, ins
    <2>5. QED
        BY <2>1, <2>2, <2>3, <2>4 DEF FullRow, t
<1>2. \A r : r \in page_links(title_pageid(pages), ol, il) <=> r \in PageLinksOf(dump)
    BY <1>1, PageLinksRows, TitleRows, FullRows
<1>3. QED
    BY <1>2

(* Pages have one title, and one row made of it. *)
LEMMA TitlesOnce == OneRow(title_pageid(pages))
BY TitleRows DEF OneRow, TitleRow

LEMMA PageLinksOnce ==
    ASSUME NEW tp, NEW ol, NEW il, OneRow(tp)
    PROVE  OneRow(page_links(tp, ol, il))
<1> SUFFICES ASSUME NEW r \in page_links(tp, ol, il), NEW s \in page_links(tp, ol, il),
                    r.page_id = s.page_id
             PROVE  r = s
    BY DEF OneRow
<1>1. PICK t \in tp : r = LinksRow(t, ol, il)
    BY PageLinksRows
<1>2. PICK u \in tp : s = LinksRow(u, ol, il)
    BY PageLinksRows
<1>3. t.page_id = u.page_id
    BY <1>1, <1>2, PageLinksRows
<1>4. QED
    BY <1>1, <1>2, <1>3 DEF OneRow

(* Rows made of two converse collections are converse. *)
LEMMA PageLinksConverse ==
    ASSUME NEW tp, NEW ol, NEW il, NEW ls, OutOf(ol, ls), InOf(il, ls)
    PROVE  Converse(page_links(tp, ol, il))
<1> SUFFICES ASSUME NEW r \in page_links(tp, ol, il), NEW s \in page_links(tp, ol, il)
             PROVE  s.page_id \in r.out_links <=> r.page_id \in s.in_links
    BY DEF Converse
<1>1. PICK t \in tp : r = LinksRow(t, ol, il)
    BY PageLinksRows
<1>2. PICK u \in tp : s = LinksRow(u, ol, il)
    BY PageLinksRows
<1>3. r.page_id = t.page_id /\ s.page_id = u.page_id
    BY <1>1, <1>2, PageLinksRows
<1>5. s.page_id \in r.out_links <=> <<t.page_id, u.page_id>> \in ls
    BY <1>1, <1>3, PageLinksRows DEF OutOf
<1>6. r.page_id \in s.in_links <=> <<t.page_id, u.page_id>> \in ls
    BY <1>2, <1>3, PageLinksRows DEF InOf
<1>7. QED
    BY <1>5, <1>6
------------------------------------------------------------------------------
(* Types. *)

LEMMA TitlesTyped ==
    ASSUME dump \in Dumps
    PROVE  title_pageid(pages) \subseteq
              [page_id : PageIds, title : Titles,
               titleCapitalized : {Capitalized[t] : t \in Titles}]
<1>1. \A p \in DOMAIN dump : p \in PageIds /\ dump[p].title \in Titles
    BY DumpTyped DEF Documents
<1>2. QED
    BY <1>1, TitleRows, CapitalizedIn DEF TitleRow

LEMMA Links0Typed ==
    ASSUME dump \in Dumps
    PROVE  links0(pages) \subseteq [from_page_id : PageIds,
                                    outlinkCapitalized : {Capitalized[t] : t \in Titles}]
<1>1. \A p \in DOMAIN dump : p \in PageIds
    BY DumpTyped
<1>2. QED
    BY <1>1, Links0Rows, CapitalizedIn DEF LinkRow

LEMMA TmpTyped ==
    ASSUME TypeOK
    PROVE  tmp_title_pageid(db["title_pageid"]) \subseteq
              [id : {Capitalized[t] : t \in Titles}, page_id : SUBSET PageIds]
<1> DEFINE tp == db["title_pageid"]
<1>1. \A t \in tp : /\ t.page_id \in PageIds
                    /\ t.titleCapitalized \in {Capitalized[u] : u \in Titles}
    BY DEF TypeOK
<1> HIDE DEF tp
<1>2. ASSUME NEW r \in tmp_title_pageid(tp)
      PROVE  r \in [id : {Capitalized[t] : t \in Titles}, page_id : SUBSET PageIds]
    <2>1. PICK t \in tp : r = [id |-> t.titleCapitalized,
                               page_id |-> {u.page_id : u \in {v \in tp :
                                              v.titleCapitalized = t.titleCapitalized}}]
        BY TmpRows
    <2>2. {u.page_id : u \in {v \in tp : v.titleCapitalized = t.titleCapitalized}}
             \subseteq PageIds
        BY <1>1
    <2>3. QED
        BY <1>1, <2>1, <2>2
<1>3. QED
    BY <1>2 DEF tp

LEMMA LinksTyped ==
    ASSUME TypeOK
    PROVE  links(db["links0"], db["tmp_title_pageid"]) \subseteq PageIds \X PageIds
<1>1. \A l \in db["links0"] : l.from_page_id \in PageIds
    BY DEF TypeOK
<1>2. \A t \in db["tmp_title_pageid"] : t.page_id \subseteq PageIds
    BY DEF TypeOK
<1>3. QED
    BY <1>1, <1>2, LinksRows

LEMMA OutTyped ==
    ASSUME NEW ls, ls \subseteq PageIds \X PageIds
    PROVE  /\ out_links(ls) \subseteq [id : PageIds, out_links : SUBSET PageIds]
           /\ in_links(ls) \subseteq [id : PageIds, in_links : SUBSET PageIds]
<1>1. \A l \in ls : l[1] \in PageIds /\ l[2] \in PageIds
    OBVIOUS
<1>2. \A p : {l[2] : l \in {k \in ls : k[1] = p}} \subseteq PageIds
    BY <1>1
<1>3. \A p : {l[1] : l \in {k \in ls : k[2] = p}} \subseteq PageIds
    BY <1>1
<1>4. QED
    BY <1>1, <1>2, <1>3 DEF out_links, in_links

LEMMA PageLinksTyped ==
    ASSUME TypeOK
    PROVE  page_links(db["title_pageid"], db["out_links"], db["in_links"]) \subseteq
              [page_id : PageIds, title : Titles,
               out_links : SUBSET PageIds, in_links : SUBSET PageIds]
<1> DEFINE tp == db["title_pageid"]
<1> DEFINE ol == db["out_links"]
<1> DEFINE il == db["in_links"]
<1>1. /\ \A t \in tp : t.page_id \in PageIds /\ t.title \in Titles
      /\ \A o \in ol : o.out_links \subseteq PageIds
      /\ \A i \in il : i.in_links \subseteq PageIds
    BY DEF TypeOK
<1> HIDE DEF tp, ol, il
<1>2. \A t : /\ UNION {o.out_links : o \in {x \in ol : x.id = t.page_id}} \subseteq PageIds
             /\ UNION {i.in_links : i \in {x \in il : x.id = t.page_id}} \subseteq PageIds
    BY <1>1
<1>3. page_links(tp, ol, il) \subseteq
         [page_id : PageIds, title : Titles, out_links : SUBSET PageIds, in_links : SUBSET PageIds]
    BY <1>1, <1>2 DEF page_links
<1>4. QED
    BY <1>3 DEF tp, ol, il

------------------------------------------------------------------------------
(* The steps, with the places the script has them at. *)

Replaced(c, rows) ==
    /\ db'[c] = rows
    /\ \A d \in Collections \ {c} : db'[d] = db[d]
    /\ DOMAIN db' = Collections
    /\ pc' = pc + 1
    /\ pages' = pages
    /\ UNCHANGED <<dump, failed, failedDrops>>

Dropped(n, c) ==
    \/ n = 1 /\ c = "title_pageid"
    \/ n \in {3, 9} /\ c = "links0"
    \/ n \in {5, 10} /\ c = "tmp_title_pageid"
    \/ n = 7 /\ c = "links"
    \/ n = 11 /\ c = "out_links"
    \/ n = 13 /\ c = "in_links"
    \/ n = 15 /\ c = "page_links"

LEMMA DropStatement ==
    ASSUME TypeOK, ~Done, Script[pc][1] = "drop"
    PROVE  Dropped(pc, Script[pc][2]) /\ Script[pc][2] \in Collections
<1>1. pc \in 1 .. 16
    BY ScriptLength DEF Done, TypeOK
<1>2. Dropped(pc, Script[pc][2])
    BY <1>1, ScriptDrops DEF Dropped
<1>3. QED
    BY <1>2 DEF Dropped, Collections

LEMMA DropStep ==
    ASSUME TypeOK, drop
    PROVE  \E c \in Collections : Dropped(pc, c) /\ Replaced(c, {})
<1> DEFINE c == Script[pc][2]
<1>1. Dropped(pc, c) /\ c \in Collections
    BY DropStatement DEF drop
<1>2. /\ db' = [db EXCEPT ![c] = {}] /\ pc' = pc + 1
      /\ UNCHANGED <<dump, failed, failedDrops>>
    BY DEF drop
<1> HIDE DEF c
<1>3. Replaced(c, {})
    BY <1>1, <1>2 DEF Replaced, TypeOK, pages
<1>4. QED
    BY <1>1, <1>3

Made(n, c) ==
    \/ n = 2  /\ c = "title_pageid"
    \/ n = 4  /\ c = "links0"
    \/ n = 6  /\ c = "tmp_title_pageid"
    \/ n = 8  /\ c = "links"
    \/ n = 12 /\ c = "out_links"
    \/ n = 14 /\ c = "in_links"
    \/ n = 16 /\ c = "page_links"

LEMMA OutStatement ==
    ASSUME TypeOK, ~Done, Script[pc][1] = "out"
    PROVE  Made(pc, Script[pc][2]) /\ Script[pc][2] \in Collections
<1>1. pc \in 1 .. 16
    BY ScriptLength DEF Done, TypeOK
<1>2. Made(pc, Script[pc][2])
    BY <1>1, ScriptMakes DEF Made
<1>3. QED
    BY <1>2 DEF Made, Collections

LEMMA AggregateStep ==
    ASSUME TypeOK, aggregate
    PROVE  \E c \in Collections : Made(pc, c) /\ Replaced(c, Rows(c))
<1> DEFINE c == Script[pc][2]
<1>1. Made(pc, c) /\ c \in Collections
    BY OutStatement DEF aggregate
<1>2. /\ db' = [db EXCEPT ![c] = Rows(c)] /\ pc' = pc + 1
      /\ UNCHANGED <<dump, failed, failedDrops>>
    BY DEF aggregate
<1> HIDE DEF c
<1>3. Replaced(c, Rows(c))
    BY <1>1, <1>2 DEF Replaced, TypeOK, pages
<1>4. QED
    BY <1>1, <1>3

(* A statement that fails leaves a note and nothing else. *)
Noted(k, c) ==
    /\ failed' = failed \cup {<<k, c>>}
    /\ pc' = pc + 1 /\ pages' = pages /\ UNCHANGED <<dump, db>>

LEMMA FailStep ==
    ASSUME TypeOK
    PROVE  /\ drop_fails => \E c \in Collections : Dropped(pc, c) /\ Noted("drop", c)
           /\ aggregate_fails => \E c \in Collections : Made(pc, c) /\ Noted("out", c)
<1>1. ~Done => Script[pc] = <<Script[pc][1], Script[pc][2]>>
    BY ScriptLength, ScriptStatement DEF Done, TypeOK
<1>2. CASE drop_fails
    BY <1>1, <1>2, DropStatement DEF drop_fails, aggregate_fails, Noted, pages
<1>3. CASE aggregate_fails
    BY <1>1, <1>3, OutStatement DEF drop_fails, aggregate_fails, Noted, pages
<1>4. QED
    BY <1>2, <1>3
------------------------------------------------------------------------------
(* The invariant.  What a run has renewed (dropped, or come past the       *)
(* aggregation of) holds nothing of an earlier dump as long as nothing is  *)
(* kept: it is empty, or was made of collections of which the same is true.*)

(* Statement n drops the collection c, the next one makes it. *)
Renewed(c, n) == pc > n + 1 \/ (pc = n + 1 /\ <<"drop", c>> \notin failed)

TitlesPresent ==
    Kept = {} /\ Renewed("title_pageid", 1) => db["title_pageid"] \subseteq title_pageid(pages)
Links0Present ==
    Kept = {} /\ Renewed("links0", 3) => db["links0"] \subseteq links0(pages)
TmpPresent ==
    Kept = {} /\ Renewed("tmp_title_pageid", 5) => TitlesRight(db["tmp_title_pageid"])
LinksPresent ==
    Kept = {} /\ Renewed("links", 7) => db["links"] \subseteq LinkedIn(dump)
OutPresent ==
    Kept = {} /\ Renewed("out_links", 11) => OutRight(db["out_links"], LinkedIn(dump))
InPresent ==
    Kept = {} /\ Renewed("in_links", 13) => InRight(db["in_links"], LinkedIn(dump))

Present ==
    /\ TitlesPresent /\ Links0Present /\ TmpPresent
    /\ LinksPresent /\ OutPresent /\ InPresent

(* What a run has made, if no aggregation failed, is whole. *)
AllMade == \A c \in Collections : <<"out", c>> \notin failed

TitlesWhole == pc > 2 /\ AllMade => db["title_pageid"] = title_pageid(pages)
Links0Whole == pc \in 5 .. 9 /\ AllMade => db["links0"] = links0(pages)
TmpWhole ==
    pc \in 7 .. 10 /\ AllMade =>
        db["tmp_title_pageid"] = tmp_title_pageid(title_pageid(pages))
AllLinks == pc > 8 /\ AllMade => db["links"] = LinkedIn(dump)

Whole == TitlesWhole /\ Links0Whole /\ TmpWhole /\ AllLinks

(* The last three collections, relative to those they were made of. *)
OutMade ==
    pc > 12 /\ <<"out", "out_links">> \notin failed => db["out_links"] = out_links(db["links"])
InMade ==
    pc > 14 /\ <<"out", "in_links">> \notin failed => db["in_links"] = in_links(db["links"])
TableMade ==
    /\ pc = 16 /\ <<"drop", "page_links">> \notin failed => db["page_links"] = {}
    /\ pc = 17 /\ "page_links" \notin Kept =>
          db["page_links"] = {} \/ db["page_links"] =
              page_links(db["title_pageid"], db["out_links"], db["in_links"])
    /\ pc = 17 /\ <<"out", "page_links">> \notin failed => db["page_links"] =
              page_links(db["title_pageid"], db["out_links"], db["in_links"])

Inv == TypeOK /\ Present /\ Whole /\ OutMade /\ InMade /\ TableMade

LEMMA InitInv == Init => Inv
<1> SUFFICES ASSUME Init PROVE Inv
    OBVIOUS
<1>1. /\ pc = 1 /\ failed = {} /\ dump \in Dumps /\ db = [c \in Collections |-> {}]
      /\ failedDrops = 0
    BY DEF Init
<1>2. TypeOK
    BY <1>1, ScriptLength, FailedDropsAssumption DEF TypeOK, Collections
<1>3. Present /\ Whole /\ OutMade /\ InMade /\ TableMade
    BY <1>1 DEF Renewed, Present, TitlesPresent, Links0Present, TmpPresent, LinksPresent,
       OutPresent, InPresent, Whole, TitlesWhole, Links0Whole, TmpWhole, AllLinks, OutMade,
       InMade, TableMade
<1>4. QED
    BY <1>2, <1>3 DEF Inv

(* A run begins at the top and has yet to drop everything. *)
LEMMA RestartInv ==
    ASSUME Inv, pc' = 1, failed' = {}, db' = db, dump' \in Dumps, failedDrops' = failedDrops
    PROVE  Inv'
<1>1. TypeOK'
    BY ScriptLength DEF Inv, TypeOK
<1>2. (Present /\ Whole /\ OutMade /\ InMade /\ TableMade)'
    BY DEF Renewed, Present, TitlesPresent, Links0Present, TmpPresent, LinksPresent,
       OutPresent, InPresent, Whole, TitlesWhole, Links0Whole, TmpWhole, AllLinks, OutMade,
       InMade, TableMade
<1>3. QED
    BY <1>1, <1>2 DEF Inv

(* What is kept stays so until the run is over. *)
LEMMA KeptGrows ==
    ASSUME failed \subseteq failed'
    PROVE  Kept \subseteq Kept'
BY DEF Kept

LEMMA TitlesRightEmpty == TitlesRight({}) /\ \A ls : OutRight({}, ls) /\ InRight({}, ls)
BY DEF TitlesRight, OutRight, InRight

LEMMA DropInv == Inv /\ drop => Inv'
<1> SUFFICES ASSUME Inv, drop PROVE Inv'
    OBVIOUS
<1>0. TypeOK /\ pc \in 1 .. 16
    BY ScriptLength DEF Inv, drop, Done, TypeOK
<1>1. PICK c \in Collections : Dropped(pc, c) /\ Replaced(c, {})
    BY <1>0, DropStep
<1>2. /\ db'[c] = {} /\ \A d \in Collections \ {c} : db'[d] = db[d]
      /\ DOMAIN db' = Collections
      /\ pc' = pc + 1 /\ pages' = pages /\ dump' = dump
      /\ failed' = failed /\ failedDrops' = failedDrops /\ Kept' = Kept
    BY <1>1 DEF Replaced, Kept
<1>3. \A d \in Collections : db'[d] \in {db[d], {}}
    BY <1>2
<1>4. TypeOK'
    <2>1. \A d \in Collections : db'[d] \subseteq db[d]
        BY <1>3
    <2>2. pc' \in 1 .. (Len(Script) + 1)
        BY <1>0, <1>2, ScriptLength
    <2>3. QED
        BY <1>0, <1>2, <2>1, <2>2 DEF TypeOK, Collections
<1>5. Present'
    <2>1. (TitlesPresent /\ Links0Present /\ LinksPresent)'
        BY <1>0, <1>1, <1>2 DEF Dropped, Renewed, Inv, Present, TitlesPresent, Links0Present,
           LinksPresent, Collections
    <2>2. (TmpPresent /\ OutPresent /\ InPresent)'
        BY <1>0, <1>1, <1>2 DEF Dropped, Renewed, Inv, Present, TmpPresent, OutPresent,
           InPresent, TitlesRight, OutRight, InRight, Collections
    <2>3. QED
        BY <2>1, <2>2 DEF Present
<1>6. Whole'
    BY <1>0, <1>1, <1>2 DEF Dropped, Inv, Whole, AllMade, TitlesWhole, Links0Whole, TmpWhole,
       AllLinks, Collections
<1>7. OutMade' /\ InMade'
    BY <1>0, <1>1, <1>2 DEF Dropped, Inv, OutMade, InMade, Collections
<1>8. TableMade'
    BY <1>0, <1>1, <1>2 DEF Dropped, Inv, TableMade, Collections
<1>9. QED
    BY <1>4, <1>5, <1>6, <1>7, <1>8 DEF Inv

(* A drop that failed leaves its collection as it was, not renewed. *)
LEMMA DropFailsInv == Inv /\ drop_fails => Inv'
<1> SUFFICES ASSUME Inv, drop_fails PROVE Inv'
    OBVIOUS
<1>0. TypeOK /\ pc \in 1 .. 16
    BY ScriptLength DEF Inv, drop_fails, Done, TypeOK
<1>1. PICK c \in Collections : Dropped(pc, c) /\ Noted("drop", c)
    BY <1>0, FailStep
<1>2. /\ failed' = failed \cup {<<"drop", c>>} /\ pc' = pc + 1 /\ pages' = pages
      /\ dump' = dump /\ db' = db
    BY <1>1 DEF Noted
<1>3. Kept' = {} => Kept = {}
    BY <1>2, KeptGrows
<1>4. TypeOK'
    BY <1>0, <1>2, ScriptLength, FailedDropsAssumption DEF drop_fails, TypeOK
<1>5. Present'
    <2>1. (TitlesPresent /\ Links0Present /\ LinksPresent)'
        BY <1>0, <1>1, <1>2, <1>3 DEF Dropped, Renewed, Inv, Present, TitlesPresent,
           Links0Present, LinksPresent
    <2>2. (TmpPresent /\ OutPresent /\ InPresent)'
        BY <1>0, <1>1, <1>2, <1>3 DEF Dropped, Renewed, Inv, Present, TmpPresent, OutPresent,
           InPresent, TitlesRight
    <2>3. QED
        BY <2>1, <2>2 DEF Present
<1>6. AllMade' => AllMade
    BY <1>2 DEF AllMade
<1>7. Whole' /\ OutMade' /\ InMade'
    BY <1>0, <1>1, <1>2, <1>6 DEF Dropped, Inv, Whole, TitlesWhole, Links0Whole, TmpWhole,
       AllLinks, OutMade, InMade
<1>8. TableMade'
    <2>1. pc = 15 => <<"drop", "page_links">> \in failed'
        BY <1>1, <1>2 DEF Dropped
    <2>2. pc # 16
        BY <1>1 DEF Dropped
    <2>3. QED
        BY <1>0, <1>2, <2>1, <2>2 DEF TableMade
<1>9. QED
    BY <1>4, <1>5, <1>7, <1>8 DEF Inv

(* An aggregation that failed leaves what its drop left, or what is kept. *)
LEMMA AggregateFailsInv == Inv /\ aggregate_fails => Inv'
<1> SUFFICES ASSUME Inv, aggregate_fails PROVE Inv'
    OBVIOUS
<1>0. TypeOK /\ pc \in 1 .. 16
    BY ScriptLength DEF Inv, aggregate_fails, Done, TypeOK
<1>1. PICK c \in Collections : Made(pc, c) /\ Noted("out", c)
    BY <1>0, FailStep
<1>2. /\ failed' = failed \cup {<<"out", c>>} /\ pc' = pc + 1 /\ pages' = pages
      /\ dump' = dump /\ db' = db
    BY <1>1 DEF Noted
<1>3. Kept' = {} => Kept = {} /\ <<"drop", c>> \notin failed
    BY <1>2, KeptGrows DEF Kept
<1>4. TypeOK'
    BY <1>0, <1>2, ScriptLength DEF aggregate_fails, TypeOK
<1>5. Present'
    <2>1. (TitlesPresent /\ Links0Present /\ LinksPresent)'
        BY <1>0, <1>1, <1>2, <1>3 DEF Made, Renewed, Inv, Present, TitlesPresent,
           Links0Present, LinksPresent
    <2>2. (TmpPresent /\ OutPresent /\ InPresent)'
        BY <1>0, <1>1, <1>2, <1>3 DEF Made, Renewed, Inv, Present, TmpPresent, OutPresent,
           InPresent, TitlesRight
    <2>3. QED
        BY <2>1, <2>2 DEF Present
<1>6. ~AllMade'
    BY <1>2 DEF AllMade
<1>7. Whole'
    BY <1>6 DEF Whole, TitlesWhole, Links0Whole, TmpWhole, AllLinks
<1>8. OutMade' /\ InMade'
    BY <1>0, <1>1, <1>2 DEF Made, Inv, OutMade, InMade
<1>9. TableMade'
    <2>1. CASE pc = 16
        <3>1. c = "page_links" /\ pc' = 17 /\ <<"out", "page_links">> \in failed'
            BY <1>1, <1>2, <2>1 DEF Made
        <3>2. "page_links" \notin Kept' => <<"drop", "page_links">> \notin failed
            BY <1>2, <3>1 DEF Kept
        <3>3. QED
            BY <1>2, <2>1, <3>1, <3>2 DEF Inv, TableMade
    <2>2. CASE pc # 16
        <3>1. pc' # 16 /\ pc' # 17
            BY <1>0, <1>1, <1>2, <2>2 DEF Made
        <3>2. QED
            BY <3>1 DEF TableMade
    <2>3. QED
        BY <2>1, <2>2
<1>10. QED
    BY <1>4, <1>5, <1>7, <1>8, <1>9 DEF Inv

(* What each statement makes, one collection at a time. *)
LEMMA MadeTyped ==
    ASSUME Inv, NEW c \in Collections, Replaced(c, Rows(c))
    PROVE  /\ DOMAIN db' = Collections
           /\ c = "title_pageid" => Rows(c) \subseteq
                 [page_id : PageIds, title : Titles,
                  titleCapitalized : {Capitalized[t] : t \in Titles}]
           /\ c = "links0" => Rows(c) \subseteq
                 [from_page_id : PageIds, outlinkCapitalized : {Capitalized[t] : t \in Titles}]
           /\ c = "tmp_title_pageid" => Rows(c) \subseteq
                 [id : {Capitalized[t] : t \in Titles}, page_id : SUBSET PageIds]
           /\ c = "links" => Rows(c) \subseteq PageIds \X PageIds
           /\ c = "out_links" => Rows(c) \subseteq [id : PageIds, out_links : SUBSET PageIds]
           /\ c = "in_links" => Rows(c) \subseteq [id : PageIds, in_links : SUBSET PageIds]
           /\ c = "page_links" => Rows(c) \subseteq
                 [page_id : PageIds, title : Titles,
                  out_links : SUBSET PageIds, in_links : SUBSET PageIds]
<1>0. TypeOK /\ dump \in Dumps /\ db["links"] \subseteq PageIds \X PageIds
    BY DEF Inv, TypeOK
<1>1. DOMAIN db' = Collections
    BY DEF Replaced
<1>2. c = "title_pageid" => Rows(c) = title_pageid(pages)
    BY DEF Rows
<1>3. c = "links0" => Rows(c) = links0(pages)
    BY DEF Rows
<1>4. c = "tmp_title_pageid" => Rows(c) = tmp_title_pageid(db["title_pageid"])
    BY DEF Rows
<1>5. c = "links" => Rows(c) = links(db["links0"], db["tmp_title_pageid"])
    BY DEF Rows
<1>6. c = "out_links" => Rows(c) = out_links(db["links"])
    BY DEF Rows
<1>7. c = "in_links" => Rows(c) = in_links(db["links"])
    BY DEF Rows
<1>8. c = "page_links" =>
         Rows(c) = page_links(db["title_pageid"], db["out_links"], db["in_links"])
    BY DEF Rows
<1>9. QED
    BY <1>0, <1>1, <1>2, <1>3, <1>4, <1>5, <1>6, <1>7, <1>8,
       TitlesTyped, Links0Typed, TmpTyped, LinksTyped, OutTyped, PageLinksTyped

LEMMA AggregateTyped ==
    ASSUME Inv, NEW c \in Collections, Made(pc, c), Replaced(c, Rows(c)), pc \in 1 .. 16
    PROVE  TypeOK'
<1>1. TypeOK
    BY DEF Inv
<1>2. \A d \in Collections : db'[d] = IF d = c THEN Rows(c) ELSE db[d]
    BY DEF Replaced
<1>3. /\ pc' \in 1 .. (Len(Script) + 1) /\ dump' = dump
      /\ failed' = failed /\ failedDrops' = failedDrops
    BY ScriptLength DEF Replaced
<1>4. QED
    BY <1>1, <1>2, <1>3, MadeTyped DEF TypeOK, Collections

LEMMA AggregateInv == Inv /\ aggregate => Inv'
<1> SUFFICES ASSUME Inv, aggregate PROVE Inv'
    OBVIOUS
<1>0. TypeOK /\ dump \in Dumps /\ pc \in 1 .. 16
    BY ScriptLength DEF Renewed, Inv, aggregate, Done, TypeOK
<1>1. PICK c \in Collections : Made(pc, c) /\ Replaced(c, Rows(c))
    BY <1>0, AggregateStep
<1>2. /\ db'[c] = Rows(c) /\ \A d \in Collections \ {c} : db'[d] = db[d]
      /\ pc' = pc + 1 /\ pages' = pages /\ dump' = dump
      /\ failed' = failed /\ Kept' = Kept /\ AllMade' = AllMade
    BY <1>1 DEF Replaced, Kept, AllMade
<1>3. TypeOK'
    BY <1>0, <1>1, AggregateTyped
<1>4. CASE c = "title_pageid"
    <2>1. pc = 2 /\ pc' = 3 /\ db'["title_pageid"] = title_pageid(pages)
        BY <1>1, <1>2, <1>4 DEF Made, Rows
    <2>2. QED
        BY <1>2, <1>3, <2>1 DEF Renewed, Inv, Present, TitlesPresent, Links0Present, TmpPresent,
           LinksPresent, OutPresent, InPresent, Whole, TitlesWhole, Links0Whole, TmpWhole,
           AllLinks, OutMade, InMade, TableMade
<1>5. CASE c = "links0"
    <2>1. pc = 4 /\ pc' = 5 /\ db'["links0"] = links0(pages)
        BY <1>1, <1>2, <1>5 DEF Made, Rows
    <2>2. db'["title_pageid"] = db["title_pageid"]
        BY <1>2, <1>5 DEF Collections
    <2>3. QED
        BY <1>2, <1>3, <2>1, <2>2 DEF Renewed, Inv, Present, TitlesPresent, Links0Present, TmpPresent,
           LinksPresent, OutPresent, InPresent, Whole, TitlesWhole, Links0Whole, TmpWhole,
           AllLinks, OutMade, InMade, TableMade
<1>6. CASE c = "tmp_title_pageid"
    <2>1. /\ pc = 6 /\ pc' = 7
          /\ db'["tmp_title_pageid"] = tmp_title_pageid(db["title_pageid"])
        BY <1>1, <1>2, <1>6 DEF Made, Rows
    <2>2. db'["title_pageid"] = db["title_pageid"] /\ db'["links0"] = db["links0"]
        BY <1>2, <1>6 DEF Collections
    <2>3. Kept = {} => TitlesRight(db'["tmp_title_pageid"])
        BY <2>1, TmpRight DEF Renewed, Inv, Present, TitlesPresent
    <2>4. TmpPresent'
        BY <1>2, <2>3 DEF TmpPresent, TitlesRight
    <2>5. QED
        BY <1>2, <1>3, <2>1, <2>2, <2>4 DEF Renewed, Inv, Present, TitlesPresent, Links0Present,
           LinksPresent, OutPresent, InPresent, Whole, TitlesWhole, Links0Whole, TmpWhole,
           AllLinks, OutMade, InMade, TableMade
<1>7. CASE c = "links"
    <2>1. /\ pc = 8 /\ pc' = 9
          /\ db'["links"] = links(db["links0"], db["tmp_title_pageid"])
        BY <1>1, <1>2, <1>7 DEF Made, Rows
    <2>2. /\ db'["title_pageid"] = db["title_pageid"] /\ db'["links0"] = db["links0"]
          /\ db'["tmp_title_pageid"] = db["tmp_title_pageid"]
        BY <1>2, <1>7 DEF Collections
    <2>3. Kept = {} => db'["links"] \subseteq LinkedIn(dump)
        BY <1>0, <2>1, LinksRight DEF Renewed, Inv, Present, Links0Present, TmpPresent
    <2>4. AllMade => db'["links"] = LinkedIn(dump)
        BY <1>0, <2>1, LinksWhole DEF Renewed, Inv, Whole, Links0Whole, TmpWhole
    <2>5. TmpPresent'
        BY <1>2, <2>1, <2>2 DEF Renewed, Inv, Present, TmpPresent, TitlesRight
    <2>6. QED
        BY <1>2, <1>3, <2>1, <2>2, <2>3, <2>4, <2>5 DEF Renewed, Inv, Present, TitlesPresent,
           Links0Present, LinksPresent, OutPresent, InPresent, Whole, TitlesWhole, Links0Whole,
           TmpWhole, AllLinks, OutMade, InMade, TableMade
<1>8. CASE c = "out_links"
    <2>1. pc = 12 /\ pc' = 13 /\ db'["out_links"] = out_links(db["links"])
        BY <1>1, <1>2, <1>8 DEF Made, Rows
    <2>2. \A d \in Collections : d # "out_links" => db'[d] = db[d]
        BY <1>2, <1>8
    <2>3. Kept = {} => OutRight(db'["out_links"], LinkedIn(dump))
        BY <1>0, <2>1, LinksOfRight DEF Renewed, Inv, Present, LinksPresent
    <2>4. Present'
        BY <1>2, <2>1, <2>2, <2>3 DEF Renewed, Inv, Present, TitlesPresent, Links0Present, TmpPresent,
           LinksPresent, OutPresent, InPresent, TitlesRight, OutRight, Collections
    <2>5. QED
        BY <1>2, <1>3, <2>1, <2>2, <2>4 DEF Renewed, Inv, Whole, TitlesWhole, Links0Whole, TmpWhole,
           AllLinks, OutMade, InMade, TableMade, Collections
<1>9. CASE c = "in_links"
    <2>1. pc = 14 /\ pc' = 15 /\ db'["in_links"] = in_links(db["links"])
        BY <1>1, <1>2, <1>9 DEF Made, Rows
    <2>2. \A d \in Collections : d # "in_links" => db'[d] = db[d]
        BY <1>2, <1>9
    <2>3. Kept = {} => InRight(db'["in_links"], LinkedIn(dump))
        BY <1>0, <2>1, LinksOfRight DEF Renewed, Inv, Present, LinksPresent
    <2>4. Present'
        BY <1>2, <2>1, <2>2, <2>3 DEF Renewed, Inv, Present, TitlesPresent, Links0Present, TmpPresent,
           LinksPresent, OutPresent, InPresent, TitlesRight, OutRight, InRight, Collections
    <2>5. QED
        BY <1>2, <1>3, <2>1, <2>2, <2>4 DEF Renewed, Inv, Whole, TitlesWhole, Links0Whole, TmpWhole,
           AllLinks, OutMade, InMade, TableMade, Collections
<1>10. CASE c = "page_links"
    <2>1. /\ pc = 16 /\ pc' = 17
          /\ db'["page_links"] = page_links(db["title_pageid"], db["out_links"], db["in_links"])
        BY <1>1, <1>2, <1>10 DEF Made, Rows
    <2>2. \A d \in Collections : d # "page_links" => db'[d] = db[d]
        BY <1>2, <1>10
    <2>3. Present'
        BY <1>2, <2>1, <2>2 DEF Renewed, Inv, Present, TitlesPresent, Links0Present, TmpPresent,
           LinksPresent, OutPresent, InPresent, TitlesRight, OutRight, InRight, Collections
    <2>4. QED
        BY <1>2, <1>3, <2>1, <2>2, <2>3 DEF Renewed, Inv, Whole, TitlesWhole, Links0Whole, TmpWhole,
           AllLinks, OutMade, InMade, TableMade, Collections
<1>11. QED
    BY <1>4, <1>5, <1>6, <1>7, <1>8, <1>9, <1>10 DEF Collections

LEMMA Invariance == Spec => []Inv
<1>1. Inv /\ [Next]_vars => Inv'
    <2> SUFFICES ASSUME Inv, [Next]_vars PROVE Inv'
        OBVIOUS
    <2>1. ASSUME NEW d \in Dumps, parse(d) PROVE Inv'
        BY <2>1, RestartInv DEF parse
    <2>2. CASE rerun
        BY <2>2, RestartInv DEF rerun, Inv, TypeOK
    <2>3. CASE UNCHANGED vars
        BY <2>3 DEF vars, Inv, TypeOK, Present, TitlesPresent, Links0Present, TmpPresent,
           LinksPresent, OutPresent, InPresent, TitlesRight, OutRight, InRight, Whole,
           TitlesWhole, Links0Whole, TmpWhole, AllLinks, OutMade, InMade, TableMade, pages,
           Renewed, Kept, AllMade
    <2>4. QED
        BY <2>1, <2>2, <2>3, DropInv, AggregateInv, DropFailsInv,
           AggregateFailsInv DEF Next
<1>2. QED
    BY <1>1, InitInv, PTL DEF Spec

(* Every collection has rows of its shape, whatever dumps are parsed and   *)
(* whichever statements of the script fail.                                *)
THEOREM TablesTyped == Spec => []TypeOK
<1>1. Inv => TypeOK
    BY DEF Inv
<1>2. QED
    BY <1>1, Invariance, PTL

(* A run of 2_mongo-processing.js in which every aggregation succeeds      *)
(* leaves exactly the links of its dump, whichever drop() failed.          *)
THEOREM RerunAlwaysExact == Spec => []RerunExact
<1>1. Inv => RerunExact
    <2> SUFFICES ASSUME Inv, Done, AllMade
                 PROVE  db["page_links"] = PageLinksOf(dump)
        BY DEF RerunExact, AllMade
    <2>1. pc = 17 /\ dump \in Dumps
        BY ScriptLength DEF Done, Inv, TypeOK
    <2>2. /\ db["title_pageid"] = title_pageid(pages)
          /\ db["links"] = LinkedIn(dump)
          /\ db["out_links"] = out_links(LinkedIn(dump))
          /\ db["in_links"] = in_links(LinkedIn(dump))
          /\ db["page_links"] = page_links(db["title_pageid"], db["out_links"], db["in_links"])
        BY <2>1 DEF Inv, Whole, AllMade, TitlesWhole, AllLinks, OutMade, InMade, TableMade,
           Collections
    <2>3. LinkedIn(dump) \subseteq PageIds \X PageIds
        BY <2>1, DumpTyped DEF LinkedIn
    <2>4. QED
        BY <2>2, <2>3, OutLinksOf, InLinksOf, PageLinksWhole
<1>2. QED
    BY <1>1, Invariance, PTL

(* One row for a page, also in what an earlier run or dump left. *)
RowsOnce == OneRow(db["title_pageid"]) /\ OneRow(db["page_links"])

LEMMA RowsOnceInvariance == Spec => []RowsOnce
<1>1. Init => RowsOnce
    BY DEF Init, RowsOnce, OneRow, Collections
<1>2. Inv /\ RowsOnce /\ [Next]_vars => RowsOnce'
    <2> SUFFICES ASSUME Inv, RowsOnce, [Next]_vars PROVE RowsOnce'
        OBVIOUS
    <2>1. DOMAIN db = Collections /\ {"title_pageid", "page_links"} \subseteq DOMAIN db
        BY DEF Inv, TypeOK, Collections
    <2>2. CASE drop
        <3>1. \A c \in DOMAIN db : db'[c] = db[c] \/ db'[c] = {}
            BY <2>2 DEF drop
        <3>2. QED
            BY <2>1, <3>1 DEF RowsOnce, OneRow
    <2>3. CASE aggregate
        <3>1. \A c \in DOMAIN db : db'[c] = db[c] \/ db'[c] = Rows(c)
            BY <2>3 DEF aggregate
        <3>2. Rows("title_pageid") = title_pageid(pages)
            BY DEF Rows
        <3>3. Rows("page_links") = page_links(db["title_pageid"], db["out_links"], db["in_links"])
            BY DEF Rows
        <3>4. OneRow(Rows("title_pageid")) /\ OneRow(Rows("page_links"))
            BY <3>2, <3>3, TitlesOnce, PageLinksOnce DEF RowsOnce
        <3>5. QED
            BY <2>1, <3>1, <3>4 DEF RowsOnce
    <2>4. CASE db' = db
        BY <2>4 DEF RowsOnce
    <2>5. QED
        BY <2>2, <2>3, <2>4 DEF Next, parse, drop_fails, aggregate_fails, rerun, vars
<1>3. QED
    BY <1>1, <1>2, Invariance, PTL DEF Spec

(* What is exported has one row per page at any time, and the finished     *)
(* table converse links, unless one of the two steps that group them       *)
(* failed or the table is an earlier run's.                                *)
THEOREM LinksAlwaysConverse == Spec => []LinksConverse
<1>1. Inv /\ RowsOnce => LinksConverse
    <2> SUFFICES ASSUME Inv, Done, "page_links" \notin Kept,
                        {<<"out", "out_links">>, <<"out", "in_links">>} \cap failed = {}
                 PROVE  Converse(db["page_links"])
        BY DEF LinksConverse, RowsOnce
    <2>1. pc = 17 /\ dump \in Dumps /\ db["links"] \subseteq PageIds \X PageIds
        BY ScriptLength DEF Done, Inv, TypeOK
    <2>2. /\ OutOf(db["out_links"], db["links"])
          /\ InOf(db["in_links"], db["links"])
        BY <2>1, OutLinksOf, InLinksOf DEF Inv, OutMade, InMade
    <2>3. \/ db["page_links"] = {}
          \/ db["page_links"] = page_links(db["title_pageid"], db["out_links"], db["in_links"])
        BY <2>1 DEF Inv, TableMade
    <2>4. Converse({})
        BY DEF Converse
    <2>5. QED
        BY <2>2, <2>3, <2>4, PageLinksConverse
<1>2. QED
    BY <1>1, Invariance, RowsOnceInvariance, PTL

(* page_links changes only to nothing, or to rows of the present dump that *)
(* may lack something, as long as no collection is kept: neither a failed  *)
(* drop() alone nor a failed aggregation alone brings in a wrong link.     *)
THEOREM MissingNeverWrong == Spec => MissingNotWrong
<1> DEFINE Grows == db'["page_links"] # db["page_links"] /\ Kept = {} =>
              db'["page_links"] = {} \/ Lacking(db'["page_links"], PageLinksOf(dump))
<1>1. Inv /\ [Next]_vars => Grows \/ UNCHANGED vars
    <2> SUFFICES ASSUME Inv, [Next]_vars, db'["page_links"] # db["page_links"], Kept = {}
                 PROVE  db'["page_links"] = {} \/ Lacking(db'["page_links"], PageLinksOf(dump))
        OBVIOUS
    <2>0. TypeOK
        BY DEF Inv
    <2>1. CASE drop
        BY <2>0, <2>1, DropStep DEF Replaced, Collections
    <2>2. CASE aggregate
        <3>1. PICK c \in Collections : Made(pc, c) /\ Replaced(c, Rows(c))
            BY <2>0, <2>2, AggregateStep
        <3>2. c = "page_links" /\ pc = 16
            BY <3>1 DEF Replaced, Made, Collections
        <3>3. db'["page_links"] =
                 page_links(db["title_pageid"], db["out_links"], db["in_links"])
            BY <3>1, <3>2 DEF Replaced, Rows
        <3>4. /\ db["title_pageid"] \subseteq title_pageid(pages)
              /\ OutRight(db["out_links"], LinkedIn(dump))
              /\ InRight(db["in_links"], LinkedIn(dump))
            BY <3>2 DEF Inv, Present, TitlesPresent, OutPresent, InPresent, Renewed
        <3>5. QED
            BY <3>3, <3>4, PageLinksRight
    <2>3. QED
        BY <2>1, <2>2 DEF Next, parse, drop_fails, aggregate_fails, rerun, vars
<1>2. QED
    BY <1>1, Invariance, PTL DEF Spec, MissingNotWrong
==============================================================================
