---------------------------- MODULE MCLinkTables -----------------------------
(* LinkTables for TLC: dumps of three pages, two of them with titles that  *)
(* differ only in case.                                                    *)
EXTENDS LinkTables, TLC

ThreePages == 1..3
SomeTitles == {"Foo", "FOO", "bar", "Bar", "gone"}
ToUpper == [t \in SomeTitles |-> CASE t \in {"Foo", "FOO"} -> "FOO"
                                   [] t \in {"bar", "Bar"} -> "BAR"
                                   [] OTHER                -> "GONE"]
BadNames == {"Notes"}
Names == {"Notes", "History"}

Doc(t, r, s, i) == [title |-> t, redirect |-> r, sections |-> s, infoboxes |-> i]

(* The first page has its links in a section that counts or not; the       *)
(* second redirects, to the first, to a spelling of itself or not at all;  *)
(* the third may be missing, and then page_ids are the other way round.    *)
SomeDumps ==
    LET foo(s) == Doc("Foo", NoRedirect, {<<s, "bar">>, <<"History", "gone">>}, {})
        bar(r) == Doc("Bar", r, {}, {"Bar"})
        cap    == Doc("FOO", NoRedirect, {<<"History", "Bar">>}, {"Foo"})
    IN  {1 :> foo("History") @@ 2 :> bar(NoRedirect) @@ 3 :> cap,
         1 :> foo("Notes") @@ 2 :> bar("Foo") @@ 3 :> cap,
         2 :> foo("History") @@ 1 :> bar("bar")}
==============================================================================
