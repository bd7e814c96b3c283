--------------------------- MODULE MCWikiRequester ---------------------------
(* WikiRequester for TLC: two articles and a title that is redirected to   *)
(* the first of them.                                                      *)
EXTENDS WikiRequester

CONSTANTS first, second, alias

Redirect == [a \in Articles |-> IF a = alias THEN first ELSE a]

TwoArticles == {c \in [Articles -> SUBSET Keys] : c[alias] = {}}
==============================================================================
