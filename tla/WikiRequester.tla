---------------------------- MODULE WikiRequester ----------------------------
(***************************************************************************)
(* BaseRequester (tourguide_flaskapp/wikidata_interfaces.py): get_payload()*)
(* asks Wikipedia's API for the entries of one title after the other.  An  *)
(* answer that is not complete comes with a continue string, the key of    *)
(* the entry to go on with, which the next request hands back.             *)
(*                                                                         *)
(* The requests of all titles are made from one dictionary, params, so     *)
(* that a continue string must not outlive its title.  Wikipedia may be    *)
(* edited between any two requests, and a request may raise or be answered *)
(* with an error body, which is read as an empty last batch.               *)
(***************************************************************************)
EXTENDS Integers, FiniteSets

CONSTANTS
    Articles,
    Keys,                    \* what orders the entries of an article
    Resolve,                 \* the article a title is answered under
    Contents,                \* the Wikipedias to start from
    Limit,                   \* the most entries in an answer
    MaxEdits                 \* bound: edits while the payload is fetched

ASSUME KeysAssumption == Keys \subseteq Nat \ {0}
ASSUME ResolveAssumption ==
    /\ Resolve \in [Articles -> Articles]
    /\ \A a \in Articles : Resolve[Resolve[a]] = Resolve[a]
ASSUME ContentsAssumption == Contents \subseteq [Articles -> SUBSET Keys]
ASSUME LimitAssumption == Limit \in Nat \ {0}
ASSUME RequesterEditsAssumption == MaxEdits \in Nat

NoContinue == 0              \* None, or a missing field

Entries == {e \in Articles \X Keys : Resolve[e[1]] = e[1]}
EntriesOf(c) == {e \in Entries : e[2] \in c[e[1]]}
Under(t, S) == {e \in S : e[1] = Resolve[t]}

VARIABLES
    content,      \* Wikipedia now: the keys of every article's entries
    ever, always, \* entries it had at some time, all the time, so far
    edits,        \* edits so far
    page_titles,  \* the argument of get_payload()
    todo,         \* the titles the loop has not reached
    params,       \* the title and the continue string of the next request
    link_list,    \* the entries of the title so far
    results,      \* the entries of earlier titles
    complete,     \* titles that ended with a last batch
    cut,          \* titles that ended with an error body
    pc            \* where get_payload() is

wikipedia == <<content, ever, always, edits>>
vars == <<wikipedia, page_titles, todo, params, link_list, results, complete, cut, pc>>

TypeOK ==
    /\ content \in [Articles -> SUBSET Keys]
    /\ ever \subseteq Entries
    /\ always \subseteq Entries
    /\ edits \in 0 .. MaxEdits
    /\ page_titles \subseteq Articles
    /\ todo \subseteq page_titles
    /\ params.titles \in page_titles \cup {"titles"}
    /\ params.cont \in Keys \cup {NoContinue}
    /\ link_list \subseteq Entries
    /\ results \subseteq Entries
    /\ complete \subseteq page_titles
    /\ cut \subseteq page_titles
    /\ pc \in {"next_title", "asking", "waiting", "done", "failed"}

(* params has no title yet. *)
INIT_PARAMS == [titles |-> "titles", cont |-> NoContinue]

Init ==
    /\ content \in Contents
    /\ ever = EntriesOf(content)
    /\ always = EntriesOf(content)
    /\ edits = 0
    /\ page_titles \in SUBSET Articles
    /\ todo = page_titles
    /\ params = INIT_PARAMS
    /\ link_list = {}
    /\ results = {}
    /\ complete = {}
    /\ cut = {}
    /\ pc = "next_title"

(* Faulty variant: the continue string of the title before stays. *)
next_title_keeps_continue ==
    /\ pc = "next_title"
    /\ \E t \in todo : todo' = todo \ {t} /\ params' = [params EXCEPT !.titles = t]
    /\ link_list' = {}
    /\ pc' = "asking"
    /\ UNCHANGED <<wikipedia, page_titles, results, complete, cut>>

(* The head of the loop in get_payload(). *)
next_title ==
    /\ pc = "next_title"
    /\ \E t \in todo : todo' = todo \ {t} /\ params' = [titles |-> t, cont |-> NoContinue]
    /\ link_list' = {}
    /\ pc' = "asking"
    /\ UNCHANGED <<wikipedia, page_titles, results, complete, cut>>

return_results ==
    /\ pc = "next_title"
    /\ todo = {}
    /\ pc' = "done"
    /\ UNCHANGED <<wikipedia, page_titles, todo, params, link_list, results, complete, cut>>

(* session.get() sends the request that params describes. *)
get ==
    /\ pc = "asking"
    /\ pc' = "waiting"
    /\ UNCHANGED <<wikipedia, page_titles, todo, params, link_list, results, complete, cut>>

(* The entries from the continue string on: the answer has those before    *)
(* the next continue string, at most Limit, and at least one if it goes on.*)
Remaining == {k \in content[Resolve[params.titles]] : k >= params.cont}
BatchBefore(next) == {k \in Remaining : next = NoContinue \/ k < next}

MayAnswer(next) ==
    /\ next \in Remaining \cup {NoContinue}
    /\ Cardinality(BatchBefore(next)) <= Limit
    /\ next # NoContinue => BatchBefore(next) # {}

(* Faulty variant: entries go under the title asked for. *)
parse_response_asked(batch) == {params.titles} \X batch

(* Entries go under the title of the answer. *)
parse_response(batch) == {Resolve[params.titles]} \X batch

end_title(links) ==
    /\ results' = results \cup links
    /\ pc' = "next_title"
    /\ UNCHANGED params

(* Faulty variant: every request is the first. *)
answer_same(next) ==
    /\ pc = "waiting" /\ MayAnswer(next)
    /\ link_list' = link_list \cup parse_response(BatchBefore(next))
    /\ IF next = NoContinue
       THEN end_title(link_list') /\ complete' = complete \cup {params.titles}
       ELSE pc' = "asking" /\ UNCHANGED <<params, results, complete>>
    /\ UNCHANGED <<wikipedia, page_titles, todo, cut>>

(* The response in _get_api_responses(): the title ends or goes on. *)
answer(next) ==
    /\ pc = "waiting" /\ MayAnswer(next)
    /\ link_list' = link_list \cup parse_response(BatchBefore(next))
    /\ IF next = NoContinue
       THEN end_title(link_list') /\ complete' = complete \cup {params.titles}
       ELSE /\ params' = [params EXCEPT !.cont = next]
            /\ pc' = "asking"
            /\ UNCHANGED <<results, complete>>
    /\ UNCHANGED <<wikipedia, page_titles, todo, cut>>

(* A body without "query" and "continue". *)
error_body ==
    /\ pc = "waiting"
    /\ end_title(link_list)
    /\ cut' = cut \cup {params.titles}
    /\ UNCHANGED <<wikipedia, page_titles, todo, link_list, complete>>

(* requests or resp.json() raises: the payload is lost. *)
raise ==
    /\ pc = "waiting"
    /\ pc' = "failed"
    /\ UNCHANGED <<wikipedia, page_titles, todo, params, link_list, results, complete, cut>>

(* An edit of Wikipedia adds an entry or removes it. *)
edit(e) ==
    /\ pc \in {"next_title", "asking", "waiting"}
    /\ edits < MaxEdits
    /\ edits' = edits + 1
    /\ content' = [content EXCEPT ![e[1]] = (@ \cup {e[2]}) \ (@ \cap {e[2]})]
    /\ ever' = ever \cup {e}
    /\ always' = always \ {e}
    /\ UNCHANGED <<page_titles, todo, params, link_list, results, complete, cut, pc>>

Next ==
    \/ next_title
    \/ return_results
    \/ get
    \/ \E next \in Keys \cup {NoContinue} : answer(next)
    \/ error_body
    \/ raise
    \/ \E e \in Entries : edit(e)

Spec == Init /\ [][Next]_vars

(* The loop goes on, and the API answers what it is asked: there is no     *)
(* timeout in the code that would replace an answer.                       *)
Fairness ==
    /\ WF_vars(next_title \/ return_results \/ get)
    /\ WF_vars((\E next \in Keys \cup {NoContinue} : answer(next)) \/ error_body \/ raise)

FairSpec == Spec /\ Fairness
------------------------------------------------------------------------------
(* Properties. *)

(* Whatever happened to other titles (answers in any number of batches, an *)
(* error body in the middle), a title that ended with a last batch has all *)
(* the entries that were there all the time; and a payload that returns    *)
(* has been through all its titles.                                        *)
TitlesComplete ==
    /\ \A t \in complete : Under(t, always) \subseteq results
    /\ pc = "done" => complete \cup cut = page_titles

(* Nothing is attributed to an article that it did not have at some time   *)
(* since the payload began, nor to one that was not asked for.             *)
ResultsReal ==
    results \cup link_list \subseteq UNION {Under(t, ever) : t \in page_titles \ todo}

(* With an API that answers, a payload ends: no continuation goes on       *)
(* forever, though Wikipedia changes under it.                             *)
PayloadEnds == <>(pc \in {"done", "failed"})

(* Titles, batches, continue strings and error bodies together are one     *)
(* round of ApiRound: its reply is the returned list.                      *)
Round == INSTANCE ApiRound WITH
    asked <- page_titles,
    lost <- cut,
    reply <- IF pc = "done" THEN results ELSE {},
    status <- IF pc \in {"done", "failed"} THEN pc ELSE "open"

ImplementsApiRound == Round!Spec
==============================================================================
