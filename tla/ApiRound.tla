------------------------------- MODULE ApiRound -------------------------------
(***************************************************************************)
(* What a query may count on when it asks Wikipedia about some titles in   *)
(* one round (get_payload() of wikidata_interfaces.py): one reply, of      *)
(* entries the articles had at some time since it asked, and of all they   *)
(* had all the time, but for titles that were lost on the way.  This is    *)
(* the step that ArticleNetwork takes for a round.                         *)
(***************************************************************************)
EXTENDS Naturals

CONSTANTS Articles, Keys, Resolve, Contents

VARIABLES
    content,                 \* Wikipedia now
    ever, always,            \* entries it had at some time, all the time, so far
    asked,                   \* the titles of the round
    lost,                    \* those that an error body cut short
    reply,                   \* what came back
    status                   \* "open", "done" or "failed"

vars == <<content, ever, always, asked, lost, reply, status>>

Entries == {e \in Articles \X Keys : Resolve[e[1]] = e[1]}
EntriesOf(c) == {e \in Entries : e[2] \in c[e[1]]}
Of(titles, S) == {e \in S : \E t \in titles : e[1] = Resolve[t]}

Init ==
    /\ content \in Contents
    /\ ever = EntriesOf(content) /\ always = EntriesOf(content)
    /\ asked \subseteq Articles
    /\ lost = {} /\ reply = {}
    /\ status = "open"

edit ==
    /\ status = "open"
    /\ \E e \in Entries :
         /\ content' = [content EXCEPT ![e[1]] = (@ \cup {e[2]}) \ (@ \cap {e[2]})]
         /\ ever' = ever \cup {e}
         /\ always' = always \ {e}
    /\ UNCHANGED <<asked, lost, reply, status>>

lose ==
    /\ status = "open"
    /\ \E t \in asked : lost' = lost \cup {t}
    /\ UNCHANGED <<content, ever, always, asked, reply, status>>

answer ==
    /\ status = "open" /\ status' = "done"
    /\ reply' \subseteq Of(asked, ever)
    /\ Of(asked \ lost, always) \subseteq reply'
    /\ UNCHANGED <<content, ever, always, asked, lost>>

fail ==
    /\ status = "open" /\ status' = "failed"
    /\ UNCHANGED <<content, ever, always, asked, lost, reply>>

Next == edit \/ lose \/ answer \/ fail

Spec == Init /\ [][Next]_vars
==============================================================================
