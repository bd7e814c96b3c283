----------------------------- MODULE AnswerLists -----------------------------
(***************************************************************************)
(* The answer of a finished query (get_nested_paths() of                   *)
(* article_network.py): its chains as two trees, one grouped by the places *)
(* nearby and one by the topics.  A tree is a list of [head, tree of the   *)
(* rest]; the order of a list is that of Python's sets, so a list is a set *)
(* of pairs here.                                                          *)
(***************************************************************************)
EXTENDS ArticleNetwork, SequencesExt

(* A chain, or what is left of it below a branch. *)
Lists == {<<>>} \cup Paths

(* temp_dict: the heads of lists, and the rests of those with head h. *)
Heads(lols) == {Head(l) : l \in lols \ {<<>>}}
Rests(lols, h) == {Tail(l) : l \in {k \in lols \ {<<>>} : Head(k) = h}}

(* dod_to_nestedlists(lols_to_dods(..)): lists with the same head share a  *)
(* branch, written as [head, tree of their rests]; an empty rest leaves    *)
(* nothing.                                                                *)
nestedlists[lols \in SUBSET Lists] ==
    {<<h, nestedlists[Rests(lols, h)]>> : h \in Heads(lols)}

found == UNION {all_paths[t] : t \in DOMAIN all_paths}

nested_lists_by_nearby == nestedlists[found]
nested_lists_by_topic == nestedlists[{Reverse(p) : p \in found}]
------------------------------------------------------------------------------
(* The trees of lists of up to three articles, and the chains one reads    *)
(* off a tree, from the root to the leaves.                                *)
Branches(rests) == SUBSET (Articles \X rests)
Trees == Branches(Branches(Branches({{}})))

After(h, chains) == {<<h>> \o c : c \in chains}

Chains[tree \in Trees] ==
    IF tree = {} THEN {<<>>} ELSE UNION {After(b[1], Chains[b[2]]) : b \in tree}

Read(tree) == Chains[tree] \ {<<>>}

(* The two menus group the same chains: nothing that was found is lost in  *)
(* either tree, because a chain never runs on past a seed.  The exception  *)
(* is a place that is a topic itself (a chain of one article): it shows    *)
(* only where it heads no longer chain.                                    *)
Longer(S) == {c \in S : Len(c) > 1}

GroupingsAgree ==
    /\ Longer(Read(nested_lists_by_nearby)) = Longer(found)
    /\ {Reverse(c) : c \in Longer(Read(nested_lists_by_topic))} = Longer(found)
    /\ \A c \in found \ Longer(found) :
          c \in Read(nested_lists_by_nearby) \/ \E d \in Longer(found) : d[1] = c[1]

(* The page announces failure exactly when it has nothing to list. *)
StatusTellsLists ==
    step = "done" =>
        /\ path_status = "has_paths" <=> nested_lists_by_nearby # {}
        /\ path_status = "has_paths" <=> nested_lists_by_topic # {}
==============================================================================
