----------------------------- MODULE TopicSample -----------------------------
(***************************************************************************)
(* The topics of a page whose form nobody edits: default_topics.js fills   *)
(* it with a sample that is cut to a number of characters, and a click     *)
(* reads it back (readTopicForm in main_search.js).  A text is a sequence  *)
(* of characters; that of a topic t is Length[t] characters t, with a      *)
(* space at the positions Gaps[t], between its words.                      *)
(***************************************************************************)
EXTENDS Integers, SequencesExt

CONSTANTS
    Topics,                  \* DEFAULT_TOPICS
    Length, Gaps,
    maxTopics,
    CharLimits               \* values for maxChars

Semicolon == "semicolon"
Space == "space"
Underscore == "underscore"

ASSUME TopicsAssumption ==
    IsFiniteSet(Topics) /\ Topics \cap {Semicolon, Space, Underscore} = {}
(* readTopicForm drops topics of one character. *)
ASSUME LengthAssumption == Length \in [Topics -> Nat \ {0, 1}]
ASSUME GapsAssumption == \A t \in Topics : Gaps[t] \subseteq 2..(Length[t] - 1)
ASSUME LimitsAssumption == maxTopics \in Nat /\ CharLimits \subseteq Nat

VARIABLES
    shuffled,                \* the topics as sort() left them
    maxChars,
    form,                    \* the text of the form
    sent                     \* the topics of each search

formVars == <<shuffled, maxChars, form, sent>>

Spelt(t) == [i \in 1..Length[t] |-> IF i \in Gaps[t] THEN Space ELSE t]

(* join("; "), of the first k of the topics ts. *)
join(ts) ==
    LET text[k \in Nat] == IF k = 0 THEN <<>>
                           ELSE IF k = 1 THEN Spelt(ts[1])
                           ELSE text[k - 1] \o <<Semicolon, Space>> \o Spelt(ts[k])
    IN  text

slice(s, from, to) == SubSeq(s, from + 1, IF to < Len(s) THEN to ELSE Len(s))

(* The first one is left out. *)
topics == slice(shuffled, 1, maxTopics + 1)

Separators(text) ==
    {p \in 1..(Len(text) - 1) : text[p] = Semicolon /\ text[p + 1] = Space}

(* Faulty variant: cuts, and leaves the rest of a topic. *)
formatSampleOfTopics_cut == slice(join(topics)[Len(topics)], 0, maxChars)

(* Faulty variant: always drops the last topic. *)
formatSampleOfTopics_drop ==
    LET cut == slice(join(topics)[Len(topics)], 0, maxChars) IN
    slice(cut, 0, Max(Separators(cut) \cup {1}) - 1)

(* Too long a text is cut, and loses what follows its last separator.      *)
formatSampleOfTopics ==
    LET outString == join(topics)[Len(topics)]
        cut == slice(outString, 0, maxChars)
    IN  IF Len(outString) <= maxChars THEN outString
        ELSE slice(cut, 0, Max(Separators(cut) \cup {1}) - 1)

trim(text) ==
    LET ink == {p \in DOMAIN text : text[p] # Space} IN
    IF ink = {} THEN <<>> ELSE SubSeq(text, Min(ink), Max(ink))

(* split(" ").join("_") *)
underscored(text) == [i \in DOMAIN text |-> IF text[i] = Space THEN Underscore ELSE text[i]]

(* The pieces between semicolons, as the positions around them. *)
Pieces(text) ==
    LET ends == {0, Len(text) + 1} \cup {p \in DOMAIN text : text[p] = Semicolon} IN
    {e \in ends \X ends : e[1] < e[2] /\ \A p \in ends : ~(e[1] < p /\ p < e[2])}

(* The pieces, trimmed and with underscores, but those of a single          *)
(* character; a set, as which set_topics and add_topics take it.           *)
readTopicForm ==
    {t \in {underscored(trim(SubSeq(form, e[1] + 1, e[2] - 1))) : e \in Pieces(form)} :
        Len(t) > 1}

(* The page is loaded. *)
FormInit ==
    /\ shuffled \in SetToSeqs(Topics)
    /\ maxChars \in CharLimits
    /\ form = formatSampleOfTopics
    /\ sent = {}

reload ==
    /\ UNCHANGED maxChars
    /\ shuffled' \in SetToSeqs(Topics)
    /\ form' = formatSampleOfTopics'
    /\ sent' = {}

click ==
    /\ sent' = sent \cup {readTopicForm}
    /\ UNCHANGED <<shuffled, maxChars, form>>

FormNext == reload \/ click

FormSpec == FormInit /\ [][FormNext]_formVars

-----------------------------------------------------------------------------
(* The title of an article in a URL. *)
Title(t) == [i \in 1..Length[t] |-> IF i \in Gaps[t] THEN Underscore ELSE t]

(* What a search sends are titles of whole topics, the first ones of the   *)
(* sample and none of them left out, however the text was cut.             *)
TopicsWhole ==
    \A s \in sent : \E k \in 0..Len(topics) : s = {Title(topics[i]) : i \in 1..k}

(* The sample loses no topic without need: all are in the form, or the     *)
(* next one and the separator behind it do not fit.  (A topic that fits    *)
(* without its separator is lost.)                                         *)
LosesFew ==
    \E k \in 0..Len(topics) :
        /\ form = join(topics)[k]
        /\ Len(form) <= maxChars
        /\ k < Len(topics) => Len(join(topics)[k + 1]) + 2 > maxChars
==============================================================================
