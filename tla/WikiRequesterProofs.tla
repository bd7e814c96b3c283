------------------------- MODULE WikiRequesterProofs -------------------------
(***************************************************************************)
(* Theorems about WikiRequester for any articles, titles, batches and      *)
(* edits: its type invariant, that titles are complete, that results are   *)
(* real, and that a payload is one round of ApiRound.                      *)
(***************************************************************************)
EXTENDS WikiRequester, TLAPS

(* What was there all the time is there now; what is there now was there.  *)
AlwaysNowEver == always \subseteq EntriesOf(content) /\ EntriesOf(content) \subseteq ever

(* The loop body has a title of the payload. *)
InTitle == pc \in {"asking", "waiting"}

AskingTitle == InTitle => params.titles \in page_titles \ todo

(* Where a title is going on, the entries before its continue string have  *)
(* arrived: why a continue string must not outlive its title.              *)
Caught ==
    InTitle =>
        \A e \in Under(params.titles, always) : e[2] < params.cont => e \in link_list

Accounted ==
    /\ pc = "next_title" => page_titles = todo \cup complete \cup cut
    /\ InTitle => page_titles = todo \cup complete \cup cut \cup {params.titles}
    /\ pc = "done" => page_titles = complete \cup cut

Inv ==
    /\ TypeOK
    /\ AlwaysNowEver
    /\ AskingTitle
    /\ Caught
    /\ Accounted
    /\ TitlesComplete
    /\ ResultsReal
------------------------------------------------------------------------------
LEMMA EntryKey == ASSUME NEW e \in Entries PROVE e[2] \in Nat
<1>1. e[2] \in Keys
    BY DEF Entries
<1>2. QED
    BY <1>1, KeysAssumption

LEMMA InitInv == Init => Inv
<1> SUFFICES ASSUME Init PROVE Inv
    OBVIOUS
<1>1. content \in [Articles -> SUBSET Keys]
    BY ContentsAssumption DEF Init
<1>2. TypeOK
    BY <1>1, RequesterEditsAssumption DEF Init, TypeOK, EntriesOf, INIT_PARAMS
<1>3. AlwaysNowEver /\ AskingTitle /\ Caught /\ Accounted
    BY DEF Init, AlwaysNowEver, AskingTitle, Caught, Accounted, InTitle
<1>4. TitlesComplete /\ ResultsReal
    BY DEF Init, TitlesComplete, ResultsReal
<1>5. QED
    BY <1>2, <1>3, <1>4 DEF Inv

LEMMA NextTitleInv == Inv /\ next_title => Inv'
<1> SUFFICES ASSUME Inv, next_title PROVE Inv'
    OBVIOUS
<1>1. PICK t \in todo : todo' = todo \ {t} /\ params' = [titles |-> t, cont |-> NoContinue]
    BY DEF next_title
<1>2. /\ pc = "next_title" /\ pc' = "asking" /\ link_list' = {}
      /\ UNCHANGED <<content, ever, always, edits, page_titles, results, complete, cut>>
    BY DEF next_title, wikipedia
<1>3. params'.titles = t /\ params'.cont = NoContinue /\ t \in page_titles
    BY <1>1 DEF Inv, TypeOK
<1>4. TypeOK'
    BY <1>1, <1>2, <1>3 DEF Inv, TypeOK
<1>5. AlwaysNowEver' /\ AskingTitle' /\ Accounted'
    BY <1>1, <1>2, <1>3 DEF Inv, AlwaysNowEver, EntriesOf, AskingTitle, Accounted, InTitle
<1>6. Caught'
    <2>1. \A e \in Entries : ~(e[2] < NoContinue)
        BY EntryKey DEF NoContinue
    <2>2. Under(t, always) \subseteq Entries
        BY DEF Under, Inv, TypeOK
    <2>3. QED
        BY <1>2, <1>3, <2>1, <2>2 DEF Caught, Under, InTitle
<1>7. TitlesComplete' /\ ResultsReal'
    BY <1>1, <1>2 DEF Inv, TitlesComplete, ResultsReal, Under
<1>8. QED
    BY <1>4, <1>5, <1>6, <1>7 DEF Inv

LEMMA ReturnInv == Inv /\ return_results => Inv'
<1> SUFFICES ASSUME Inv, return_results PROVE Inv'
    OBVIOUS
<1>1. /\ pc = "next_title" /\ pc' = "done" /\ todo = {}
      /\ UNCHANGED <<content, ever, always, edits, page_titles, todo, params, link_list,
                     results, complete, cut>>
    BY DEF return_results, wikipedia
<1>2. TypeOK' /\ AlwaysNowEver' /\ AskingTitle' /\ Caught'
    BY <1>1 DEF Inv, TypeOK, AlwaysNowEver, EntriesOf, AskingTitle, Caught, InTitle
<1>3. Accounted' /\ TitlesComplete' /\ ResultsReal'
    BY <1>1 DEF Inv, Accounted, TitlesComplete, ResultsReal, Under, InTitle
<1>4. QED
    BY <1>2, <1>3 DEF Inv

(* A batch has the title's entries before the next continue string, and    *)
(* only such as are there now.                                             *)
LEMMA BatchFacts ==
    ASSUME Inv, pc = "waiting", NEW next \in Keys \cup {NoContinue}
    PROVE  LET t == params.titles
               B == parse_response(BatchBefore(next)) IN
           /\ B \subseteq Under(t, EntriesOf(content))
           /\ \A e \in Under(t, always) :
                 next = NoContinue \/ e[2] < next => e \in link_list \cup B
<1> DEFINE t == params.titles
<1>1. t \in Articles /\ Resolve[t] \in Articles /\ Resolve[Resolve[t]] = Resolve[t]
    BY ResolveAssumption DEF Inv, TypeOK, AskingTitle, InTitle
<1>2. BatchBefore(next) \subseteq content[Resolve[t]] /\ content[Resolve[t]] \subseteq Keys
    BY <1>1 DEF BatchBefore, Remaining, Inv, TypeOK
<1>3. parse_response(BatchBefore(next)) \subseteq Under(t, EntriesOf(content))
    BY <1>1, <1>2 DEF parse_response, Under, EntriesOf, Entries
<1>4. ASSUME NEW e \in Under(t, always), next = NoContinue \/ e[2] < next
      PROVE  e \in link_list \cup parse_response(BatchBefore(next))
    <2>1. e \in Entries /\ e[1] = Resolve[t] /\ e[2] \in content[Resolve[t]]
        BY DEF Under, Inv, AlwaysNowEver, EntriesOf
    <2>2. e[2] \in Nat /\ params.cont \in Nat
        <3>1. e[2] \in Nat
            BY <2>1, EntryKey
        <3>2. params.cont \in Keys \cup {NoContinue}
            BY DEF Inv, TypeOK
        <3>3. Keys \cup {NoContinue} \subseteq Nat
            BY KeysAssumption DEF NoContinue
        <3>4. QED
            BY <3>1, <3>2, <3>3, Zenon
    <2>3. CASE e[2] < params.cont
        BY <2>3 DEF Inv, Caught, InTitle
    <2>4. CASE e[2] >= params.cont
        <3>1. e[2] \in BatchBefore(next)
            BY <1>4, <2>1, <2>4 DEF BatchBefore, Remaining
        <3>2. e = <<e[1], e[2]>>
            BY <2>1 DEF Entries
        <3>3. QED
            BY <2>1, <3>1, <3>2 DEF parse_response
    <2>5. QED
        BY <2>2, <2>3, <2>4
<1>5. QED
    BY <1>3, <1>4

LEMMA AnswerInv ==
    ASSUME NEW next \in Keys \cup {NoContinue} PROVE Inv /\ answer(next) => Inv'
<1> SUFFICES ASSUME Inv, answer(next) PROVE Inv'
    OBVIOUS
<1> DEFINE t == params.titles
           B == parse_response(BatchBefore(next))
<1>1. /\ pc = "waiting" /\ link_list' = link_list \cup B
      /\ UNCHANGED <<content, ever, always, edits, page_titles, todo, cut>>
    BY DEF answer, wikipedia
<1>2. /\ B \subseteq Under(t, EntriesOf(content))
      /\ \A e \in Under(t, always) : next = NoContinue \/ e[2] < next => e \in link_list'
    BY <1>1, BatchFacts
<1>3. t \in page_titles \ todo
    BY <1>1 DEF Inv, AskingTitle, InTitle
<1> HIDE DEF B
<1>4. B \subseteq Entries /\ B \subseteq Under(t, ever)
    BY <1>2 DEF Under, EntriesOf, Inv, AlwaysNowEver
<1>5. AlwaysNowEver'
    BY <1>1 DEF Inv, AlwaysNowEver, EntriesOf
<1>6. link_list' \subseteq UNION {Under(u, ever) : u \in page_titles \ todo}
    BY <1>1, <1>3, <1>4 DEF Inv, ResultsReal
<1>7. CASE next = NoContinue
    <2>1. /\ results' = results \cup link_list' /\ pc' = "next_title"
          /\ params' = params /\ complete' = complete \cup {t}
        BY <1>7 DEF answer, end_title
    <2>2. TypeOK'
        BY <1>1, <1>3, <1>4, <2>1 DEF Inv, TypeOK
    <2>3. AskingTitle' /\ Caught' /\ Accounted'
        BY <1>1, <2>1 DEF Inv, AskingTitle, Caught, Accounted, InTitle
    <2>4. Under(t, always) \subseteq results'
        BY <1>2, <1>7, <2>1
    <2>5. TitlesComplete'
        BY <1>1, <2>1, <2>4 DEF Inv, TitlesComplete, Under
    <2>6. ResultsReal'
        BY <1>1, <1>6, <2>1 DEF Inv, ResultsReal, Under
    <2>7. QED
        BY <1>5, <2>2, <2>3, <2>5, <2>6 DEF Inv
<1>8. CASE next # NoContinue
    <2>1. /\ params' = [params EXCEPT !.cont = next]
          /\ pc' = "asking" /\ UNCHANGED <<results, complete>>
        BY <1>8 DEF answer
    <2>2. params'.titles = t /\ params'.cont = next
        BY <2>1 DEF Inv, TypeOK
    <2>3. TypeOK'
        BY <1>1, <1>4, <2>1, <2>2 DEF Inv, TypeOK
    <2>4. AskingTitle' /\ Accounted' /\ TitlesComplete'
        BY <1>1, <1>3, <2>1, <2>2 DEF Inv, AskingTitle, Accounted, TitlesComplete, Under, InTitle
    <2>5. Caught'
        BY <1>1, <1>2, <2>2 DEF Caught, Under, InTitle
    <2>6. ResultsReal'
        BY <1>1, <1>6, <2>1 DEF Inv, ResultsReal, Under
    <2>7. QED
        BY <1>5, <2>3, <2>4, <2>5, <2>6 DEF Inv
<1>9. QED
    BY <1>7, <1>8

LEMMA ErrorBodyInv == Inv /\ error_body => Inv'
<1> SUFFICES ASSUME Inv, error_body PROVE Inv'
    OBVIOUS
<1>1. /\ pc = "waiting" /\ pc' = "next_title" /\ results' = results \cup link_list
      /\ cut' = cut \cup {params.titles}
      /\ UNCHANGED <<content, ever, always, edits, page_titles, todo, params, link_list, complete>>
    BY DEF error_body, end_title, wikipedia
<1>2. params.titles \in page_titles
    BY <1>1 DEF Inv, AskingTitle, InTitle
<1>3. TypeOK'
    BY <1>1, <1>2 DEF Inv, TypeOK
<1>4. AlwaysNowEver' /\ AskingTitle' /\ Caught' /\ Accounted'
    BY <1>1 DEF Inv, AlwaysNowEver, EntriesOf, AskingTitle, Caught, Accounted, InTitle
<1>5. TitlesComplete' /\ ResultsReal'
    BY <1>1 DEF Inv, TitlesComplete, ResultsReal, Under
<1>6. QED
    BY <1>3, <1>4, <1>5 DEF Inv

LEMMA GetInv == Inv /\ get => Inv'
<1> SUFFICES ASSUME Inv, get PROVE Inv'
    OBVIOUS
<1>1. /\ pc = "asking" /\ pc' = "waiting"
      /\ UNCHANGED <<content, ever, always, edits, page_titles, todo, params, link_list,
                     results, complete, cut>>
    BY DEF get, wikipedia
<1>2. TypeOK' /\ AlwaysNowEver' /\ AskingTitle' /\ Caught' /\ Accounted'
    BY <1>1 DEF Inv, TypeOK, AlwaysNowEver, EntriesOf, AskingTitle, Caught, Accounted, InTitle
<1>3. TitlesComplete' /\ ResultsReal'
    BY <1>1 DEF Inv, TitlesComplete, ResultsReal, Under
<1>4. QED
    BY <1>2, <1>3 DEF Inv

LEMMA RaiseInv == Inv /\ raise => Inv'
<1> SUFFICES ASSUME Inv, raise PROVE Inv'
    OBVIOUS
<1>1. /\ pc' = "failed"
      /\ UNCHANGED <<content, ever, always, edits, page_titles, todo, params, link_list,
                     results, complete, cut>>
    BY DEF raise, wikipedia
<1>2. TypeOK' /\ AlwaysNowEver' /\ AskingTitle' /\ Caught' /\ Accounted'
    BY <1>1 DEF Inv, TypeOK, AlwaysNowEver, EntriesOf, AskingTitle, Caught, Accounted, InTitle
<1>3. TitlesComplete' /\ ResultsReal'
    BY <1>1 DEF Inv, TitlesComplete, ResultsReal, Under
<1>4. QED
    BY <1>2, <1>3 DEF Inv

LEMMA EditInv == ASSUME NEW e \in Entries PROVE Inv /\ edit(e) => Inv'
<1> SUFFICES ASSUME Inv, edit(e) PROVE Inv'
    OBVIOUS
<1>1. /\ ever' = ever \cup {e} /\ always' = always \ {e} /\ pc \in {"next_title", "asking", "waiting"}
      /\ UNCHANGED <<page_titles, todo, params, link_list, results, complete, cut, pc>>
    BY DEF edit
<1>2. e[1] \in Articles /\ e[2] \in Keys /\ e = <<e[1], e[2]>>
    BY DEF Entries
<1>3. content' = [content EXCEPT ![e[1]] = (@ \cup {e[2]}) \ (@ \cap {e[2]})]
    BY DEF edit
<1>4. /\ content' \in [Articles -> SUBSET Keys]
      /\ \A a \in Articles : /\ content[a] \ (IF a = e[1] THEN {e[2]} ELSE {}) \subseteq content'[a]
                             /\ content'[a] \subseteq content[a] \cup (IF a = e[1] THEN {e[2]} ELSE {})
    BY <1>2, <1>3 DEF Inv, TypeOK
<1>5. edits' \in 0 .. MaxEdits
    BY RequesterEditsAssumption DEF edit, Inv, TypeOK
<1>6. TypeOK'
    BY <1>1, <1>4, <1>5 DEF Inv, TypeOK
<1>7. AlwaysNowEver'
    <2>1. \A f \in Entries : f[1] \in Articles /\ f = <<f[1], f[2]>>
        BY DEF Entries
    <2>2. always' \subseteq EntriesOf(content')
        BY <1>1, <1>2, <1>4, <2>1 DEF Inv, AlwaysNowEver, EntriesOf
    <2>3. EntriesOf(content') \subseteq ever'
        BY <1>1, <1>2, <1>4, <2>1 DEF Inv, AlwaysNowEver, EntriesOf
    <2>4. QED
        BY <2>2, <2>3 DEF AlwaysNowEver, EntriesOf
<1>8. AskingTitle' /\ Caught' /\ Accounted'
    BY <1>1 DEF Inv, AskingTitle, Caught, Accounted, Under, InTitle
<1>9. TitlesComplete' /\ ResultsReal'
    BY <1>1 DEF Inv, TitlesComplete, ResultsReal, Under
<1>10. QED
    BY <1>6, <1>7, <1>8, <1>9 DEF Inv

LEMMA StutterInv == Inv /\ UNCHANGED vars => Inv'
BY DEF Inv, TypeOK, AlwaysNowEver, EntriesOf, AskingTitle, Caught, Accounted, InTitle,
       TitlesComplete, ResultsReal, Under, vars, wikipedia
------------------------------------------------------------------------------
(* The theorems. *)

LEMMA NextInv == Inv /\ [Next]_vars => Inv'
BY NextTitleInv, ReturnInv, GetInv, AnswerInv, ErrorBodyInv, RaiseInv, EditInv, StutterInv DEF Next

LEMMA Invariance == Spec => []Inv
BY InitInv, NextInv, PTL DEF Spec

(* Every variable has its type: in particular, params has a title of the   *)
(* payload and a continue string the API gave.                             *)
THEOREM RequesterTyped == Spec => []TypeOK
<1>1. Inv => TypeOK
    BY DEF Inv
<1>2. QED
    BY <1>1, Invariance, PTL

(* get_payload() leaves out no entry of a title that ended with a last     *)
(* batch, however the batches fell and whatever went wrong with others.    *)
THEOREM TitlesAlwaysComplete == Spec => []TitlesComplete
<1>1. Inv => TitlesComplete
    BY DEF Inv
<1>2. QED
    BY <1>1, Invariance, PTL

(* get_payload() attributes nothing to an article that it never had.       *)
THEOREM ResultsAlwaysReal == Spec => []ResultsReal
<1>1. Inv => ResultsReal
    BY DEF Inv
<1>2. QED
    BY <1>1, Invariance, PTL
------------------------------------------------------------------------------
(* The refinement: a round is open while the loop runs, and its reply      *)
(* appears as get_payload() returns.                                       *)
Open == pc \in {"next_title", "asking", "waiting"}

LEMMA SameEntries ==
    /\ Round!Entries = Entries
    /\ Round!EntriesOf(content) = EntriesOf(content)
    /\ \A T, S : Round!Of(T, S) = UNION {Under(t, S) : t \in T}
<1>1. Round!Entries = Entries
    BY DEF Round!Entries, Entries
<1>2. Round!EntriesOf(content) = EntriesOf(content)
    BY <1>1 DEF Round!EntriesOf, EntriesOf
<1>3. \A T, S : Round!Of(T, S) = UNION {Under(t, S) : t \in T}
    BY DEF Round!Of, Under
<1>4. QED
    BY <1>1, <1>2, <1>3

LEMMA RoundInit == Init => Round!Init
<1> SUFFICES ASSUME Init PROVE Round!Init
    OBVIOUS
<1>1. /\ content \in Contents /\ ever = EntriesOf(content) /\ always = EntriesOf(content)
      /\ page_titles \subseteq Articles /\ cut = {} /\ pc = "next_title"
    BY DEF Init
<1>2. QED
    BY <1>1, SameEntries DEF Round!Init

(* A step of the loop that leaves it running, and cuts nothing short. *)
LEMMA RoundStutter ==
    ASSUME Open, Open', UNCHANGED <<content, ever, always, page_titles, cut>>
    PROVE  UNCHANGED Round!vars
BY DEF Open, Round!vars

(* An error body loses the title it was about. *)
LEMMA RoundLose == Inv /\ error_body => Round!lose
<1> SUFFICES ASSUME Inv, error_body PROVE Round!lose
    OBVIOUS
<1>1. /\ pc = "waiting" /\ pc' = "next_title" /\ cut' = cut \cup {params.titles}
      /\ UNCHANGED <<content, ever, always, page_titles>>
    BY DEF error_body, end_title, wikipedia
<1>2. params.titles \in page_titles
    BY <1>1 DEF Inv, AskingTitle, InTitle
<1>3. QED
    BY <1>1, <1>2 DEF Round!lose

(* What is returned is real and complete. *)
LEMMA RoundAnswer == Inv /\ Inv' /\ return_results => Round!answer
<1> SUFFICES ASSUME Inv, Inv', return_results PROVE Round!answer
    OBVIOUS
<1>1. /\ pc = "next_title" /\ pc' = "done" /\ todo' = {} /\ todo = {}
      /\ UNCHANGED <<content, ever, always, page_titles, cut, complete, results, link_list>>
    BY DEF return_results, wikipedia
<1>2. results \subseteq UNION {Under(t, ever) : t \in page_titles}
    BY <1>1 DEF Inv, ResultsReal
<1>3. page_titles = complete \cup cut
    BY <1>1 DEF Inv, Accounted
<1>4. UNION {Under(t, always) : t \in page_titles \ cut} \subseteq results
    BY <1>3 DEF Inv, TitlesComplete
<1>5. /\ results \subseteq Round!Of(page_titles, ever)
      /\ Round!Of(page_titles \ cut, always) \subseteq results
    BY <1>2, <1>4, SameEntries
<1>6. QED
    BY <1>1, <1>5 DEF Round!answer

LEMMA RoundFail == raise => Round!fail
BY DEF raise, wikipedia, Round!fail

LEMMA RoundEdit == ASSUME NEW e \in Entries, edit(e) PROVE Round!edit
<1>1. /\ Open /\ pc' = pc
      /\ content' = [content EXCEPT ![e[1]] = (@ \cup {e[2]}) \ (@ \cap {e[2]})]
      /\ ever' = ever \cup {e} /\ always' = always \ {e}
      /\ UNCHANGED <<page_titles, cut, results>>
    BY DEF edit, Open
<1>2. e \in Round!Entries
    BY SameEntries
<1>3. QED
    BY <1>1, <1>2 DEF Round!edit, Open

LEMMA RoundNext == Inv /\ Inv' /\ [Next]_vars => [Round!Next]_(Round!vars)
<1> SUFFICES ASSUME Inv, Inv', [Next]_vars PROVE [Round!Next]_(Round!vars)
    OBVIOUS
<1>1. CASE next_title
    <2>1. Open /\ Open' /\ UNCHANGED <<content, ever, always, page_titles, cut>>
        BY <1>1 DEF next_title, wikipedia, Open
    <2>2. QED
        BY <2>1, RoundStutter
<1>2. CASE get
    <2>1. Open /\ Open' /\ UNCHANGED <<content, ever, always, page_titles, cut>>
        BY <1>2 DEF get, wikipedia, Open
    <2>2. QED
        BY <2>1, RoundStutter
<1>3. CASE \E next \in Keys \cup {NoContinue} : answer(next)
    <2>1. Open /\ Open' /\ UNCHANGED <<content, ever, always, page_titles, cut>>
        BY <1>3 DEF answer, end_title, wikipedia, Open
    <2>2. QED
        BY <2>1, RoundStutter
<1>4. CASE return_results
    BY <1>4, RoundAnswer DEF Round!Next
<1>5. CASE error_body
    BY <1>5, RoundLose DEF Round!Next
<1>6. CASE raise
    BY <1>6, RoundFail DEF Round!Next
<1>7. CASE \E e \in Entries : edit(e)
    BY <1>7, RoundEdit DEF Round!Next
<1>8. CASE UNCHANGED vars
    BY <1>8 DEF vars, wikipedia, Round!vars
<1>9. QED
    BY <1>1, <1>2, <1>3, <1>4, <1>5, <1>6, <1>7, <1>8 DEF Next

(* get_payload(), with its titles, batches, continue strings and error     *)
(* bodies, does for its caller what ApiRound does in one step.             *)
THEOREM RequesterIsRound == Spec => ImplementsApiRound
BY RoundInit, RoundNext, Invariance, PTL DEF Spec, ImplementsApiRound, Round!Spec
------------------------------------------------------------------------------
(* The caller's side: what ArticleNetwork takes for the reply of a round.  *)
Unedited == edits = 0 => ever = EntriesOf(content) /\ always = EntriesOf(content)

LEMMA UneditedInvariance == Spec => []Unedited
<1>1. Init => Unedited
    BY DEF Init, Unedited
<1>2. Inv /\ Unedited /\ [Next]_vars => Unedited'
    <2> SUFFICES ASSUME Inv, Unedited, [Next]_vars PROVE Unedited'
        OBVIOUS
    <2>1. CASE UNCHANGED wikipedia
        BY <2>1 DEF Unedited, wikipedia, EntriesOf
    <2>2. CASE \E e \in Entries : edit(e)
        <3>1. edits \in Nat /\ edits' = edits + 1
            BY <2>2, RequesterEditsAssumption DEF Inv, TypeOK, edit
        <3>2. QED
            BY <3>1 DEF Unedited
    <2>3. Next => UNCHANGED wikipedia \/ \E e \in Entries : edit(e)
        BY DEF Next, next_title, return_results, get, answer, error_body, raise
    <2>4. UNCHANGED vars => UNCHANGED wikipedia
        BY DEF vars
    <2>5. QED
        BY <2>1, <2>2, <2>3, <2>4
<1>3. QED
    BY <1>1, <1>2, Invariance, PTL DEF Spec

RepliesReceived ==
    pc = "done" =>
        /\ results \subseteq UNION {Under(t, ever) : t \in page_titles}
        /\ edits = 0 /\ cut = {} =>
              results = UNION {Under(t, EntriesOf(content)) : t \in page_titles}

(* What get_payload() returns is of the entries its titles ever had, and,  *)
(* from a Wikipedia nobody edits and that answers every title, just their  *)
(* entries: the two cases of Received in ArticleNetwork, which takes a     *)
(* round for one step.                                                     *)
THEOREM RepliesAreReceived == Spec => []RepliesReceived
<1>1. Inv /\ Unedited => RepliesReceived
    <2> SUFFICES ASSUME Inv, Unedited, pc = "done"
                 PROVE  /\ results \subseteq UNION {Under(t, ever) : t \in page_titles}
                        /\ edits = 0 /\ cut = {} =>
                              results = UNION {Under(t, EntriesOf(content)) : t \in page_titles}
        BY DEF RepliesReceived
    <2>1. results \subseteq UNION {Under(t, ever) : t \in page_titles}
        BY DEF Inv, ResultsReal
    <2>2. ASSUME edits = 0, cut = {}
          PROVE  results = UNION {Under(t, EntriesOf(content)) : t \in page_titles}
        <3>1. ever = EntriesOf(content) /\ always = EntriesOf(content)
            BY <2>2 DEF Unedited
        <3>2. complete = page_titles
            BY <2>2 DEF Inv, Accounted
        <3>3. \A t \in page_titles : Under(t, always) \subseteq results
            BY <3>2 DEF Inv, TitlesComplete
        <3>4. QED
            BY <2>1, <3>1, <3>3
    <2>3. QED
        BY <2>1, <2>2
<1>2. QED
    BY <1>1, Invariance, UneditedInvariance, PTL
==============================================================================
