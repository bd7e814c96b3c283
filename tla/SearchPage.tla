----------------------------- MODULE SearchPage ------------------------------
(***************************************************************************)
(* The search page (static/main_search.js) in the tabs of one browser, the *)
(* cookie jar the tabs share, and the network to the handlers of           *)
(* SessionHandlers.                                                        *)
(*                                                                         *)
(* The click handler looks like a chain                                    *)
(*     clearSession().then(setTopics(..)).then(setLocation()).then(..)     *)
(* but the arguments of then() are calls, evaluated at once: one click     *)
(* issues clearSession, setTopics and runQuery together and asks the       *)
(* browser for a position, whose callback issues setLocation later.        *)
(*                                                                         *)
(* A request takes the cookie when it leaves the browser, which may be     *)
(* after send(); the requests of one tab leave in the order in which they  *)
(* were issued.  Answers come back in any order or not at all.             *)
(***************************************************************************)
EXTENDS SessionHandlers, Sequences

CONSTANTS
    Tabs,
    Groupings                \* the items of the dropdown menu

ASSUME GroupingsAssumption == "groupby-topic" \in Groupings

VARIABLES
    searches,     \* searches[i] is the tab in which the i-th search was started
    page,         \* page[t]: what the tab shows
    path_status,  \* the page's global of that name, per tab
    results,      \* the answer held in pathsBy*/seedsBy*, per tab
    groupby,      \* the active item of the dropdown menu, per tab
    output,       \* the content of #output-vals, per tab
    geolocating,  \* searches whose getCurrentPosition has not called back
    outbox,       \* outbox[t]: requests issued that have not left the browser
    toServer,     \* requests on their way, with the session they carry
    toBrowser,    \* responses on their way
    jar           \* the session cookie

pageVars == <<page, path_status, results, groupby, output>>
netVars == <<outbox, toServer, toBrowser, jar>>
vars == <<searches, pageVars, geolocating, netVars>>

Calls == [search : Searches, endpoint : Endpoints]
Requests == [search : Searches, endpoint : Endpoints, session : Sessions]
Replies == [search : Searches, endpoint : Endpoints, ok : BOOLEAN,
            modified : BOOLEAN, session : Sessions, path_status : PathStatuses]

(* What an answer was computed from; search 0 is no answer at all. *)
Results == [search : Searches \cup {Absent}, latlon : Searches \cup {Absent},
            topics : Searches \cup {Absent}]
NoResults == [search |-> Absent, latlon |-> Absent, topics |-> Absent]

Outputs == [shows : {"blank", "error", "no_paths", "has_paths"},
            by : Groupings \cup {"none"}, of : Results]

Blank == [shows |-> "blank", by |-> "none", of |-> NoResults]

(* Faulty variant: the default branch echoes the status. *)
generateMainOutputEchoing(status, res, g) ==
    CASE status = "error"     -> [shows |-> "error", by |-> "none", of |-> NoResults]
      [] status = "no_paths"  -> [shows |-> "no_paths", by |-> "none", of |-> res]
      [] status = "has_paths" -> [shows |-> "has_paths", by |-> g, of |-> res]
      [] OTHER                -> [Blank EXCEPT !.shows = status]

(* What the page shows for a status, an answer and a grouping. *)
generateMainOutput(status, res, g) ==
    CASE status = "error"     -> [shows |-> "error", by |-> "none", of |-> NoResults]
      [] status = "no_paths"  -> [shows |-> "no_paths", by |-> "none", of |-> res]
      [] status = "has_paths" -> [shows |-> "has_paths", by |-> g, of |-> res]
      [] OTHER                -> Blank

TypeOK ==
    /\ searches \in Seq(Tabs) /\ Len(searches) <= MaxSearches
    /\ page \in [Tabs -> {"closed", "search", "server_error"}]
    /\ path_status \in [Tabs -> PathStatuses]
    /\ results \in [Tabs -> Results]
    /\ groupby \in [Tabs -> Groupings]
    /\ output \in [Tabs -> Outputs]
    /\ geolocating \subseteq Searches
    /\ outbox \in [Tabs -> Seq(Calls)]
    /\ toServer \subseteq Requests
    /\ toBrowser \subseteq Replies
    /\ jar \in Sessions

Init ==
    /\ searches = <<>>
    /\ page = [t \in Tabs |-> "closed"]
    /\ path_status = [t \in Tabs |-> "unknown"]
    /\ results = [t \in Tabs |-> NoResults]
    /\ groupby = [t \in Tabs |-> "groupby-topic"]
    /\ output = [t \in Tabs |-> Blank]
    /\ geolocating = {}
    /\ outbox = [t \in Tabs |-> <<>>]
    /\ toServer = {}
    /\ toBrowser = {}
    /\ jar = EmptySession

------------------------------------------------------------------------------
(* The page. *)

Of(t, S) == {x \in S : searches[x.search] = t}
SearchesOf(t) == {i \in DOMAIN searches : searches[i] = t}

(* Loading or reloading the page: its globals start anew, its requests and *)
(* its pending position are dropped, the cookie jar stays.                 *)
Open(t) ==
    /\ page' = [page EXCEPT ![t] = index]
    /\ path_status' = [path_status EXCEPT ![t] = "unknown"]
    /\ results' = [results EXCEPT ![t] = NoResults]
    /\ groupby' = [groupby EXCEPT ![t] = "groupby-topic"]
    /\ output' = [output EXCEPT ![t] = Blank]
    /\ geolocating' = geolocating \ SearchesOf(t)
    /\ outbox' = [outbox EXCEPT ![t] = <<>>]
    /\ toServer' = toServer \ Of(t, toServer)
    /\ toBrowser' = toBrowser \ Of(t, toBrowser)
    /\ UNCHANGED <<searches, jar>>

Call(i, e) == [search |-> i, endpoint |-> e]

(* The click handler of the search button. *)
Click(t) ==
    LET i == Len(searches) + 1 IN
    /\ page[t] = "search"
    /\ i <= MaxSearches
    /\ searches' = Append(searches, t)
    /\ path_status' = [path_status EXCEPT ![t] = "searching"]
    /\ outbox' = [outbox EXCEPT ![t] = @ \o <<Call(i, "clearSession"),
                                              Call(i, "setTopics"),
                                              Call(i, "runQuery")>>]
    /\ geolocating' = geolocating \cup {i}
    /\ UNCHANGED <<page, results, groupby, output, toServer, toBrowser, jar>>

(* Faulty variant: the position overtakes the queries issued before it. *)
GeolocationFixFirst(i) ==
    /\ i \in geolocating
    /\ geolocating' = geolocating \ {i}
    /\ outbox' = [outbox EXCEPT ![searches[i]] = <<Call(i, "setLocation")>> \o @]
    /\ UNCHANGED <<searches, pageVars, toServer, toBrowser, jar>>

(* setLocation()'s success callback posts the position. *)
GeolocationFix(i) ==
    /\ i \in geolocating
    /\ geolocating' = geolocating \ {i}
    /\ outbox' = [outbox EXCEPT ![searches[i]] = Append(@, Call(i, "setLocation"))]
    /\ UNCHANGED <<searches, pageVars, toServer, toBrowser, jar>>

(* Permission denied or no fix: getCurrentPosition was given no error callback. *)
GeolocationRefused(i) ==
    /\ i \in geolocating
    /\ geolocating' = geolocating \ {i}
    /\ UNCHANGED <<searches, pageVars, netVars>>

(* A click on an item of the dropdown menu renders again. *)
SelectGrouping(t, g) ==
    /\ page[t] = "search"
    /\ groupby' = [groupby EXCEPT ![t] = g]
    /\ output' = [output EXCEPT ![t] = generateMainOutput(path_status[t], results[t], g)]
    /\ UNCHANGED <<searches, page, path_status, results, geolocating, netVars>>

(* A request's callback leaves tab t with this status and these results. *)
Show(t, status, res) ==
    /\ path_status' = [path_status EXCEPT ![t] = status]
    /\ results' = [results EXCEPT ![t] = res]
    /\ output' = [output EXCEPT ![t] = generateMainOutput(status, res, groupby[t])]
    /\ UNCHANGED <<page, groupby>>

QueryAnswered(r) ==                       \* good_func of runQuery()
    /\ r.endpoint = "runQuery" /\ r.ok
    /\ Show(searches[r.search], r.path_status,
            [search |-> r.search, latlon |-> r.session.latlon, topics |-> r.session.topics])

(* Faulty variants: the old answer is kept; the status is not updated. *)
QueryFailedKeepsResults(r) ==
    /\ r.endpoint = "runQuery" /\ ~r.ok
    /\ Show(searches[r.search], "error", results[searches[r.search]])

QueryFailedSilently(r) ==
    /\ r.endpoint = "runQuery" /\ ~r.ok
    /\ Show(searches[r.search], path_status[searches[r.search]], NoResults)

QueryFailed(r) ==                         \* bad_func of runQuery()
    /\ r.endpoint = "runQuery" /\ ~r.ok
    /\ Show(searches[r.search], "error", NoResults)

(* Faulty variant: the error is recorded and not rendered. *)
SetterFailedUnseen(r) ==
    /\ r.endpoint \in {"setTopics", "setLocation"} /\ ~r.ok
    /\ path_status' = [path_status EXCEPT ![searches[r.search]] = "error"]
    /\ UNCHANGED <<page, results, groupby, output>>

SetterFailed(r) ==                        \* error: of setTopics() and setLocation()
    /\ r.endpoint \in {"setTopics", "setLocation"} /\ ~r.ok
    /\ Show(searches[r.search], "error", results[searches[r.search]])

NothingToShow(r) ==                       \* clearSession() has no callbacks
    /\ r.endpoint = "clearSession" \/ (r.endpoint # "runQuery" /\ r.ok)
    /\ UNCHANGED pageVars

------------------------------------------------------------------------------
(* The browser and the network. *)

StartRequest(t) ==
    /\ outbox[t] # <<>>
    /\ outbox' = [outbox EXCEPT ![t] = Tail(@)]
    /\ toServer' = toServer \cup {[search |-> Head(outbox[t]).search,
                                   endpoint |-> Head(outbox[t]).endpoint,
                                   session |-> jar]}
    /\ UNCHANGED <<searches, pageVars, geolocating, toBrowser, jar>>

Reply(q, a) ==
    [search |-> q.search, endpoint |-> q.endpoint, ok |-> a.ok,
     modified |-> a.modified, session |-> a.session, path_status |-> a.path_status]

Answer(q, a) ==
    /\ toServer' = toServer \ {q}
    /\ toBrowser' = toBrowser \cup {Reply(q, a)}
    /\ UNCHANGED <<searches, pageVars, geolocating, outbox, jar>>

(* The server runs a handler; nothing it reads or writes is shared. *)
Serve(q) ==
    /\ q \in toServer
    /\ \E a \in Handle(q.endpoint, q.session, q.search) : Answer(q, a)

(* The exchange fails: the request or its response is lost. *)
Lose(q) ==
    /\ q \in toServer
    /\ Answer(q, Failure)

(* The browser stores the cookie of a response, then runs its callback. *)
Deliver(r) ==
    /\ r \in toBrowser
    /\ toBrowser' = toBrowser \ {r}
    /\ jar' = IF r.modified THEN r.session ELSE jar
    /\ \/ QueryAnswered(r)
       \/ QueryFailed(r)
       \/ SetterFailed(r)
       \/ NothingToShow(r)
    /\ UNCHANGED <<searches, geolocating, outbox, toServer>>

(* The browser is closed: session cookies die with it. *)
QuitBrowser ==
    /\ page' = [t \in Tabs |-> "closed"]
    /\ path_status' = [t \in Tabs |-> "unknown"]
    /\ results' = [t \in Tabs |-> NoResults]
    /\ groupby' = [t \in Tabs |-> "groupby-topic"]
    /\ output' = [t \in Tabs |-> Blank]
    /\ geolocating' = {}
    /\ outbox' = [t \in Tabs |-> <<>>]
    /\ toServer' = {}
    /\ toBrowser' = {}
    /\ jar' = EmptySession
    /\ UNCHANGED searches

Next ==
    \/ \E t \in Tabs : Open(t) \/ Click(t) \/ StartRequest(t)
    \/ \E t \in Tabs, g \in Groupings : SelectGrouping(t, g)
    \/ \E i \in geolocating : GeolocationFix(i) \/ GeolocationRefused(i)
    \/ \E q \in toServer : Serve(q) \/ Lose(q)
    \/ \E r \in toBrowser : Deliver(r)
    \/ QuitBrowser

Spec == Init /\ [][Next]_vars

(***************************************************************************)
(* The browser sends what it queued, every exchange ends with a response   *)
(* or an error, and callbacks run.  The user owes nothing: no click, no    *)
(* answer to the position prompt, no reload is fair.                       *)
(***************************************************************************)
Fairness ==
    /\ \A t \in Tabs : WF_vars(StartRequest(t))
    /\ WF_vars(\E q \in toServer : Serve(q) \/ Lose(q))
    /\ WF_vars(\E r \in toBrowser : Deliver(r))

FairSpec == Spec /\ Fairness
------------------------------------------------------------------------------
(* Properties. *)

(* Whatever callbacks ran, and in whatever order, a tab that is not in the *)
(* middle of a search shows what its globals say: no callback that changes *)
(* them forgets to render, and the menu never brings an old answer back.   *)
DisplayMatchesState ==
    \A t \in Tabs : path_status[t] # "searching" =>
        output[t] = generateMainOutput(path_status[t], results[t], groupby[t])

(* Answers lag.  A query that left the browser carries, among the data of  *)
(* its own tab, only positions of earlier searches and no topics of later  *)
(* ones: runQuery is issued before the position of its own search is known.*)
Lags(i, s) ==
    /\ s.latlon # Absent =>
          (searches[s.latlon] = searches[i] => s.latlon < i)
    /\ s.topics # Absent =>
          (searches[s.topics] = searches[i] => s.topics <= i)

QueriesLag ==
    \A r \in toServer \cup toBrowser :
        r.endpoint = "runQuery" => Lags(r.search, r.session)

(* Who uses one tab never gets an answer to the first search: it ends with *)
(* an error (KeyError on the server), whatever the network does.           *)
FirstSearchUnanswered ==
    (\A i \in DOMAIN searches : searches[i] = searches[1]) =>
        \A t \in Tabs : results[t].search # 1

(* An answer on screen was computed from a position and topics, never from *)
(* a session that lacks one of them.                                       *)
AnswersAreComplete ==
    \A t \in Tabs : results[t].search # Absent =>
        results[t].latlon # Absent /\ results[t].topics # Absent

(* The page implements LaggedSearch: a search is open while its query is   *)
(* queued or on its way in one direction or the other.                     *)
IsQuery(x) == x.endpoint = "runQuery"

OpenSearches ==
    {i \in DOMAIN searches :
        \/ \E x \in toServer \cup toBrowser : IsQuery(x) /\ x.search = i
        \/ \E n \in DOMAIN outbox[searches[i]] :
              LET x == outbox[searches[i]][n] IN IsQuery(x) /\ x.search = i}

Lagged == INSTANCE LaggedSearch WITH open <- OpenSearches, shown <- results

ImplementsLaggedSearch == Lagged!Spec

(* A search that has begun comes to an end on screen (or its page is gone),*)
(* even if the user never answers the position prompt.                     *)
SearchesSettle ==
    \A t \in Tabs : path_status[t] = "searching" ~> path_status[t] # "searching"

(* Claims of the repository that the code does not keep. *)

(* "Find interesting things around you" (templates/places.html:23): an     *)
(* answer is about a position at least as recent as its search.            *)
AnswersAreAroundYou ==
    \A t \in Tabs : results[t].search # Absent =>
        results[t].latlon >= results[t].search

(* "Displays the index page accessible at '/'" (main.py:88).               *)
IndexIsDisplayed == \A t \in Tabs : page[t] # "server_error"
==============================================================================
