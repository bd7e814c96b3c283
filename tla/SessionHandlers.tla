--------------------------- MODULE SessionHandlers ---------------------------
(***************************************************************************)
(* The request handlers of tourguide_flaskapp/main.py.                     *)
(*                                                                         *)
(* The server keeps nothing between requests: Flask's session is a signed  *)
(* cookie.  A handler gets the session the request carried, may change its *)
(* copy, and the response sets the cookie to the whole copy if (and only   *)
(* if) the handler modified it, after an exception too.  So a handler is a *)
(* function from the session and the search it serves to a response.       *)
(*                                                                         *)
(* A session value is named by the search that produced it: latlon = j is  *)
(* the position the browser reported for the j-th search, topics = k are   *)
(* the topics typed for the k-th one.                                      *)
(***************************************************************************)
EXTENDS Naturals

CONSTANTS
    MaxSearches,             \* bound: clicks on the search button
    ArticleNetworkImported,  \* is article_network bound in main.py?
    Templates                \* the files of the templates/ directory

ASSUME MaxSearchesAssumption == MaxSearches \in Nat
ASSUME ImportedAssumption == ArticleNetworkImported \in BOOLEAN

Searches == 1 .. MaxSearches

Absent == 0                  \* the session has no such key

Sessions == [latlon : Searches \cup {Absent}, topics : Searches \cup {Absent}]

EmptySession == [latlon |-> Absent, topics |-> Absent]

PathStatuses == {"unknown", "searching", "error", "no_paths", "has_paths"}

Modified(s) ==
    [ok |-> TRUE, modified |-> TRUE, session |-> s, path_status |-> "unknown"]

(* Leaves the cookie alone and says nothing: a 500, or a lost exchange. *)
Failure ==
    [ok |-> FALSE, modified |-> FALSE, session |-> EmptySession, path_status |-> "unknown"]

(* Deletes the cookie, even one that is already empty (session.modified). *)
clear_session(s, i) == {Modified(EmptySession)}

set_location(s, i) == {Modified([s EXCEPT !.latlon = i])}

set_topics(s, i) == {Modified([s EXCEPT !.topics = i])}

(***************************************************************************)
(* run_query only reads the session.  It fails when the name               *)
(* article_network is unbound, when the session misses a key (KeyError),   *)
(* and when a call to the Wikipedia API raises; else path_status() of a    *)
(* finished search is no_paths or has_paths.  The order of the failures is *)
(* not visible: each of them is the same response.                         *)
(***************************************************************************)
(* Faulty variants: a missing position, or missing topics, default to none. *)
AnswerableAnywhere(s) == ArticleNetworkImported /\ s.topics # Absent
AnswerableOffTopic(s) == ArticleNetworkImported /\ s.latlon # Absent

Answerable(s) == ArticleNetworkImported /\ s.latlon # Absent /\ s.topics # Absent

run_query(s, i) ==
    {Failure} \cup
    {[ok |-> TRUE, modified |-> FALSE, session |-> s, path_status |-> p] :
        p \in {q \in {"no_paths", "has_paths"} : Answerable(s)}}

(* index() renders map.html; Jinja raises TemplateNotFound if it is missing. *)
index == IF "map.html" \in Templates THEN "search" ELSE "server_error"

Endpoints == {"clearSession", "setTopics", "setLocation", "runQuery"}

(* The responses the URL map lets the server give to search i's request. *)
Handle(endpoint, s, i) ==
    CASE endpoint = "clearSession" -> clear_session(s, i)
      [] endpoint = "setTopics"    -> set_topics(s, i)
      [] endpoint = "setLocation"  -> set_location(s, i)
      [] endpoint = "runQuery"     -> run_query(s, i)
==============================================================================
