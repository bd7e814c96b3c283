-------------------------- MODULE SearchPageProofs ---------------------------
(***************************************************************************)
(* Theorems about SearchPage for any number of tabs, searches and          *)
(* groupings: its type invariant, that queries lag, what is displayed, and *)
(* that the page implements LaggedSearch; and, at the end, about the form  *)
(* of that page as TopicSample models it, for any topics and limits.       *)
(*                                                                         *)
(* QueriesLag speaks of queries that left the browser.  It holds because   *)
(* of what may travel ahead of a query: the positions and topics AT LARGE, *)
(* that is in the cookie, in a message, or on their way to a setter, all   *)
(* of which a later response may put into the cookie.                      *)
(***************************************************************************)
EXTENDS SearchPage, TopicSample, SequenceTheorems, FiniteSetTheorems,
        WellFoundedInduction, TLAPS

InFlight == toServer \cup toBrowser

PositionsAtLarge ==
    {jar.latlon} \cup {r.session.latlon : r \in InFlight} \cup
    {q.search : q \in {x \in toServer : x.endpoint = "setLocation"}}

TopicsAtLarge ==
    {jar.topics} \cup {r.session.topics : r \in InFlight} \cup
    {q.search : q \in {x \in toServer : x.endpoint = "setTopics"}}

(* Queues, messages and prompts belong to searches that were started. *)
QueuesKnown ==
    \A t \in Tabs : \A n \in DOMAIN outbox[t] :
        outbox[t][n].search \in DOMAIN searches /\ searches[outbox[t][n].search] = t

PromptsKnown == geolocating \subseteq DOMAIN searches

MessagesKnown == \A r \in InFlight : r.search \in DOMAIN searches

DataKnown ==
    PositionsAtLarge \cup TopicsAtLarge \subseteq DOMAIN searches \cup {Absent}

(* Ahead of a query in its queue are only positions of earlier searches, *)
(* and no topics of later ones.                                          *)
QueuesOrdered ==
    \A t \in Tabs : \A m, n \in DOMAIN outbox[t] :
        m < n /\ outbox[t][n].endpoint = "runQuery" =>
            /\ outbox[t][m].endpoint = "setLocation" =>
                  outbox[t][m].search < outbox[t][n].search
            /\ outbox[t][m].endpoint = "setTopics" =>
                  outbox[t][m].search <= outbox[t][n].search

(* The same holds of what is at large when a query is still queued. *)
WaitingQueriesLag ==
    \A t \in Tabs : \A n \in DOMAIN outbox[t] :
        outbox[t][n].endpoint = "runQuery" =>
            /\ \A j \in PositionsAtLarge :
                  j # Absent /\ searches[j] = t => j < outbox[t][n].search
            /\ \A k \in TopicsAtLarge :
                  k # Absent /\ searches[k] = t => k <= outbox[t][n].search

Inv ==
    /\ TypeOK
    /\ QueuesKnown
    /\ PromptsKnown
    /\ MessagesKnown
    /\ DataKnown
    /\ QueuesOrdered
    /\ WaitingQueriesLag
    /\ QueriesLag

------------------------------------------------------------------------------
(* What a handler, or the loss of an exchange, makes of a session. *)
Honest(q, a) ==
    /\ a.ok \in BOOLEAN
    /\ a.modified \in BOOLEAN
    /\ a.path_status \in PathStatuses
    /\ a.session \in Sessions
    /\ a.session.latlon \in {Absent, q.session.latlon} \/
          (q.endpoint = "setLocation" /\ a.session.latlon = q.search)
    /\ a.session.topics \in {Absent, q.session.topics} \/
          (q.endpoint = "setTopics" /\ a.session.topics = q.search)

(* A handler answers with data of the session it got or of its own search. *)
LEMMA HandlersHonest ==
    ASSUME NEW q \in Requests,
           NEW a \in Handle(q.endpoint, q.session, q.search)
    PROVE  Honest(q, a)
<1>0. EmptySession \in Sessions /\ EmptySession.latlon = Absent /\ EmptySession.topics = Absent
    BY DEF EmptySession, Sessions
<1>1. q.endpoint \in Endpoints /\ q.session \in Sessions /\ q.search \in Searches
    BY DEF Requests
<1>2. CASE q.endpoint = "clearSession"
    <2>1. a = Modified(EmptySession)
        BY <1>2 DEF Handle, clear_session
    <2>2. QED
        BY <1>0, <2>1 DEF Honest, Modified, PathStatuses
<1>3. CASE q.endpoint = "setTopics"
    <2>1. a = Modified([q.session EXCEPT !.topics = q.search])
        BY <1>3 DEF Handle, set_topics
    <2>2. QED
        BY <1>1, <1>3, <2>1 DEF Honest, Modified, PathStatuses, Sessions
<1>4. CASE q.endpoint = "setLocation"
    <2>1. a = Modified([q.session EXCEPT !.latlon = q.search])
        BY <1>4 DEF Handle, set_location
    <2>2. QED
        BY <1>1, <1>4, <2>1 DEF Honest, Modified, PathStatuses, Sessions
<1>5. CASE q.endpoint = "runQuery"
    <2>1. a \in run_query(q.session, q.search)
        BY <1>5 DEF Handle
    <2>2. CASE a = Failure
        BY <1>0, <2>2 DEF Failure, Honest, PathStatuses
    <2>3. ASSUME NEW p \in {"no_paths", "has_paths"},
                 a = [ok |-> TRUE, modified |-> FALSE, session |-> q.session, path_status |-> p]
          PROVE  Honest(q, a)
        BY <1>1, <2>3 DEF Honest, PathStatuses
    <2>4. QED
        BY <2>1, <2>2, <2>3 DEF run_query
<1>6. QED
    BY <1>1, <1>2, <1>3, <1>4, <1>5 DEF Endpoints

(* So is an exchange that fails. *)
LEMMA FailureHonest == ASSUME NEW q \in Requests PROVE Honest(q, Failure)
BY DEF Honest, Failure, Requests, Sessions, EmptySession, PathStatuses

LEMMA GroupbyTopic == "groupby-topic" \in Groupings
BY GroupingsAssumption

LEMMA OutputTyped ==
    ASSUME NEW status \in PathStatuses, NEW res \in Results, NEW g \in Groupings
    PROVE  generateMainOutput(status, res, g) \in Outputs
BY DEF generateMainOutput, Outputs, PathStatuses, Results, Blank, NoResults

LEMMA BlankTyped == NoResults \in Results /\ Blank \in Outputs
BY DEF Blank, NoResults, Outputs, Results

(***************************************************************************)
(* The actions that end an exchange, each as one of two steps: an answer   *)
(* on its way, or a callback that shows something.                         *)
(***************************************************************************)
LEMMA AnswerSteps ==
    ASSUME TypeOK, NEW q \in toServer, Serve(q) \/ Lose(q)
    PROVE  \E a : Honest(q, a) /\ Answer(q, a)
<1>1. q \in Requests
    BY DEF TypeOK
<1>2. CASE Serve(q)
    BY <1>1, <1>2, HandlersHonest DEF Serve
<1>3. CASE Lose(q)
    BY <1>1, <1>3, FailureHonest DEF Lose
<1>4. QED
    BY <1>2, <1>3

LEMMA InitInv == Init => Inv
<1> SUFFICES ASSUME Init PROVE Inv
    OBVIOUS
<1>1. TypeOK
    BY GroupbyTopic, BlankTyped, MaxSearchesAssumption
       DEF Init, TypeOK, PathStatuses, EmptySession, Sessions, Searches
<1>2. PositionsAtLarge = {Absent} /\ TopicsAtLarge = {Absent} /\ InFlight = {}
    BY DEF Init, PositionsAtLarge, TopicsAtLarge, InFlight, EmptySession
<1>3. QED
    BY <1>1, <1>2 DEF Init, Inv, QueuesKnown, PromptsKnown, MessagesKnown, DataKnown,
       QueuesOrdered, WaitingQueriesLag, QueriesLag, InFlight
(***************************************************************************)
(* Each action preserves Inv.                                              *)
(***************************************************************************)
(* What moves no message and no data preserves the parts about them. *)
LEMMA Frame ==
    ASSUME Inv, TypeOK', PromptsKnown',
           UNCHANGED <<searches, outbox, toServer, toBrowser, jar>>
    PROVE  Inv'
BY DEF Inv, QueuesKnown, MessagesKnown, DataKnown, QueuesOrdered, WaitingQueriesLag,
   QueriesLag, Lags, PositionsAtLarge, TopicsAtLarge, InFlight

(* Nor does what only takes messages and queued requests away. *)
LEMMA Fewer ==
    ASSUME Inv, TypeOK', PromptsKnown',
           searches' = searches,
           jar' \in {jar, EmptySession},
           toServer' \subseteq toServer,
           toBrowser' \subseteq toBrowser,
           \A t \in Tabs : outbox'[t] \in {outbox[t], <<>>}
    PROVE  Inv'
<1> USE DEF Inv
<1>1. InFlight' \subseteq InFlight
    BY DEF InFlight
<1>2. /\ PositionsAtLarge' \subseteq PositionsAtLarge \cup {Absent}
      /\ TopicsAtLarge' \subseteq TopicsAtLarge \cup {Absent}
    BY <1>1 DEF PositionsAtLarge, TopicsAtLarge, EmptySession
<1>3. QueuesKnown' /\ QueuesOrdered'
    BY DEF QueuesKnown, QueuesOrdered
<1>4. MessagesKnown'
    BY <1>1 DEF MessagesKnown
<1>5. DataKnown'
    BY <1>2 DEF DataKnown
<1>6. WaitingQueriesLag'
    BY <1>2 DEF WaitingQueriesLag
<1>7. QueriesLag'
    BY <1>1 DEF QueriesLag, Lags, InFlight
<1>8. QED
    BY <1>3, <1>4, <1>5, <1>6, <1>7

LEMMA OpenInv == ASSUME Inv, NEW t \in Tabs, Open(t) PROVE Inv'
<1>1. index \in {"closed", "search", "server_error"}
    BY DEF index
<1>2. TypeOK'
    BY <1>1, GroupbyTopic, BlankTyped DEF Inv, TypeOK, Open, PathStatuses
<1>3. QED
    BY <1>2, Fewer DEF Inv, Open, PromptsKnown, TypeOK

LEMMA QuitBrowserInv == ASSUME Inv, QuitBrowser PROVE Inv'
<1>1. TypeOK'
    BY GroupbyTopic, BlankTyped
       DEF Inv, TypeOK, QuitBrowser, PathStatuses, EmptySession, Sessions
<1>2. QED
    BY <1>1, Fewer DEF Inv, QuitBrowser, PromptsKnown

LEMMA GeolocationRefusedInv ==
    ASSUME Inv, NEW i \in geolocating, GeolocationRefused(i)
    PROVE  Inv'
<1>1. TypeOK' /\ PromptsKnown'
    BY DEF Inv, TypeOK, PromptsKnown, GeolocationRefused, pageVars, netVars
<1>2. QED
    BY <1>1, Frame DEF GeolocationRefused, netVars

LEMMA SelectGroupingInv ==
    ASSUME Inv, NEW t \in Tabs, NEW g \in Groupings, SelectGrouping(t, g)
    PROVE  Inv'
<1>1. TypeOK' /\ PromptsKnown'
    BY OutputTyped DEF Inv, TypeOK, PromptsKnown, SelectGrouping, netVars
<1>2. QED
    BY <1>1, Frame DEF SelectGrouping, netVars
LEMMA Append3 ==
    ASSUME NEW S, NEW q \in Seq(S), NEW a \in S, NEW b \in S, NEW c \in S
    PROVE  LET r == q \o <<a, b, c>> IN
           /\ r \in Seq(S)
           /\ DOMAIN q = 1 .. Len(q)
           /\ \A n \in DOMAIN q : n \in DOMAIN r /\ r[n] = q[n]
           /\ \A n \in DOMAIN r : n \in DOMAIN q \/ (n > Len(q) /\ r[n] \in {a, b, c})
<1> DEFINE z == <<a, b, c>>
<1> DEFINE r == q \o z
<1>1. z \in Seq(S) /\ Len(z) = 3 /\ z[1] = a /\ z[2] = b /\ z[3] = c
    OBVIOUS
<1> HIDE DEF z
<1>2. r \in Seq(S) /\ Len(r) = Len(q) + 3
    <2>1. r \in Seq(S) /\ Len(r) = Len(q) + Len(z)
        BY <1>1, ConcatProperties
    <2>2. Len(q) \in Nat
        OBVIOUS
    <2>3. QED
        BY <1>1, <2>1, <2>2
<1>3. \A n \in 1 .. Len(q) : r[n] = q[n]
    BY <1>1
<1>4. \A n \in 1 .. Len(r) : n > Len(q) => r[n] = z[n - Len(q)]
    BY <1>1
<1>5. \A k \in 1 .. 3 : z[k] \in {a, b, c}
    BY <1>1
<1>6. \A n \in 1 .. Len(r) : n > Len(q) => n - Len(q) \in 1 .. 3
    BY <1>2
<1>7. QED
    BY <1>2, <1>3, <1>4, <1>5, <1>6 DEF z

(* A click puts its query behind everything, with a number above all. *)
LEMMA ClickInv == ASSUME Inv, NEW t \in Tabs, Click(t) PROVE Inv'
<1> DEFINE i == Len(searches) + 1
<1> DEFINE new == {Call(i, "clearSession"), Call(i, "setTopics"), Call(i, "runQuery")}
<1> USE DEF Inv
<1>1. /\ searches \in Seq(Tabs) /\ i \in Searches
      /\ searches' = Append(searches, t)
    BY MaxSearchesAssumption DEF TypeOK, Click, Searches
<1>2. new \subseteq Calls
    BY <1>1 DEF Calls, Call, Endpoints
<1>3. /\ DOMAIN searches' = DOMAIN searches \cup {i}
      /\ \A j \in DOMAIN searches : searches'[j] = searches[j] /\ j < i /\ j \in Nat \ {0}
      /\ searches'[i] = t
    BY <1>1
<1>4. /\ outbox'[t] \in Seq(Calls)
      /\ DOMAIN outbox[t] = 1 .. Len(outbox[t])
      /\ \A n \in DOMAIN outbox[t] : n \in DOMAIN outbox'[t] /\ outbox'[t][n] = outbox[t][n]
      /\ \A n \in DOMAIN outbox'[t] :
            n \in DOMAIN outbox[t] \/ (n > Len(outbox[t]) /\ outbox'[t][n] \in new)
    <2> HIDE DEF i
    <2>1. outbox'[t] = outbox[t] \o <<Call(i, "clearSession"), Call(i, "setTopics"),
                                      Call(i, "runQuery")>>
        BY DEF TypeOK, Click, i
    <2>2. outbox[t] \in Seq(Calls)
        BY DEF TypeOK
    <2>3. QED
        BY <1>2, <2>1, <2>2, Append3
<1>5. \A u \in Tabs \ {t} : outbox'[u] = outbox[u]
    BY DEF TypeOK, Click
<1>6. \A u \in Tabs : \A n \in DOMAIN outbox'[u] :
         \/ n \in DOMAIN outbox[u] /\ outbox'[u][n] = outbox[u][n]
         \/ u = t /\ n > Len(outbox[t]) /\ outbox'[u][n] \in new
    BY <1>4, <1>5
<1>7. \A x \in new : x.search = i /\ x.endpoint # "setLocation"
    BY DEF Call
<1> HIDE DEF new, i
<1>8. TypeOK'
    <2>1. searches' \in Seq(Tabs) /\ Len(searches') <= MaxSearches
        BY <1>1, MaxSearchesAssumption DEF Searches, i
    <2>2. outbox' \in [Tabs -> Seq(Calls)]
        BY <1>4, <1>5 DEF TypeOK, Click
    <2>3. QED
        BY <1>1, <2>1, <2>2 DEF TypeOK, Click, PathStatuses, i
<1>9. PromptsKnown'
    BY <1>3 DEF PromptsKnown, Click, i
<1>10. QueuesKnown'
    BY <1>3, <1>6, <1>7 DEF QueuesKnown
<1>11. UNCHANGED <<InFlight, PositionsAtLarge, TopicsAtLarge>>
    BY DEF PositionsAtLarge, TopicsAtLarge, InFlight, Click
<1>12. MessagesKnown' /\ DataKnown'
    BY <1>3, <1>11 DEF MessagesKnown, DataKnown
<1>13. QueuesOrdered'
    <2> SUFFICES ASSUME NEW u \in Tabs, NEW m \in DOMAIN outbox'[u], NEW n \in DOMAIN outbox'[u],
                        m < n, outbox'[u][n].endpoint = "runQuery"
                 PROVE  /\ outbox'[u][m].endpoint = "setLocation" =>
                              outbox'[u][m].search < outbox'[u][n].search
                        /\ outbox'[u][m].endpoint = "setTopics" =>
                              outbox'[u][m].search <= outbox'[u][n].search
        BY DEF QueuesOrdered
    <2>1. CASE n \in DOMAIN outbox[u] /\ outbox'[u][n] = outbox[u][n]
        <3>1. m \in DOMAIN outbox[u] /\ outbox'[u][m] = outbox[u][m]
            BY <1>4, <1>6, <2>1
        <3>2. QED
            BY <2>1, <3>1 DEF QueuesOrdered
    <2>2. CASE u = t /\ outbox'[u][n] \in new
        <3>1. outbox'[u][n].search = i /\ i \in Nat
            BY <1>1, <1>7, <2>2 DEF Searches
        <3>2. CASE outbox'[u][m] \in new
            BY <1>7, <3>1, <3>2
        <3>3. CASE m \in DOMAIN outbox[u] /\ outbox'[u][m] = outbox[u][m]
            BY <1>3, <3>1, <3>3 DEF QueuesKnown
        <3>4. QED
            BY <1>6, <3>2, <3>3
    <2>3. QED
        BY <1>6, <2>1, <2>2
<1>14. WaitingQueriesLag'
    <2> SUFFICES ASSUME NEW u \in Tabs, NEW n \in DOMAIN outbox'[u],
                        outbox'[u][n].endpoint = "runQuery"
                 PROVE  /\ \A j \in PositionsAtLarge :
                              j # Absent /\ searches'[j] = u => j < outbox'[u][n].search
                        /\ \A k \in TopicsAtLarge :
                              k # Absent /\ searches'[k] = u => k <= outbox'[u][n].search
        BY <1>11 DEF WaitingQueriesLag
    <2>1. CASE n \in DOMAIN outbox[u] /\ outbox'[u][n] = outbox[u][n]
        BY <1>3, <2>1 DEF WaitingQueriesLag, DataKnown
    <2>2. CASE outbox'[u][n] \in new
        <3>1. outbox'[u][n].search = i /\ i \in Nat
            BY <1>1, <1>7, <2>2 DEF Searches
        <3>2. QED
            BY <1>3, <3>1 DEF DataKnown
    <2>3. QED
        BY <1>6, <2>1, <2>2
<1>15. QueriesLag'
    <2>1. \A r \in InFlight : /\ r.search \in DOMAIN searches
                              /\ {r.session.latlon, r.session.topics} \subseteq
                                    DOMAIN searches \cup {Absent}
        BY DEF MessagesKnown, DataKnown, PositionsAtLarge, TopicsAtLarge
    <2>2. \A r \in InFlight : r.endpoint = "runQuery" => Lags(r.search, r.session)
        BY DEF QueriesLag, InFlight
    <2>3. \A r \in InFlight : r.endpoint = "runQuery" => Lags(r.search, r.session)'
        BY <1>3, <2>1, <2>2 DEF Lags
    <2>4. QED
        BY <1>11, <2>3 DEF QueriesLag, InFlight, Click
<1>16. QED
    BY <1>8, <1>9, <1>10, <1>12, <1>13, <1>14, <1>15
(* A position goes behind every query that is queued. *)
LEMMA GeolocationFixInv ==
    ASSUME Inv, NEW i \in geolocating, GeolocationFix(i)
    PROVE  Inv'
<1> DEFINE t == searches[i]
<1> DEFINE new == Call(i, "setLocation")
<1> USE DEF Inv
<1>1. i \in DOMAIN searches /\ t \in Tabs /\ i \in Searches /\ new \in Calls
    BY DEF PromptsKnown, TypeOK, Calls, Call, Endpoints
<1>2. /\ outbox'[t] \in Seq(Calls)
      /\ DOMAIN outbox[t] = 1 .. Len(outbox[t])
      /\ Len(outbox[t]) \in Nat
      /\ \A n \in DOMAIN outbox[t] : n \in DOMAIN outbox'[t] /\ outbox'[t][n] = outbox[t][n]
      /\ \A n \in DOMAIN outbox'[t] :
            n \in DOMAIN outbox[t] \/ (n > Len(outbox[t]) /\ outbox'[t][n] = new)
    <2>1. outbox[t] \in Seq(Calls) /\ outbox'[t] = Append(outbox[t], new)
        BY <1>1 DEF TypeOK, GeolocationFix
    <2> HIDE DEF t, new
    <2>2. QED
        BY <1>1, <2>1
<1>3. \A u \in Tabs \ {t} : outbox'[u] = outbox[u]
    BY DEF TypeOK, GeolocationFix
<1>4. \A u \in Tabs : \A n \in DOMAIN outbox'[u] :
         \/ n \in DOMAIN outbox[u] /\ outbox'[u][n] = outbox[u][n]
         \/ u = t /\ n > Len(outbox[t]) /\ outbox'[u][n] = new
    BY <1>2, <1>3
<1>5. new.search = i /\ new.endpoint = "setLocation"
    BY DEF Call
<1>6. UNCHANGED <<searches, toServer, toBrowser, jar, InFlight, PositionsAtLarge, TopicsAtLarge>>
    BY DEF PositionsAtLarge, TopicsAtLarge, InFlight, GeolocationFix
<1>7. TypeOK' /\ PromptsKnown'
    <2>1. outbox' \in [Tabs -> Seq(Calls)]
        BY <1>2, <1>3 DEF TypeOK, GeolocationFix
    <2>2. QED
        BY <2>1 DEF TypeOK, PromptsKnown, GeolocationFix, pageVars
<1> HIDE DEF new
<1>8. QueuesKnown'
    BY <1>1, <1>4, <1>5, <1>6 DEF QueuesKnown
<1>9. QueuesOrdered'
    <2> SUFFICES ASSUME NEW u \in Tabs, NEW m \in DOMAIN outbox'[u], NEW n \in DOMAIN outbox'[u],
                        m < n, outbox'[u][n].endpoint = "runQuery"
                 PROVE  /\ outbox'[u][m].endpoint = "setLocation" =>
                              outbox'[u][m].search < outbox'[u][n].search
                        /\ outbox'[u][m].endpoint = "setTopics" =>
                              outbox'[u][m].search <= outbox'[u][n].search
        BY DEF QueuesOrdered
    <2>1. n \in DOMAIN outbox[u] /\ outbox'[u][n] = outbox[u][n]
        BY <1>4, <1>5
    <2>2. m \in DOMAIN outbox[u] /\ outbox'[u][m] = outbox[u][m]
        BY <1>2, <1>4, <2>1
    <2>3. QED
        BY <2>1, <2>2 DEF QueuesOrdered
<1>10. WaitingQueriesLag'
    BY <1>4, <1>5, <1>6 DEF WaitingQueriesLag
<1>11. MessagesKnown' /\ DataKnown' /\ QueriesLag'
    BY <1>6 DEF MessagesKnown, DataKnown, QueriesLag, Lags
<1>12. QED
    BY <1>7, <1>8, <1>9, <1>10, <1>11

(* The head of a queue leaves with the cookie: a query takes what was at   *)
(* large, a setter puts at large what was ahead of the queries behind it.  *)
LEMMA StartRequestInv == ASSUME Inv, NEW t \in Tabs, StartRequest(t) PROVE Inv'
<1> DEFINE h == Head(outbox[t])
<1> DEFINE q == [search |-> h.search, endpoint |-> h.endpoint, session |-> jar]
<1> USE DEF Inv
<1>1. /\ outbox[t] \in Seq(Calls) /\ outbox[t] # <<>>
      /\ outbox' = [outbox EXCEPT ![t] = Tail(@)]
      /\ toServer' = toServer \cup {q}
      /\ UNCHANGED <<searches, toBrowser, jar>>
    BY DEF TypeOK, StartRequest
<1>2. /\ 1 \in DOMAIN outbox[t] /\ h = outbox[t][1] /\ h \in Calls
      /\ outbox'[t] \in Seq(Calls)
      /\ \A n \in DOMAIN outbox'[t] :
            n + 1 \in DOMAIN outbox[t] /\ outbox'[t][n] = outbox[t][n + 1] /\ n \in Nat /\ 1 < n + 1
    <2>1. outbox'[t] = Tail(outbox[t])
        BY <1>1 DEF TypeOK
    <2>2. Len(outbox[t]) \in Nat /\ Len(outbox[t]) # 0 /\ DOMAIN outbox[t] = 1 .. Len(outbox[t])
        BY <1>1, EmptySeq
    <2>3. h = outbox[t][1] /\ h \in Calls
        BY <1>1, HeadTailProperties
    <2>4. /\ Tail(outbox[t]) \in Seq(Calls)
          /\ DOMAIN Tail(outbox[t]) = 1 .. Len(outbox[t]) - 1
          /\ \A n \in 1 .. Len(outbox[t]) - 1 : Tail(outbox[t])[n] = outbox[t][n + 1]
        BY <1>1, HeadTailProperties
    <2>5. QED
        BY <2>1, <2>2, <2>3, <2>4
<1>3. \A u \in Tabs \ {t} : outbox'[u] = outbox[u]
    BY <1>1 DEF TypeOK
<1>4. h.search \in DOMAIN searches /\ searches[h.search] = t
    BY <1>2 DEF QueuesKnown
<1>5. /\ q \in Requests /\ q.search = h.search /\ q.endpoint = h.endpoint /\ q.session = jar
      /\ jar \in Sessions
    BY <1>2 DEF TypeOK, Requests, Calls
<1> HIDE DEF q, h
<1>6. /\ InFlight' = InFlight \cup {q}
      /\ PositionsAtLarge' \subseteq PositionsAtLarge \cup
            {k \in {h.search} : h.endpoint = "setLocation"}
      /\ TopicsAtLarge' \subseteq TopicsAtLarge \cup
            {k \in {h.search} : h.endpoint = "setTopics"}
    <2>1. InFlight' = InFlight \cup {q}
        BY <1>1 DEF InFlight
    <2>2. QED
        BY <1>1, <1>5, <2>1 DEF PositionsAtLarge, TopicsAtLarge
<1>7. TypeOK' /\ PromptsKnown'
    <2>1. outbox' \in [Tabs -> Seq(Calls)]
        BY <1>1, <1>2, <1>3 DEF TypeOK
    <2>2. QED
        BY <1>1, <1>5, <2>1 DEF TypeOK, PromptsKnown, StartRequest, pageVars
<1>8. QueuesKnown'
    BY <1>1, <1>2, <1>3 DEF QueuesKnown
<1>9. MessagesKnown'
    BY <1>1, <1>4, <1>5, <1>6 DEF MessagesKnown
<1>10. DataKnown'
    BY <1>1, <1>4, <1>6 DEF DataKnown
<1>11. QueuesOrdered'
    <2> SUFFICES ASSUME NEW u \in Tabs, NEW m \in DOMAIN outbox'[u], NEW n \in DOMAIN outbox'[u],
                        m < n, outbox'[u][n].endpoint = "runQuery"
                 PROVE  /\ outbox'[u][m].endpoint = "setLocation" =>
                              outbox'[u][m].search < outbox'[u][n].search
                        /\ outbox'[u][m].endpoint = "setTopics" =>
                              outbox'[u][m].search <= outbox'[u][n].search
        BY DEF QueuesOrdered
    <2>1. CASE u = t
        <3>1. m + 1 < n + 1 /\ m + 1 \in DOMAIN outbox[u] /\ n + 1 \in DOMAIN outbox[u]
            BY <1>2, <2>1
        <3>2. outbox'[u][m] = outbox[u][m + 1] /\ outbox'[u][n] = outbox[u][n + 1]
            BY <1>2, <2>1
        <3>3. QED
            BY <3>1, <3>2 DEF QueuesOrdered
    <2>2. CASE u # t
        BY <1>3, <2>2 DEF QueuesOrdered
    <2>3. QED
        BY <2>1, <2>2
<1>12. WaitingQueriesLag'
    <2> SUFFICES ASSUME NEW u \in Tabs, NEW n \in DOMAIN outbox'[u],
                        outbox'[u][n].endpoint = "runQuery"
                 PROVE  /\ \A j \in PositionsAtLarge' :
                              j # Absent /\ searches[j] = u => j < outbox'[u][n].search
                        /\ \A k \in TopicsAtLarge' :
                              k # Absent /\ searches[k] = u => k <= outbox'[u][n].search
        BY <1>1 DEF WaitingQueriesLag
    <2>1. CASE u = t
        <3>1. /\ n + 1 \in DOMAIN outbox[t] /\ 1 < n + 1
              /\ outbox[t][n + 1].endpoint = "runQuery"
              /\ outbox'[u][n].search = outbox[t][n + 1].search
            BY <1>2, <2>1
        <3>2. /\ h.endpoint = "setLocation" => h.search < outbox[t][n + 1].search
              /\ h.endpoint = "setTopics" => h.search <= outbox[t][n + 1].search
            BY <1>2, <3>1 DEF QueuesOrdered
        <3>3. QED
            BY <1>6, <2>1, <3>1, <3>2 DEF WaitingQueriesLag
    <2>2. CASE u # t
        BY <1>3, <1>4, <1>6, <2>2 DEF WaitingQueriesLag
    <2>3. QED
        BY <2>1, <2>2
<1>13. QueriesLag'
    <2>1. jar.latlon \in PositionsAtLarge /\ jar.topics \in TopicsAtLarge
        BY DEF PositionsAtLarge, TopicsAtLarge
    <2>2. h.endpoint = "runQuery" => Lags(h.search, jar)
        BY <1>2, <1>4, <2>1 DEF WaitingQueriesLag, Lags
    <2>3. QED
        BY <1>1, <1>5, <2>2 DEF QueriesLag, Lags
<1>14. QED
    BY <1>7, <1>8, <1>9, <1>10, <1>11, <1>12, <1>13
(* An answer carries what its request carried or would set. *)
LEMMA AnswerInv ==
    ASSUME Inv, NEW q \in toServer, NEW a, Honest(q, a), Answer(q, a)
    PROVE  Inv'
<1> DEFINE r == Reply(q, a)
<1> USE DEF Inv
<1>1. /\ q \in Requests /\ q.search \in DOMAIN searches
      /\ q.session.latlon \in PositionsAtLarge
      /\ q.session.topics \in TopicsAtLarge
      /\ q.endpoint = "setLocation" => q.search \in PositionsAtLarge
      /\ q.endpoint = "setTopics" => q.search \in TopicsAtLarge
    BY DEF TypeOK, MessagesKnown, PositionsAtLarge, TopicsAtLarge, InFlight
<1>2. /\ r \in Replies /\ r.search = q.search /\ r.endpoint = q.endpoint
      /\ r.session = a.session
    BY <1>1 DEF Reply, Replies, Requests, Honest
<1>3. /\ toServer' \subseteq toServer
      /\ toBrowser' = toBrowser \cup {r}
      /\ UNCHANGED <<searches, outbox, jar>>
    BY DEF Answer
<1> HIDE DEF r
<1>4. r.session.latlon \in PositionsAtLarge \cup {Absent}
    BY <1>1, <1>2 DEF Honest
<1>5. r.session.topics \in TopicsAtLarge \cup {Absent}
    BY <1>1, <1>2 DEF Honest
<1>6. /\ InFlight' \subseteq InFlight \cup {r}
      /\ PositionsAtLarge' \subseteq PositionsAtLarge \cup {Absent}
      /\ TopicsAtLarge' \subseteq TopicsAtLarge \cup {Absent}
    <2>1. InFlight' \subseteq InFlight \cup {r}
        BY <1>3 DEF InFlight
    <2>2. QED
        BY <1>3, <1>4, <1>5, <2>1 DEF PositionsAtLarge, TopicsAtLarge
<1>7. TypeOK' /\ PromptsKnown'
    BY <1>2, <1>3 DEF TypeOK, PromptsKnown, Answer, pageVars
<1>8. QueuesKnown' /\ QueuesOrdered'
    BY <1>3 DEF QueuesKnown, QueuesOrdered
<1>9. MessagesKnown' /\ DataKnown' /\ WaitingQueriesLag'
    BY <1>1, <1>2, <1>3, <1>6 DEF MessagesKnown, DataKnown, WaitingQueriesLag
<1>10. QueriesLag'
    <2>1. q.endpoint = "runQuery" => Lags(q.search, q.session)
        BY DEF QueriesLag
    <2>2. r.endpoint = "runQuery" => Lags(r.search, r.session)
        BY <1>2, <2>1 DEF Honest, Lags
    <2>3. QED
        BY <1>3, <2>2 DEF QueriesLag, Lags
<1>11. QED
    BY <1>7, <1>8, <1>9, <1>10

(* What a callback leaves on the page has its types. *)
LEMMA ShowTyped ==
    ASSUME TypeOK, NEW t \in Tabs, NEW status \in PathStatuses, NEW res \in Results,
           Show(t, status, res)
    PROVE  /\ page' \in [Tabs -> {"closed", "search", "server_error"}]
           /\ path_status' \in [Tabs -> PathStatuses]
           /\ results' \in [Tabs -> Results]
           /\ groupby' \in [Tabs -> Groupings]
           /\ output' \in [Tabs -> Outputs]
BY OutputTyped DEF TypeOK, Show

LEMMA DeliverInv == ASSUME Inv, NEW r \in toBrowser, Deliver(r) PROVE Inv'
<1> USE DEF Inv
<1>1. /\ r \in Replies /\ r.search \in DOMAIN searches
      /\ searches[r.search] \in Tabs
      /\ r.session.latlon \in PositionsAtLarge
      /\ r.session.topics \in TopicsAtLarge
    BY DEF TypeOK, MessagesKnown, PositionsAtLarge, TopicsAtLarge, InFlight
<1>2. /\ toBrowser' = toBrowser \ {r}
      /\ jar' \in {jar, r.session}
      /\ UNCHANGED <<searches, geolocating, outbox, toServer>>
    BY DEF Deliver
<1>3. TypeOK'
    <2>1. /\ page' \in [Tabs -> {"closed", "search", "server_error"}]
          /\ path_status' \in [Tabs -> PathStatuses]
          /\ results' \in [Tabs -> Results]
          /\ groupby' \in [Tabs -> Groupings]
          /\ output' \in [Tabs -> Outputs]
        <3>1. CASE QueryAnswered(r)
            <4>1. /\ r.path_status \in PathStatuses
                  /\ [search |-> r.search, latlon |-> r.session.latlon,
                      topics |-> r.session.topics] \in Results
                BY <1>1 DEF Replies, Sessions, Results
            <4>2. QED
                BY <1>1, <3>1, <4>1, ShowTyped DEF QueryAnswered
        <3>2. CASE QueryFailed(r)
            BY <1>1, <3>2, BlankTyped, ShowTyped DEF QueryFailed, PathStatuses
        <3>3. CASE SetterFailed(r)
            BY <1>1, <3>3, ShowTyped DEF SetterFailed, PathStatuses, TypeOK
        <3>4. CASE NothingToShow(r)
            BY <3>4 DEF NothingToShow, pageVars, TypeOK
        <3>5. QED
            BY <3>1, <3>2, <3>3, <3>4 DEF Deliver
    <2>2. jar' \in Sessions
        BY <1>1, <1>2 DEF TypeOK, Replies
    <2>3. QED
        BY <1>2, <2>1, <2>2 DEF TypeOK
<1>4. /\ InFlight' \subseteq InFlight
      /\ PositionsAtLarge' \subseteq PositionsAtLarge
      /\ TopicsAtLarge' \subseteq TopicsAtLarge
    <2>1. InFlight' \subseteq InFlight
        BY <1>2 DEF InFlight
    <2>2. QED
        BY <1>1, <1>2, <2>1 DEF PositionsAtLarge, TopicsAtLarge
<1>5. PromptsKnown' /\ QueuesKnown' /\ QueuesOrdered'
    BY <1>2 DEF PromptsKnown, QueuesKnown, QueuesOrdered
<1>6. MessagesKnown' /\ DataKnown' /\ WaitingQueriesLag'
    BY <1>2, <1>4 DEF MessagesKnown, DataKnown, WaitingQueriesLag
<1>7. QueriesLag'
    BY <1>2 DEF QueriesLag, Lags
<1>8. QED
    BY <1>3, <1>5, <1>6, <1>7

LEMMA NextInv == Inv /\ [Next]_vars => Inv'
<1> SUFFICES ASSUME Inv, [Next]_vars PROVE Inv'
    OBVIOUS
<1>1. ASSUME NEW t \in Tabs, Open(t) PROVE Inv'
    BY <1>1, OpenInv
<1>2. ASSUME NEW t \in Tabs, Click(t) PROVE Inv'
    BY <1>2, ClickInv
<1>3. ASSUME NEW t \in Tabs, StartRequest(t) PROVE Inv'
    BY <1>3, StartRequestInv
<1>4. ASSUME NEW t \in Tabs, NEW g \in Groupings, SelectGrouping(t, g) PROVE Inv'
    BY <1>4, SelectGroupingInv
<1>5. ASSUME NEW i \in geolocating, GeolocationFix(i) PROVE Inv'
    BY <1>5, GeolocationFixInv
<1>6. ASSUME NEW i \in geolocating, GeolocationRefused(i) PROVE Inv'
    BY <1>6, GeolocationRefusedInv
<1>7. ASSUME NEW q \in toServer, Serve(q) \/ Lose(q) PROVE Inv'
    BY <1>7, AnswerSteps, AnswerInv DEF Inv
<1>8. ASSUME NEW r \in toBrowser, Deliver(r) PROVE Inv'
    BY <1>8, DeliverInv
<1>9. CASE QuitBrowser
    BY <1>9, QuitBrowserInv
<1>10. CASE UNCHANGED vars
    <2>1. TypeOK' /\ PromptsKnown'
        BY <1>10 DEF vars, pageVars, netVars, Inv, TypeOK, PromptsKnown
    <2>2. QED
        BY <1>10, <2>1, Frame DEF vars, netVars
<1>11. QED
    BY <1>1, <1>2, <1>3, <1>4, <1>5, <1>6, <1>7, <1>8, <1>9, <1>10 DEF Next

LEMMA Invariance == Spec => []Inv
BY InitInv, NextInv, PTL DEF Spec

(* Every variable of the page, the browser and the network keeps its type: *)
(* handlers and callbacks produce only the statuses, answers, sessions and *)
(* requests the code names.                                                *)
THEOREM TypeCorrect == Spec => []TypeOK
BY Invariance, PTL DEF Inv

(* For any number of tabs and searches: a query that left the browser      *)
(* carries, of its own tab, only positions of earlier searches (line 163   *)
(* of main_search.js issues it before the position is known) and no topics *)
(* of later ones.                                                          *)
THEOREM QueriesAlwaysLag == Spec => []QueriesLag
BY Invariance, PTL DEF Inv
------------------------------------------------------------------------------
(* What the answers on screen are made of. *)

(* A tab's results lag like the queries they came from, and lack nothing. *)
ResultsLag ==
    \A t \in Tabs : results[t].search # Absent =>
        /\ results[t].search \in DOMAIN searches
        /\ results[t].latlon \in DOMAIN searches
        /\ results[t].topics \in DOMAIN searches
        /\ Lags(results[t].search, results[t])

(* An answer on its way was computed from a session that lacks nothing. *)
RepliesComplete ==
    \A r \in toBrowser : r.endpoint = "runQuery" /\ r.ok =>
        r.session.latlon # Absent /\ r.session.topics # Absent

ShowInv ==
    /\ ResultsLag
    /\ RepliesComplete
    /\ DisplayMatchesState

(* run_query succeeds only with a position and topics. *)
LEMMA SuccessComplete ==
    ASSUME NEW q \in toServer, q.endpoint = "runQuery", Serve(q) \/ Lose(q), TypeOK
    PROVE  \E a : /\ Answer(q, a)
                  /\ a.ok => a.session.latlon # Absent /\ a.session.topics # Absent
<1>1. Failure.ok = FALSE
    BY DEF Failure
<1>2. CASE Lose(q)
    BY <1>1, <1>2 DEF Lose
<1>3. CASE Serve(q)
    <2>1. PICK a \in run_query(q.session, q.search) : Answer(q, a)
        BY <1>3 DEF Serve, Handle
    <2>2. a.ok => a.session = q.session /\ Answerable(q.session)
        BY <1>1, <2>1 DEF run_query
    <2>3. QED
        BY <2>1, <2>2 DEF Answerable
<1>4. QED
    BY <1>2, <1>3

(* Searches are only ever appended. *)
LEMMA SearchesGrow ==
    ASSUME TypeOK, [Next]_vars
    PROVE  \A j \in DOMAIN searches : j \in DOMAIN searches' /\ searches'[j] = searches[j]
<1>1. searches' = searches \/ \E t \in Tabs : searches' = Append(searches, t)
    BY DEF Next, vars, pageVars, netVars, Open, Click, StartRequest, SelectGrouping,
       GeolocationFix, GeolocationRefused, Serve, Lose, Answer, Deliver, QuitBrowser
<1>2. CASE searches' = searches
    BY <1>2
<1>3. ASSUME NEW t \in Tabs, searches' = Append(searches, t)
      PROVE  \A j \in DOMAIN searches : j \in DOMAIN searches' /\ searches'[j] = searches[j]
    <2>1. searches \in Seq(Tabs)
        BY DEF TypeOK
    <2>2. QED
        BY <1>3, <2>1, AppendProperties, LenProperties
<1>4. QED
    BY <1>1, <1>2, <1>3

(* Lags does not change for searches that exist. *)
LEMMA LagsStable ==
    ASSUME \A j \in DOMAIN searches : j \in DOMAIN searches' /\ searches'[j] = searches[j],
           NEW i \in DOMAIN searches, NEW s,
           s.latlon \in DOMAIN searches, s.topics \in DOMAIN searches,
           Lags(i, s)
    PROVE  Lags(i, s)'
BY DEF Lags

LEMMA ResultsLagKept ==
    ASSUME ResultsLag, TypeOK, [Next]_vars,
           \A t \in Tabs : results'[t] \in {results[t], NoResults}
    PROVE  ResultsLag'
BY SearchesGrow, LagsStable DEF ResultsLag, NoResults

(* The parts about answers and about what is on screen, action by action. *)
LEMMA RepliesCompleteStep == TypeOK /\ RepliesComplete /\ [Next]_vars => RepliesComplete'
<1> SUFFICES ASSUME TypeOK, RepliesComplete, [Next]_vars PROVE RepliesComplete'
    OBVIOUS
<1>1. CASE toBrowser' \subseteq toBrowser
    BY <1>1 DEF RepliesComplete
<1>2. ASSUME NEW q \in toServer, Serve(q) \/ Lose(q) PROVE RepliesComplete'
    <2>1. CASE q.endpoint = "runQuery"
        BY <1>2, <2>1, SuccessComplete DEF RepliesComplete, Answer, Reply
    <2>2. CASE q.endpoint # "runQuery"
        BY <1>2, <2>2, AnswerSteps DEF RepliesComplete, Answer, Reply
    <2>3. QED
        BY <2>1, <2>2
<1>3. QED
    BY <1>1, <1>2 DEF Next, vars, pageVars, netVars, Open, Click, StartRequest, SelectGrouping,
       GeolocationFix, GeolocationRefused, Deliver, QuitBrowser

(* Every callback that changes what a tab holds renders it. *)
LEMMA DisplayStep ==
    TypeOK /\ MessagesKnown /\ DisplayMatchesState /\ [Next]_vars => DisplayMatchesState'
<1> SUFFICES ASSUME TypeOK, MessagesKnown, DisplayMatchesState, [Next]_vars
             PROVE  DisplayMatchesState'
    OBVIOUS
<1> USE DEF DisplayMatchesState
<1>1. ASSUME NEW t \in Tabs, Open(t) PROVE DisplayMatchesState'
    BY <1>1 DEF TypeOK, Open, generateMainOutput
<1>2. ASSUME NEW t \in Tabs, Click(t) PROVE DisplayMatchesState'
    BY <1>2 DEF TypeOK, Click
<1>3. ASSUME NEW t \in Tabs, NEW g \in Groupings, SelectGrouping(t, g)
      PROVE  DisplayMatchesState'
    BY <1>3 DEF TypeOK, SelectGrouping
<1>4. ASSUME NEW t \in Tabs, NEW status, NEW res, Show(t, status, res)
      PROVE  DisplayMatchesState'
    BY <1>4 DEF TypeOK, Show
<1>5. ASSUME NEW r \in toBrowser, Deliver(r) PROVE DisplayMatchesState'
    <2>1. searches[r.search] \in Tabs
        BY DEF TypeOK, MessagesKnown, InFlight
    <2>2. CASE NothingToShow(r)
        BY <2>2 DEF NothingToShow, pageVars
    <2>3. QED
        BY <1>4, <1>5, <2>1, <2>2 DEF Deliver, QueryAnswered, QueryFailed, SetterFailed
<1>6. CASE QuitBrowser
    BY <1>6 DEF QuitBrowser, generateMainOutput
<1>7. CASE UNCHANGED pageVars
    BY <1>7 DEF pageVars
<1>8. QED
    BY <1>1, <1>2, <1>3, <1>5, <1>6, <1>7 DEF Next, vars, netVars, StartRequest,
       GeolocationFix, GeolocationRefused, Serve, Lose, Answer

(* Only a successful query brings results, and they are what it carried. *)
LEMMA ResultsLagStep ==
    Inv /\ RepliesComplete /\ ResultsLag /\ [Next]_vars => ResultsLag'
<1> SUFFICES ASSUME Inv, RepliesComplete, ResultsLag, [Next]_vars PROVE ResultsLag'
    OBVIOUS
<1> USE DEF Inv
<1>1. CASE \A t \in Tabs : results'[t] \in {results[t], NoResults}
    BY <1>1, ResultsLagKept
<1>2. ASSUME NEW r \in toBrowser, Deliver(r), QueryAnswered(r) PROVE ResultsLag'
    <2> DEFINE res == [search |-> r.search, latlon |-> r.session.latlon,
                       topics |-> r.session.topics]
    <2> DEFINE t == searches[r.search]
    <2>1. /\ t \in Tabs /\ r.search \in DOMAIN searches
          /\ r.session.latlon \in PositionsAtLarge /\ r.session.topics \in TopicsAtLarge
        BY DEF TypeOK, MessagesKnown, PositionsAtLarge, TopicsAtLarge, InFlight
    <2>2. r.endpoint = "runQuery" /\ r.ok
        BY <1>2 DEF QueryAnswered
    <2>3. res.latlon \in DOMAIN searches /\ res.topics \in DOMAIN searches
        BY <2>1, <2>2 DEF RepliesComplete, DataKnown
    <2>4. Lags(res.search, res)
        BY <2>2 DEF QueriesLag, Lags
    <2>5. searches' = searches /\ results' = [results EXCEPT ![t] = res]
        BY <1>2 DEF Deliver, QueryAnswered, Show
    <2> HIDE DEF res
    <2>6. res.search \in DOMAIN searches
        BY <2>1 DEF res
    <2>7. \A u \in Tabs : results'[u] = IF u = t THEN res ELSE results[u]
        BY <2>5 DEF TypeOK
    <2>8. QED
        BY <2>3, <2>4, <2>5, <2>6, <2>7 DEF ResultsLag, Lags
<1>3. ASSUME NEW r \in toBrowser, Deliver(r), ~QueryAnswered(r)
      PROVE  \A t \in Tabs : results'[t] \in {results[t], NoResults}
    BY <1>3 DEF Deliver, QueryFailed, SetterFailed, NothingToShow, Show, pageVars, TypeOK
<1>4. ASSUME ~\E r \in toBrowser : Deliver(r)
      PROVE  \A t \in Tabs : results'[t] \in {results[t], NoResults}
    BY <1>4 DEF Next, vars, pageVars, netVars, Open, Click, StartRequest, SelectGrouping,
       GeolocationFix, GeolocationRefused, Serve, Lose, Answer, QuitBrowser, TypeOK
<1>5. QED
    BY <1>1, <1>2, <1>3, <1>4

LEMMA ShowInvariance == Spec => []ShowInv
<1>1. Init => ShowInv
    BY DEF Init, ShowInv, ResultsLag, RepliesComplete, DisplayMatchesState,
       NoResults, generateMainOutput
<1>2. Inv /\ ShowInv /\ [Next]_vars => ShowInv'
    BY RepliesCompleteStep, DisplayStep, ResultsLagStep DEF Inv, ShowInv
<1>3. QED
    BY <1>1, <1>2, Invariance, PTL DEF Spec

(* A tab that is not searching shows what its globals say, whatever *)
(* callbacks ran in whatever order.                                 *)
THEOREM DisplayAlwaysMatches == Spec => []DisplayMatchesState
BY ShowInvariance, PTL DEF ShowInv

(* No answer was computed without a position or without topics. *)
THEOREM AnswersAlwaysComplete == Spec => []AnswersAreComplete
<1>1. TypeOK /\ ShowInv => AnswersAreComplete
    BY DEF TypeOK, ShowInv, ResultsLag, AnswersAreComplete, Absent
<1>2. QED
    BY <1>1, TypeCorrect, ShowInvariance, PTL

(* As long as one tab is used, the first search is never answered: its *)
(* query could only carry a position of an earlier search.             *)
THEOREM FirstSearchNeverAnswered == Spec => []FirstSearchUnanswered
<1>1. TypeOK /\ ShowInv => FirstSearchUnanswered
    <2> SUFFICES ASSUME TypeOK, ResultsLag,
                        \A i \in DOMAIN searches : searches[i] = searches[1],
                        NEW t \in Tabs, results[t].search = 1
                 PROVE  FALSE
        BY DEF ShowInv, FirstSearchUnanswered
    <2> DEFINE j == results[t].latlon
    <2>1. j \in DOMAIN searches /\ Lags(1, results[t])
        BY DEF ResultsLag, Absent
    <2>2. j \in Nat /\ j # 0
        BY <2>1 DEF TypeOK
    <2>3. j < 1
        BY <2>1, <2>2 DEF Lags, Absent
    <2>4. QED
        BY <2>2, <2>3
<1>2. QED
    BY <1>1, TypeCorrect, ShowInvariance, PTL
-----------------------------------------------------------------------------
(***************************************************************************)
(* SearchPage implements LaggedSearch.  A search is open while its query   *)
(* is somewhere.  That delivering the answer closes it, and nothing else   *)
(* opens it again, holds because its query is in one place at a time:      *)
(* queued, at the server, or coming back.                                  *)
(***************************************************************************)

QueriesIn(S) == {x \in S : IsQuery(x)}

Queued ==
    {i \in DOMAIN searches : \E n \in DOMAIN outbox[searches[i]] :
        IsQuery(outbox[searches[i]][n]) /\ outbox[searches[i]][n].search = i}
Asked == {q.search : q \in QueriesIn(toServer)}
Replied == {r.search : r \in QueriesIn(toBrowser)}

(* No search has two queries in a queue, at the server or coming back. *)
QueuedOnce ==
    \A t \in Tabs : \A m, n \in DOMAIN outbox[t] :
        IsQuery(outbox[t][m]) /\ IsQuery(outbox[t][n])
            /\ outbox[t][m].search = outbox[t][n].search => m = n

AskedOnce ==
    \A q, r \in QueriesIn(toServer) : q.search = r.search => q = r

RepliedOnce ==
    \A q, r \in QueriesIn(toBrowser) : q.search = r.search => q = r

Apart ==
    /\ Queued \cap Asked = {}
    /\ Queued \cap Replied = {}
    /\ Asked \cap Replied = {}

OnePlace == QueuedOnce /\ AskedOnce /\ RepliedOnce /\ Apart

LEMMA OpenIsSomewhere ==
    MessagesKnown => OpenSearches = Queued \cup Asked \cup Replied
<1> SUFFICES ASSUME MessagesKnown
             PROVE  OpenSearches = Queued \cup Asked \cup Replied
    OBVIOUS
<1>1. Asked \cup Replied =
        {i \in DOMAIN searches :
            \E x \in toServer \cup toBrowser : IsQuery(x) /\ x.search = i}
    BY DEF MessagesKnown, InFlight, Asked, Replied, QueriesIn
<1>2. QED
    BY <1>1 DEF OpenSearches, Queued

(* The same of the next state. *)
LEMMA OpenIsSomewhereNext ==
    MessagesKnown' => OpenSearches' = Queued' \cup Asked' \cup Replied'
<1> SUFFICES ASSUME MessagesKnown'
             PROVE  OpenSearches' = Queued' \cup Asked' \cup Replied'
    OBVIOUS
<1>1. Asked' \cup Replied' =
        {i \in DOMAIN searches' :
            \E x \in toServer' \cup toBrowser' : IsQuery(x) /\ x.search = i}
    BY DEF MessagesKnown, InFlight, Asked, Replied, QueriesIn, IsQuery
<1>2. QED
    BY <1>1 DEF OpenSearches, Queued, IsQuery

------------------------------------------------------------------------------
(* What each action does to the places, and that it keeps them apart. *)

(* Where the elements are when three are put at the end. *)
LEMMA ThreeMore ==
    ASSUME NEW S, NEW q \in Seq(S), NEW a \in S, NEW b \in S, NEW c \in S
    PROVE  LET r == q \o <<a, b, c>> IN
           /\ Len(q) \in Nat /\ DOMAIN q = 1 .. Len(q)
           /\ DOMAIN r = 1 .. Len(q) + 3
           /\ \A n \in 1 .. Len(q) : r[n] = q[n]
           /\ r[Len(q) + 1] = a /\ r[Len(q) + 2] = b /\ r[Len(q) + 3] = c
<1> DEFINE z == <<a, b, c>>
<1> DEFINE r == q \o z
<1>1. z \in Seq(S) /\ Len(z) = 3 /\ z[1] = a /\ z[2] = b /\ z[3] = c
    OBVIOUS
<1> HIDE DEF z
<1>2. Len(q) \in Nat /\ DOMAIN q = 1 .. Len(q)
    OBVIOUS
<1>3. r \in Seq(S) /\ Len(r) = Len(q) + 3
    <2>1. r \in Seq(S) /\ Len(r) = Len(q) + Len(z)
        BY <1>1, ConcatProperties
    <2>2. QED
        BY <1>1, <1>2, <2>1
<1>4. DOMAIN r = 1 .. Len(q) + 3
    BY <1>3
<1>5. \A n \in 1 .. Len(q) : r[n] = q[n]
    BY <1>1
<1>6. \A n \in 1 .. Len(r) : n > Len(q) => r[n] = z[n - Len(q)]
    BY <1>1
<1> HIDE DEF r
<1>7. r[Len(q) + 1] = z[1] /\ r[Len(q) + 2] = z[2] /\ r[Len(q) + 3] = z[3]
    BY <1>2, <1>3, <1>6
<1>8. QED
    BY <1>1, <1>2, <1>4, <1>5, <1>7 DEF z, r

(* A new query is queued, of a search that is nowhere else. *)
LEMMA ClickMoves ==
    ASSUME Inv, OnePlace, NEW t \in Tabs, Click(t)
    PROVE  /\ Queued' = Queued \cup {Len(searches) + 1}
           /\ UNCHANGED <<Asked, Replied>>
           /\ OnePlace'
<1> DEFINE i == Len(searches) + 1
<1> DEFINE clear == Call(i, "clearSession")
<1> DEFINE setter == Call(i, "setTopics")
<1> DEFINE query == Call(i, "runQuery")
<1> DEFINE q == outbox[t]
<1>1. /\ searches \in Seq(Tabs) /\ i \in Searches
      /\ searches' = Append(searches, t)
      /\ UNCHANGED <<toServer, toBrowser>>
    BY MaxSearchesAssumption DEF Inv, TypeOK, Click, Searches
<1>2. /\ DOMAIN searches' = DOMAIN searches \cup {i}
      /\ \A j \in DOMAIN searches : searches'[j] = searches[j]
      /\ searches'[i] = t
      /\ i \notin DOMAIN searches
    BY <1>1
<1>3. /\ clear.search = i /\ setter.search = i /\ query.search = i
      /\ ~IsQuery(clear) /\ ~IsQuery(setter) /\ IsQuery(query)
      /\ {clear, setter, query} \subseteq Calls
    BY <1>1 DEF Call, IsQuery, Calls, Endpoints
<1>4. /\ q \in Seq(Calls) /\ outbox'[t] = q \o <<clear, setter, query>>
      /\ \A u \in Tabs \ {t} : outbox'[u] = outbox[u]
    BY DEF Inv, TypeOK, Click
<1> HIDE DEF clear, setter, query
<1>5. /\ Len(q) \in Nat /\ DOMAIN q = 1 .. Len(q)
      /\ DOMAIN outbox'[t] = 1 .. Len(q) + 3
      /\ \A n \in 1 .. Len(q) : outbox'[t][n] = q[n]
      /\ outbox'[t][Len(q) + 1] = clear
      /\ outbox'[t][Len(q) + 2] = setter
      /\ outbox'[t][Len(q) + 3] = query
    BY <1>3, <1>4, ThreeMore
<1> HIDE DEF i
<1>6. \A n \in DOMAIN outbox'[t] : IsQuery(outbox'[t][n]) =>
         \/ n \in DOMAIN q /\ outbox'[t][n] = q[n]
         \/ n = Len(q) + 3 /\ outbox'[t][n] = query
    BY <1>3, <1>5
<1>7. \A n \in DOMAIN q : q[n].search # i
    BY <1>2 DEF Inv, QueuesKnown
<1>8. \A n \in DOMAIN q : n \in DOMAIN outbox'[t] /\ outbox'[t][n] = q[n]
    BY <1>5
<1>9. Len(q) + 3 \in DOMAIN outbox'[t] /\ outbox'[t][Len(q) + 3] = query
    BY <1>5
<1>10. Queued' = Queued \cup {i}
    <2>1. Queued \subseteq Queued'
        <3> SUFFICES ASSUME NEW j \in DOMAIN searches, NEW n \in DOMAIN outbox[searches[j]],
                            IsQuery(outbox[searches[j]][n]), outbox[searches[j]][n].search = j
                     PROVE  j \in Queued'
            BY DEF Queued
        <3>1. searches[j] \in Tabs /\ searches'[j] = searches[j] /\ j \in DOMAIN searches'
            BY <1>1, <1>2
        <3>2. n \in DOMAIN outbox'[searches[j]] /\ outbox'[searches[j]][n] = outbox[searches[j]][n]
            BY <1>4, <1>8, <3>1
        <3>3. QED
            BY <3>1, <3>2 DEF Queued, IsQuery
    <2>2. i \in Queued'
        BY <1>2, <1>3, <1>9 DEF Queued, IsQuery
    <2>3. Queued' \subseteq Queued \cup {i}
        <3> SUFFICES ASSUME NEW j \in DOMAIN searches', NEW n \in DOMAIN outbox'[searches'[j]],
                            IsQuery(outbox'[searches'[j]][n]), outbox'[searches'[j]][n].search = j,
                            j # i
                     PROVE  j \in Queued
            BY DEF Queued, IsQuery
        <3>1. j \in DOMAIN searches /\ searches'[j] = searches[j] /\ searches[j] \in Tabs
            BY <1>1, <1>2
        <3>2. CASE searches[j] = t
            <4>1. n \in DOMAIN q /\ outbox'[t][n] = q[n]
                BY <1>3, <1>6, <3>1, <3>2
            <4>2. QED
                BY <3>1, <3>2, <4>1 DEF Queued
        <3>3. CASE searches[j] # t
            BY <1>4, <3>1, <3>3 DEF Queued
        <3>4. QED
            BY <3>2, <3>3
    <2>4. QED
        BY <2>1, <2>2, <2>3
<1>11. Asked' = Asked /\ Replied' = Replied /\ AskedOnce' /\ RepliedOnce'
    BY <1>1 DEF Asked, Replied, AskedOnce, RepliedOnce, OnePlace, QueriesIn, IsQuery
<1>12. QueuedOnce'
    <2> SUFFICES ASSUME NEW u \in Tabs, NEW m \in DOMAIN outbox'[u], NEW n \in DOMAIN outbox'[u],
                        IsQuery(outbox'[u][m]), IsQuery(outbox'[u][n]),
                        outbox'[u][m].search = outbox'[u][n].search
                 PROVE  m = n
        BY DEF QueuedOnce, IsQuery
    <2>1. CASE u # t
        BY <1>4, <2>1 DEF OnePlace, QueuedOnce
    <2>2. CASE u = t
        BY <1>3, <1>6, <1>7, <2>2 DEF OnePlace, QueuedOnce
    <2>3. QED
        BY <2>1, <2>2
<1>13. Apart'
    <2>1. i \notin Asked /\ i \notin Replied
        BY <1>2 DEF Asked, Replied, QueriesIn, Inv, MessagesKnown, InFlight
    <2>2. QED
        BY <1>10, <1>11, <2>1 DEF OnePlace, Apart
<1>14. QED
    BY <1>10, <1>11, <1>12, <1>13 DEF OnePlace, i

(* What queues, sends and receives nothing moves no query. *)
LEMMA NothingMoves ==
    ASSUME OnePlace, UNCHANGED <<searches, outbox, toServer, toBrowser>>
    PROVE  UNCHANGED <<Queued, Asked, Replied>> /\ OnePlace'
<1>1. UNCHANGED <<Queued, Asked, Replied>>
    BY DEF Queued, Asked, Replied, QueriesIn, IsQuery
<1>2. QueuedOnce' /\ AskedOnce' /\ RepliedOnce'
    BY DEF OnePlace, QueuedOnce, AskedOnce, RepliedOnce, QueriesIn, IsQuery
<1>3. QED
    BY <1>1, <1>2 DEF OnePlace, Apart

(* A position that is queued is not a query. *)
LEMMA FixMoves ==
    ASSUME Inv, OnePlace, NEW i \in geolocating, GeolocationFix(i)
    PROVE  UNCHANGED <<Queued, Asked, Replied>> /\ OnePlace'
<1> DEFINE t == searches[i]
<1> DEFINE new == Call(i, "setLocation")
<1> DEFINE q == outbox[t]
<1>1. t \in Tabs /\ new \in Calls /\ ~IsQuery(new)
    BY DEF Inv, TypeOK, PromptsKnown, Calls, Call, Endpoints, IsQuery
<1>2. /\ q \in Seq(Calls) /\ outbox'[t] = Append(q, new)
      /\ \A u \in Tabs \ {t} : outbox'[u] = outbox[u]
      /\ UNCHANGED <<searches, toServer, toBrowser>>
    BY <1>1 DEF Inv, TypeOK, GeolocationFix
<1> HIDE DEF new, t, q
<1>3. /\ \A n \in DOMAIN q : n \in DOMAIN outbox'[t] /\ outbox'[t][n] = q[n]
      /\ \A n \in DOMAIN outbox'[t] : n \in DOMAIN q \/ outbox'[t][n] = new
    BY <1>1, <1>2
<1>4. \A u \in Tabs : /\ \A n \in DOMAIN outbox[u] :
                            n \in DOMAIN outbox'[u] /\ outbox'[u][n] = outbox[u][n]
                      /\ \A n \in DOMAIN outbox'[u] : IsQuery(outbox'[u][n]) =>
                            n \in DOMAIN outbox[u] /\ outbox'[u][n] = outbox[u][n]
    BY <1>1, <1>2, <1>3 DEF q
<1>5. \A j \in DOMAIN searches : searches[j] \in Tabs
    BY DEF Inv, TypeOK
<1>6. Queued' = Queued
    BY <1>2, <1>4, <1>5 DEF Queued, IsQuery
<1>7. Asked' = Asked /\ Replied' = Replied /\ AskedOnce' /\ RepliedOnce'
    BY <1>2 DEF Asked, Replied, AskedOnce, RepliedOnce, OnePlace, QueriesIn, IsQuery
<1>8. QueuedOnce'
    BY <1>4 DEF OnePlace, QueuedOnce, IsQuery
<1>9. QED
    BY <1>6, <1>7, <1>8 DEF OnePlace, Apart

(* A query leaves its queue for the server, and stays open. *)
LEMMA StartMoves ==
    ASSUME Inv, OnePlace, NEW t \in Tabs, StartRequest(t)
    PROVE  UNCHANGED <<Queued \cup Asked, Replied>> /\ OnePlace'
<1> DEFINE h == Head(outbox[t])
<1> DEFINE q == [search |-> h.search, endpoint |-> h.endpoint, session |-> jar]
<1>1. /\ outbox[t] \in Seq(Calls) /\ outbox[t] # <<>>
      /\ outbox' = [outbox EXCEPT ![t] = Tail(@)]
      /\ toServer' = toServer \cup {q}
      /\ UNCHANGED <<searches, toBrowser>>
    BY DEF Inv, TypeOK, StartRequest
<1>2. /\ 1 \in DOMAIN outbox[t] /\ h = outbox[t][1]
      /\ \A n \in DOMAIN outbox'[t] :
            n + 1 \in DOMAIN outbox[t] /\ outbox'[t][n] = outbox[t][n + 1] /\ n \in Nat /\ n + 1 # 1
      /\ \A n \in DOMAIN outbox[t] : n = 1 \/
            (n - 1 \in DOMAIN outbox'[t] /\ outbox'[t][n - 1] = outbox[t][n])
    <2>1. outbox'[t] = Tail(outbox[t])
        BY <1>1 DEF Inv, TypeOK
    <2>2. Len(outbox[t]) \in Nat /\ Len(outbox[t]) # 0 /\ DOMAIN outbox[t] = 1 .. Len(outbox[t])
        BY <1>1, EmptySeq
    <2>3. h = outbox[t][1]
        BY <1>1, HeadTailProperties
    <2>4. /\ DOMAIN Tail(outbox[t]) = 1 .. Len(outbox[t]) - 1
          /\ \A n \in 1 .. Len(outbox[t]) - 1 : Tail(outbox[t])[n] = outbox[t][n + 1]
        BY <1>1, HeadTailProperties
    <2>5. QED
        BY <2>1, <2>2, <2>3, <2>4
<1>3. \A u \in Tabs \ {t} : outbox'[u] = outbox[u]
    BY <1>1 DEF Inv, TypeOK
<1>4. h.search \in DOMAIN searches /\ searches[h.search] = t
    BY <1>2 DEF Inv, QueuesKnown
<1>5. q.search = h.search /\ IsQuery(q) = IsQuery(h)
    BY DEF IsQuery
<1>6. \A j \in DOMAIN searches : searches[j] \in Tabs
    BY DEF Inv, TypeOK
<1> HIDE DEF q, h
<1>7. Queued' \subseteq Queued
    <2> SUFFICES ASSUME NEW j \in DOMAIN searches, NEW n \in DOMAIN outbox'[searches[j]],
                        IsQuery(outbox'[searches[j]][n]), outbox'[searches[j]][n].search = j
                 PROVE  j \in Queued
        BY <1>1 DEF Queued, IsQuery
    <2>1. CASE searches[j] = t
        BY <1>2, <2>1 DEF Queued
    <2>2. CASE searches[j] # t
        BY <1>3, <1>6, <2>2 DEF Queued
    <2>3. QED
        BY <2>1, <2>2
<1>8. Queued \subseteq Queued' \cup {x \in {h.search} : IsQuery(h)}
    <2> SUFFICES ASSUME NEW j \in DOMAIN searches, NEW n \in DOMAIN outbox[searches[j]],
                        IsQuery(outbox[searches[j]][n]), outbox[searches[j]][n].search = j,
                        ~(IsQuery(h) /\ j = h.search)
                 PROVE  j \in Queued'
        BY DEF Queued
    <2>1. CASE searches[j] = t
        <3>1. n # 1
            BY <1>2, <2>1
        <3>2. n - 1 \in DOMAIN outbox'[t] /\ outbox'[t][n - 1] = outbox[t][n]
            BY <1>2, <2>1, <3>1
        <3>3. QED
            BY <1>1, <2>1, <3>2 DEF Queued, IsQuery
    <2>2. CASE searches[j] # t
        BY <1>1, <1>3, <1>6, <2>2 DEF Queued, IsQuery
    <2>3. QED
        BY <2>1, <2>2
<1>9. IsQuery(h) => h.search \in Queued /\ h.search \notin Queued'
    <2> SUFFICES ASSUME IsQuery(h)
                 PROVE  h.search \in Queued /\ h.search \notin Queued'
        OBVIOUS
    <2>1. h.search \in Queued
        BY <1>2, <1>4 DEF Queued
    <2>2. ASSUME NEW n \in DOMAIN outbox'[t], IsQuery(outbox'[t][n]),
                 outbox'[t][n].search = h.search
          PROVE  FALSE
        BY <1>2, <2>2 DEF OnePlace, QueuedOnce
    <2>3. QED
        BY <1>1, <1>4, <2>1, <2>2 DEF Queued, IsQuery
<1>10. QueriesIn(toServer)' = QueriesIn(toServer) \cup {x \in {q} : IsQuery(h)}
    BY <1>1, <1>5 DEF QueriesIn, IsQuery
<1>11. Asked' = Asked \cup {x \in {h.search} : IsQuery(h)}
    BY <1>5, <1>10 DEF Asked, QueriesIn, IsQuery
<1>12. Replied' = Replied /\ RepliedOnce'
    BY <1>1 DEF Replied, RepliedOnce, OnePlace, QueriesIn, IsQuery
<1>13. AskedOnce'
    <2>1. IsQuery(h) => \A r \in QueriesIn(toServer) : r.search # q.search
        BY <1>5, <1>9 DEF OnePlace, Apart, Asked
    <2>2. QED
        BY <1>10, <2>1 DEF OnePlace, AskedOnce
<1>14. QueuedOnce'
    <2> SUFFICES ASSUME NEW u \in Tabs, NEW m \in DOMAIN outbox'[u], NEW n \in DOMAIN outbox'[u],
                        IsQuery(outbox'[u][m]), IsQuery(outbox'[u][n]),
                        outbox'[u][m].search = outbox'[u][n].search
                 PROVE  m = n
        BY DEF QueuedOnce, IsQuery
    <2>1. CASE u = t
        <3>1. m + 1 = n + 1
            BY <1>2, <2>1 DEF OnePlace, QueuedOnce
        <3>2. QED
            BY <1>2, <2>1, <3>1
    <2>2. CASE u # t
        BY <1>3, <2>2 DEF OnePlace, QueuedOnce
    <2>3. QED
        BY <2>1, <2>2
<1>15. Apart'
    BY <1>7, <1>9, <1>11, <1>12 DEF OnePlace, Apart
<1>16. (Queued \cup Asked)' = Queued \cup Asked
    BY <1>7, <1>8, <1>9, <1>11
<1>17. QED
    BY <1>12, <1>13, <1>14, <1>15, <1>16 DEF OnePlace

(* The answer to a query is on its way where its query was. *)
LEMMA AnswerMoves ==
    ASSUME Inv, OnePlace, NEW q \in toServer, NEW a, Answer(q, a)
    PROVE  UNCHANGED <<Queued, Asked \cup Replied>> /\ OnePlace'
<1> DEFINE r == Reply(q, a)
<1>1. /\ toServer' = toServer \ {q} /\ toBrowser' = toBrowser \cup {r}
      /\ UNCHANGED <<searches, outbox>>
    BY DEF Answer
<1>2. r.search = q.search /\ IsQuery(r) = IsQuery(q)
    BY DEF Reply, IsQuery
<1> HIDE DEF r
<1>3. Queued' = Queued /\ QueuedOnce'
    BY <1>1 DEF Queued, OnePlace, QueuedOnce, IsQuery
<1>4. /\ QueriesIn(toServer)' = QueriesIn(toServer) \ {q}
      /\ QueriesIn(toBrowser)' = QueriesIn(toBrowser) \cup {x \in {r} : IsQuery(q)}
    BY <1>1, <1>2 DEF QueriesIn, IsQuery
<1>5. Asked' = Asked \ {x \in {q.search} : IsQuery(q)}
    BY <1>4 DEF OnePlace, AskedOnce, Asked, QueriesIn
<1>6. Replied' = Replied \cup {x \in {q.search} : IsQuery(q)}
    BY <1>2, <1>4 DEF Replied
<1>7. IsQuery(q) => q.search \in Asked
    BY DEF Asked, QueriesIn
<1>8. AskedOnce'
    BY <1>4 DEF OnePlace, AskedOnce
<1>9. RepliedOnce'
    <2>1. IsQuery(q) => \A x \in QueriesIn(toBrowser) : x.search # r.search
        BY <1>2, <1>7 DEF OnePlace, Apart, Replied
    <2>2. QED
        BY <1>4, <2>1 DEF OnePlace, RepliedOnce
<1>10. Apart'
    BY <1>3, <1>5, <1>6, <1>7 DEF OnePlace, Apart
<1>11. (Asked \cup Replied)' = Asked \cup Replied
    BY <1>5, <1>6, <1>7
<1>12. QED
    BY <1>3, <1>8, <1>9, <1>10, <1>11 DEF OnePlace

(* A query whose answer arrives is nowhere any more. *)
LEMMA DeliverMoves ==
    ASSUME Inv, OnePlace, NEW r \in toBrowser, Deliver(r)
    PROVE  /\ UNCHANGED <<Queued, Asked>>
           /\ Replied' = Replied \ {i \in {r.search} : IsQuery(r)}
           /\ OnePlace'
<1>1. toBrowser' = toBrowser \ {r} /\ UNCHANGED <<searches, outbox, toServer>>
    BY DEF Deliver
<1>2. QueriesIn(toBrowser)' = QueriesIn(toBrowser) \ {r}
    BY <1>1 DEF QueriesIn, IsQuery
<1>3. Replied' = Replied \ {i \in {r.search} : IsQuery(r)}
    BY <1>2 DEF OnePlace, RepliedOnce, Replied, QueriesIn
<1>4. UNCHANGED <<Queued, Asked>> /\ QueuedOnce' /\ AskedOnce'
    BY <1>1 DEF Queued, Asked, OnePlace, QueuedOnce, AskedOnce, QueriesIn, IsQuery
<1>5. RepliedOnce'
    BY <1>2 DEF OnePlace, RepliedOnce
<1>6. QED
    BY <1>3, <1>4, <1>5 DEF OnePlace, Apart

(* The pages of some tabs go away: so do their queries, and no other. *)
LEMMA PagesGo ==
    ASSUME Inv, OnePlace, NEW T, T \subseteq Tabs,
           searches' = searches,
           \A t \in Tabs : outbox'[t] = IF t \in T THEN <<>> ELSE outbox[t],
           toServer' = {x \in toServer : searches[x.search] \notin T},
           toBrowser' = {x \in toBrowser : searches[x.search] \notin T}
    PROVE  /\ (Queued \cup Asked \cup Replied)' =
                 {i \in Queued \cup Asked \cup Replied : searches[i] \notin T}
           /\ OnePlace'
<1>1. \A j \in DOMAIN searches : searches[j] \in Tabs
    BY DEF Inv, TypeOK
<1>2. Queued' = {i \in Queued : searches[i] \notin T}
    BY <1>1 DEF Queued, IsQuery
<1>3. /\ QueriesIn(toServer)' = {x \in QueriesIn(toServer) : searches[x.search] \notin T}
      /\ QueriesIn(toBrowser)' = {x \in QueriesIn(toBrowser) : searches[x.search] \notin T}
    BY DEF QueriesIn, IsQuery
<1>4. /\ Asked' = {i \in Asked : searches[i] \notin T}
      /\ Replied' = {i \in Replied : searches[i] \notin T}
    <2>1. /\ \A i : i \in Asked <=> \E q \in QueriesIn(toServer) : q.search = i
          /\ \A i : i \in Replied <=> \E q \in QueriesIn(toBrowser) : q.search = i
        BY DEF Asked, Replied
    <2>2. /\ \A i : i \in Asked' <=> \E q \in QueriesIn(toServer)' : q.search = i
          /\ \A i : i \in Replied' <=> \E q \in QueriesIn(toBrowser)' : q.search = i
        BY DEF Asked, Replied
    <2> HIDE DEF Asked, Replied
    <2>3. \A i : i \in Asked' <=> i \in Asked /\ searches[i] \notin T
        BY <1>3, <2>1, <2>2
    <2>4. \A i : i \in Replied' <=> i \in Replied /\ searches[i] \notin T
        BY <1>3, <2>1, <2>2
    <2>5. QED
        BY <2>3, <2>4
<1>5. QueuedOnce'
    BY DEF OnePlace, QueuedOnce, IsQuery
<1>6. AskedOnce' /\ RepliedOnce'
    BY <1>3 DEF OnePlace, AskedOnce, RepliedOnce
<1>7. QED
    BY <1>2, <1>4, <1>5, <1>6 DEF OnePlace, Apart
------------------------------------------------------------------------------
(* The refinement. *)

(* The same places, the same answers: LaggedSearch does not notice. *)
LEMMA LaggedStutter ==
    ASSUME MessagesKnown, MessagesKnown', UNCHANGED <<searches, results>>,
           (Queued \cup Asked \cup Replied)' = Queued \cup Asked \cup Replied
    PROVE  UNCHANGED Lagged!vars
<1>1. OpenSearches' = OpenSearches
    BY OpenIsSomewhere, OpenIsSomewhereNext
<1>2. QED
    BY <1>1 DEF Lagged!vars

LEMMA LaggedInit == Init => Lagged!Init
<1> SUFFICES ASSUME Init PROVE Lagged!Init
    OBVIOUS
<1>1. searches = <<>> /\ toServer = {} /\ toBrowser = {} /\ results = [t \in Tabs |-> NoResults]
    BY DEF Init
<1>2. OpenSearches = {}
    BY <1>1 DEF OpenSearches
<1>3. NoResults = Lagged!None
    BY DEF NoResults, Lagged!None, Absent
<1>4. QED
    BY <1>1, <1>2, <1>3 DEF Lagged!Init

LEMMA LaggedAsk ==
    ASSUME Inv, Inv', OnePlace, NEW t \in Tabs, Click(t)
    PROVE  Lagged!Ask(t)
<1>1. OpenSearches' = OpenSearches \cup {Len(searches) + 1}
    BY ClickMoves, OpenIsSomewhere, OpenIsSomewhereNext DEF Inv
<1>2. /\ Len(searches) < MaxSearches
      /\ searches' = Append(searches, t)
      /\ results' = results
    <2>1. Len(searches) + 1 <= MaxSearches /\ Len(searches) \in Nat
        BY DEF Click, Inv, TypeOK
    <2>2. QED
        BY <2>1, MaxSearchesAssumption DEF Click
<1>3. QED
    BY <1>1, <1>2 DEF Lagged!Ask

LEMMA LaggedOpen ==
    ASSUME Inv, Inv', OnePlace, NEW t \in Tabs, Open(t)
    PROVE  Lagged!Drop({t}) /\ OnePlace'
<1>1. /\ searches' = searches
      /\ \A u \in Tabs : outbox'[u] = IF u \in {t} THEN <<>> ELSE outbox[u]
      /\ toServer' = {x \in toServer : searches[x.search] \notin {t}}
      /\ toBrowser' = {x \in toBrowser : searches[x.search] \notin {t}}
    BY DEF Open, Of, Inv, TypeOK
<1>2. /\ OnePlace'
      /\ (Queued \cup Asked \cup Replied)' =
            {i \in Queued \cup Asked \cup Replied : searches[i] \notin {t}}
    BY <1>1, PagesGo
<1>3. OpenSearches' = {i \in OpenSearches : searches[i] \notin {t}}
    BY <1>2, OpenIsSomewhere, OpenIsSomewhereNext DEF Inv
<1>4. results' = [u \in Tabs |-> IF u \in {t} THEN Lagged!None ELSE results[u]]
    BY DEF Open, Inv, TypeOK, NoResults, Lagged!None, Absent
<1>5. QED
    BY <1>1, <1>2, <1>3, <1>4 DEF Lagged!Drop

LEMMA LaggedQuit ==
    ASSUME Inv, Inv', OnePlace, QuitBrowser
    PROVE  Lagged!Drop(Tabs) /\ OnePlace'
<1>1. \A j \in DOMAIN searches : searches[j] \in Tabs
    BY DEF Inv, TypeOK
<1>2. /\ searches' = searches
      /\ \A u \in Tabs : outbox'[u] = IF u \in Tabs THEN <<>> ELSE outbox[u]
      /\ toServer' = {x \in toServer : searches[x.search] \notin Tabs}
      /\ toBrowser' = {x \in toBrowser : searches[x.search] \notin Tabs}
    BY <1>1 DEF QuitBrowser, Inv, MessagesKnown, InFlight
<1>3. /\ OnePlace'
      /\ (Queued \cup Asked \cup Replied)' =
            {i \in Queued \cup Asked \cup Replied : searches[i] \notin Tabs}
    BY <1>2, PagesGo
<1>4. OpenSearches' = {i \in OpenSearches : searches[i] \notin Tabs}
    BY <1>3, OpenIsSomewhere, OpenIsSomewhereNext DEF Inv
<1>5. results' = [u \in Tabs |-> IF u \in Tabs THEN Lagged!None ELSE results[u]]
    BY DEF QuitBrowser, Inv, TypeOK, NoResults, Lagged!None, Absent
<1>6. QED
    BY <1>2, <1>3, <1>4, <1>5 DEF Lagged!Drop

(* The answer to a query is shown, and was admissible when it was asked. *)
LEMMA LaggedAnswer ==
    ASSUME Inv, Inv', OnePlace, RepliesComplete, NEW r \in toBrowser, Deliver(r),
           QueryAnswered(r)
    PROVE  Lagged!Next
<1> DEFINE i == r.search
<1> DEFINE j == r.session.latlon
<1> DEFINE k == r.session.topics
<1>1. r.endpoint = "runQuery" /\ r.ok /\ IsQuery(r)
    BY DEF QueryAnswered, IsQuery
<1>2. i \in DOMAIN searches /\ i \in OpenSearches
    <2>1. i \in Replied /\ i \in DOMAIN searches
        BY <1>1 DEF Replied, QueriesIn, Inv, MessagesKnown, InFlight
    <2>2. QED
        BY <2>1, OpenIsSomewhere DEF Inv
<1>3. j \in DOMAIN searches /\ k \in DOMAIN searches
    <2>1. j \in PositionsAtLarge /\ k \in TopicsAtLarge
        BY DEF PositionsAtLarge, TopicsAtLarge, InFlight
    <2>2. j # Absent /\ k # Absent
        BY <1>1 DEF RepliesComplete
    <2>3. QED
        BY <2>1, <2>2 DEF Inv, DataKnown
<1>4. Lags(i, r.session)
    BY <1>1 DEF Inv, QueriesLag
<1>5. \A n \in DOMAIN searches : n \in 1 .. MaxSearches
    BY MaxSearchesAssumption DEF Inv, TypeOK
<1>6. Lagged!Admissible(i, j, k)
    BY <1>3, <1>4, <1>5 DEF Lagged!Admissible, Lags, Absent
<1>7. OpenSearches' = OpenSearches \ {i}
    <2>1. /\ UNCHANGED <<Queued, Asked>> /\ Replied' = Replied \ {i}
          /\ i \in Replied /\ i \notin Queued /\ i \notin Asked
        BY <1>1, DeliverMoves DEF Replied, QueriesIn, OnePlace, Apart
    <2>2. QED
        BY <2>1, OpenIsSomewhere, OpenIsSomewhereNext DEF Inv
<1>8. /\ results' = [results EXCEPT ![searches[i]] = [search |-> i, latlon |-> j, topics |-> k]]
      /\ searches' = searches
    BY DEF Deliver, QueryAnswered, Show
<1>9. Lagged!Answer(i, j, k)
    BY <1>2, <1>6, <1>7, <1>8 DEF Lagged!Answer
<1>10. QED
    BY <1>2, <1>3, <1>5, <1>9 DEF Lagged!Next

(* A query that failed takes the old answer off its tab. *)
LEMMA LaggedFail ==
    ASSUME Inv, Inv', OnePlace, NEW r \in toBrowser, Deliver(r), QueryFailed(r)
    PROVE  Lagged!Next
<1> DEFINE i == r.search
<1>1. IsQuery(r)
    BY DEF QueryFailed, IsQuery
<1>2. i \in Replied /\ i \in OpenSearches
    <2>1. i \in Replied
        BY <1>1 DEF Replied, QueriesIn
    <2>2. QED
        BY <2>1, OpenIsSomewhere DEF Inv
<1>3. OpenSearches' = OpenSearches \ {i}
    <2>1. /\ UNCHANGED <<Queued, Asked>> /\ Replied' = Replied \ {i}
          /\ i \notin Queued /\ i \notin Asked
        BY <1>1, <1>2, DeliverMoves DEF OnePlace, Apart
    <2>2. QED
        BY <2>1, OpenIsSomewhere, OpenIsSomewhereNext DEF Inv
<1>4. /\ results' = [results EXCEPT ![searches[i]] = Lagged!None]
      /\ searches' = searches
    BY DEF Deliver, QueryFailed, Show, NoResults, Lagged!None, Absent
<1>5. QED
    BY <1>2, <1>3, <1>4 DEF Lagged!Fail, Lagged!Next

(* A setter's or clearSession's response changes no answer. *)
LEMMA LaggedOther ==
    ASSUME Inv, Inv', OnePlace, NEW r \in toBrowser, Deliver(r),
           SetterFailed(r) \/ NothingToShow(r)
    PROVE  UNCHANGED Lagged!vars
<1>1. ~IsQuery(r)
    BY DEF SetterFailed, NothingToShow, IsQuery
<1>2. results' = results /\ searches' = searches
    BY DEF Deliver, SetterFailed, NothingToShow, Show, pageVars, Inv, TypeOK
<1>3. (Queued \cup Asked \cup Replied)' = Queued \cup Asked \cup Replied
    BY <1>1, DeliverMoves
<1>4. QED
    BY <1>2, <1>3, LaggedStutter DEF Inv
------------------------------------------------------------------------------
LEMMA OnePlaceStep == Inv /\ OnePlace /\ [Next]_vars /\ Inv' => OnePlace'
<1> SUFFICES ASSUME Inv, OnePlace, [Next]_vars, Inv' PROVE OnePlace'
    OBVIOUS
<1>1. ASSUME NEW t \in Tabs, Open(t) PROVE OnePlace'
    BY <1>1, LaggedOpen
<1>2. ASSUME NEW t \in Tabs, Click(t) PROVE OnePlace'
    BY <1>2, ClickMoves
<1>3. ASSUME NEW t \in Tabs, StartRequest(t) PROVE OnePlace'
    BY <1>3, StartMoves
<1>4. ASSUME NEW i \in geolocating, GeolocationFix(i) PROVE OnePlace'
    BY <1>4, FixMoves
<1>5. ASSUME NEW q \in toServer, Serve(q) \/ Lose(q) PROVE OnePlace'
    BY <1>5, AnswerSteps, AnswerMoves DEF Inv
<1>6. ASSUME NEW r \in toBrowser, Deliver(r) PROVE OnePlace'
    BY <1>6, DeliverMoves
<1>7. CASE QuitBrowser
    BY <1>7, LaggedQuit
<1>8. CASE UNCHANGED <<searches, outbox, toServer, toBrowser>>
    BY <1>8, NothingMoves
<1>9. QED
    BY <1>1, <1>2, <1>3, <1>4, <1>5, <1>6, <1>7, <1>8
       DEF Next, vars, netVars, SelectGrouping, GeolocationRefused

LEMMA LaggedStep ==
    Inv /\ Inv' /\ OnePlace /\ RepliesComplete /\ [Next]_vars
        => [Lagged!Next]_(Lagged!vars)
<1> SUFFICES ASSUME Inv, Inv', OnePlace, RepliesComplete, [Next]_vars
             PROVE  [Lagged!Next]_(Lagged!vars)
    OBVIOUS
<1>0. MessagesKnown /\ MessagesKnown'
    BY DEF Inv
<1>1. ASSUME NEW t \in Tabs, Open(t) PROVE Lagged!Next
    BY <1>1, LaggedOpen DEF Lagged!Next
<1>2. ASSUME NEW t \in Tabs, Click(t) PROVE Lagged!Next
    BY <1>2, LaggedAsk DEF Lagged!Next
<1>3. ASSUME NEW t \in Tabs, StartRequest(t) PROVE UNCHANGED Lagged!vars
    <2>1. (Queued \cup Asked \cup Replied)' = Queued \cup Asked \cup Replied
        BY <1>3, StartMoves
    <2>2. searches' = searches /\ results' = results
        BY <1>3 DEF StartRequest, pageVars
    <2>3. QED
        BY <1>0, <2>1, <2>2, LaggedStutter
<1>4. ASSUME NEW i \in geolocating, GeolocationFix(i) PROVE UNCHANGED Lagged!vars
    <2>1. (Queued \cup Asked \cup Replied)' = Queued \cup Asked \cup Replied
        BY <1>4, FixMoves
    <2>2. searches' = searches /\ results' = results
        BY <1>4 DEF GeolocationFix, pageVars
    <2>3. QED
        BY <1>0, <2>1, <2>2, LaggedStutter
<1>5. ASSUME NEW q \in toServer, Serve(q) \/ Lose(q) PROVE UNCHANGED Lagged!vars
    <2>1. PICK a : Answer(q, a)
        BY <1>5, AnswerSteps DEF Inv
    <2>2. (Queued \cup Asked \cup Replied)' = Queued \cup Asked \cup Replied
        BY <2>1, AnswerMoves
    <2>3. searches' = searches /\ results' = results
        BY <2>1 DEF Answer, pageVars
    <2>4. QED
        BY <1>0, <2>2, <2>3, LaggedStutter
<1>6. ASSUME NEW r \in toBrowser, Deliver(r) PROVE [Lagged!Next]_(Lagged!vars)
    <2>1. QueryAnswered(r) \/ QueryFailed(r) \/ SetterFailed(r) \/ NothingToShow(r)
        BY <1>6 DEF Deliver
    <2>2. QED
        BY <1>6, <2>1, LaggedAnswer, LaggedFail, LaggedOther
<1>7. CASE QuitBrowser
    BY <1>7, LaggedQuit DEF Lagged!Next
<1>8. CASE UNCHANGED <<searches, results, outbox, toServer, toBrowser>>
    <2>1. (Queued \cup Asked \cup Replied)' = Queued \cup Asked \cup Replied
        BY <1>8, NothingMoves
    <2>2. QED
        BY <1>0, <1>8, <2>1, LaggedStutter
<1>9. QED
    BY <1>1, <1>2, <1>3, <1>4, <1>5, <1>6, <1>7, <1>8
       DEF Next, vars, pageVars, netVars, SelectGrouping, GeolocationRefused

(* Page, cookie, queues, messages and handlers together do no more than    *)
(* LaggedSearch promises: each search is answered at most once or fails,   *)
(* with data no later than the eager calls of the click handler allow.     *)
THEOREM PageIsLagged == Spec => ImplementsLaggedSearch
<1>1. Init => OnePlace
    BY DEF Init, OnePlace, QueuedOnce, AskedOnce, RepliedOnce, Apart, Queued, Asked, Replied,
       QueriesIn
<1>2. Spec => []OnePlace
    BY <1>1, OnePlaceStep, Invariance, PTL DEF Spec
<1>3. Spec => []RepliesComplete
    BY ShowInvariance, PTL DEF ShowInv
<1>4. QED
    BY <1>2, <1>3, LaggedInit, LaggedStep, Invariance, PTL
       DEF Spec, ImplementsLaggedSearch, Lagged!Spec

-----------------------------------------------------------------------------
(***************************************************************************)
(* The topics of a form that nobody edits (TopicSample).  join is a        *)
(* recursive function, and what it is on the numbers follows from their    *)
(* well order: JoinIs.  L(ts, j) is where the j-th topic ends in the text  *)
(* of any number of them (CharAt, Located); a cut falls behind the k-th    *)
(* topic (SampleIs), and the pieces a click finds are the topics (ReadIs). *)
(***************************************************************************)
(* The naturals are well ordered; induction follows. *)
LEMMA LeastNumber ==
    ASSUME NEW D \in SUBSET Nat, D # {} PROVE \E d \in D : \A e \in D : d <= e
<1> DEFINE R == OpToRel(<, Nat)
<1>1. \A e, d \in Nat : e < d => <<e, d>> \in R
    BY DEF OpToRel
<1>2. IsWellFoundedOn(R, Nat)
    BY NatLessThanWellFounded
<1> HIDE DEF R
<1>3. PICK d \in D : \A e \in D : ~(<<e, d>> \in R)
    BY <1>2, WFMin
<1>4. \A e \in D : ~(e < d) => d <= e
    OBVIOUS
<1>5. QED
    BY <1>1, <1>3, <1>4

LEMMA NaturalsReached ==
    ASSUME NEW T \in SUBSET Nat, 0 \in T, \A n \in T : n + 1 \in T
    PROVE  T = Nat
<1>1. SUFFICES ASSUME Nat \ T # {} PROVE FALSE
    OBVIOUS
<1>2. PICK m \in Nat \ T : \A e \in Nat \ T : m <= e
    BY <1>1, LeastNumber
<1>3. m - 1 \in Nat /\ (m - 1) + 1 = m
    BY <1>2
<1>4. m - 1 \in T
    BY <1>2, <1>3
<1>5. QED
    BY <1>3, <1>4

Further(ts, g, k) ==
    IF k = 0 THEN <<>>
    ELSE IF k = 1 THEN Spelt(ts[1])
    ELSE g[k - 1] \o <<Semicolon, Space>> \o Spelt(ts[k])

JoinUpTo(ts, g, n) == g = [k \in 0..n |-> Further(ts, g, k)]

LEMMA JoinBegins == ASSUME NEW ts, NEW n \in Nat PROVE \E g : JoinUpTo(ts, g, n)
<1> DEFINE T == {i \in Nat : \E g : JoinUpTo(ts, g, i)}
<1>1. 0 \in T
    <2> DEFINE g == [k \in 0..0 |-> <<>>]
    <2>1. \A k \in 0..0 : k = 0
        OBVIOUS
    <2>2. JoinUpTo(ts, g, 0)
        BY <2>1 DEF JoinUpTo, Further
    <2>3. QED
        BY <2>2
<1>2. ASSUME NEW i \in T PROVE i + 1 \in T
    <2>1. PICK g : JoinUpTo(ts, g, i)
        OBVIOUS
    <2> DEFINE h == [k \in 0..(i + 1) |-> Further(ts, g, k)]
    <2>2. ASSUME NEW k \in 0..(i + 1) PROVE Further(ts, h, k) = Further(ts, g, k)
        <3>1. CASE k = 0 \/ k = 1
            BY <3>1 DEF Further
        <3>2. CASE k # 0 /\ k # 1
            <4>1. k - 1 \in 0..i /\ k - 1 \in 0..(i + 1)
                BY <3>2
            <4>2. g[k - 1] = Further(ts, g, k - 1)
                BY <2>1, <4>1 DEF JoinUpTo
            <4>3. h[k - 1] = Further(ts, g, k - 1)
                BY <4>1
            <4>4. h[k - 1] = g[k - 1]
                BY <4>2, <4>3
            <4> HIDE DEF h
            <4>5. QED
                BY <3>2, <4>4 DEF Further
        <3>3. QED
            BY <3>1, <3>2
    <2>3. h = [k \in 0..(i + 1) |-> Further(ts, h, k)]
        BY <2>2
    <2> HIDE DEF h
    <2>4. QED
        BY <2>3 DEF JoinUpTo
<1> HIDE DEF T
<1>3. T = Nat
    <2>1. T \in SUBSET Nat
        BY DEF T
    <2>2. QED
        BY <1>1, <1>2, <2>1, NaturalsReached
<1>4. QED
    BY <1>3 DEF T

LEMMA JoinsAgree ==
    ASSUME NEW ts, NEW m \in Nat, NEW n \in Nat, NEW g, NEW h,
           JoinUpTo(ts, g, m), JoinUpTo(ts, h, n),
           NEW k \in Nat, k <= m, k <= n
    PROVE  g[k] = h[k]
<1> DEFINE T == {i \in Nat : i <= m /\ i <= n => g[i] = h[i]}
<1>1. \A i \in Nat : /\ i <= m => g[i] = Further(ts, g, i)
                     /\ i <= n => h[i] = Further(ts, h, i)
    BY DEF JoinUpTo
<1>2. 0 \in T
    BY <1>1 DEF Further
<1>3. ASSUME NEW i \in T PROVE i + 1 \in T
    <2>1. i \in Nat /\ (i + 1) - 1 = i /\ i + 1 # 0
        OBVIOUS
    <2>2. SUFFICES ASSUME i + 1 <= m, i + 1 <= n PROVE g[i + 1] = h[i + 1]
        BY <2>1
    <2>3. g[i] = h[i]
        BY <2>1, <2>2
    <2>4. Further(ts, g, i + 1) = Further(ts, h, i + 1)
        BY <2>1, <2>3 DEF Further
    <2>5. QED
        BY <1>1, <2>1, <2>2, <2>4
<1> HIDE DEF T
<1>4. T = Nat
    <2>1. T \in SUBSET Nat
        BY DEF T
    <2>2. QED
        BY <1>2, <1>3, <2>1, NaturalsReached
<1>5. QED
    BY <1>4 DEF T

(* What join is, by its recursion. *)
LEMMA JoinIs ==
    ASSUME NEW ts, NEW k \in Nat
    PROVE  join(ts)[k] = Further(ts, join(ts), k)
<1> DEFINE beginning(n) == CHOOSE g : JoinUpTo(ts, g, n)
           f == [n \in Nat |-> beginning(n)[n]]
           Recursion(b) == b = [n \in Nat |-> IF n = 0 THEN <<>>
                                              ELSE IF n = 1 THEN Spelt(ts[1])
                                              ELSE b[n - 1] \o <<Semicolon, Space>> \o Spelt(ts[n])]
<1>1. \A n \in Nat : JoinUpTo(ts, beginning(n), n)
    BY JoinBegins
<1> HIDE DEF beginning
<1>2. ASSUME NEW n \in Nat PROVE f[n] = Further(ts, f, n)
    <2>1. beginning(n)[n] = Further(ts, beginning(n), n)
        BY <1>1 DEF JoinUpTo
    <2>2. CASE n = 0 \/ n = 1
        BY <2>1, <2>2 DEF Further
    <2>3. CASE n # 0 /\ n # 1
        <3>1. n - 1 \in Nat /\ n - 1 <= n
            BY <2>3
        <3>2. beginning(n)[n - 1] = beginning(n - 1)[n - 1]
            BY <1>1, <3>1, JoinsAgree
        <3>3. f[n - 1] = beginning(n)[n - 1]
            BY <3>1, <3>2
        <3>4. QED
            BY <2>1, <2>3, <3>3 DEF Further
    <2>4. QED
        BY <2>2, <2>3
<1>3. Recursion(f)
    <2>1. \A n \in Nat : Further(ts, f, n) = IF n = 0 THEN <<>>
                                              ELSE IF n = 1 THEN Spelt(ts[1])
                                              ELSE f[n - 1] \o <<Semicolon, Space>> \o Spelt(ts[n])
        BY DEF Further
    <2>2. f = [n \in Nat |-> Further(ts, f, n)]
        BY <1>2
    <2> HIDE DEF f
    <2>3. QED
        BY <2>1, <2>2
<1> HIDE DEF f
<1>4. join(ts) = CHOOSE b : Recursion(b)
    BY DEF join
<1> HIDE DEF Recursion
<1>5. Recursion(join(ts))
    BY <1>3, <1>4
<1>6. QED
    BY <1>5 DEF Recursion, Further

Chars == Topics \cup {Semicolon, Space}

LEMMA SpeltFacts ==
    ASSUME NEW t \in Topics
    PROVE  /\ Length[t] \in Nat /\ Length[t] > 1
           /\ Spelt(t) \in Seq(Chars) /\ Len(Spelt(t)) = Length[t]
           /\ \A i \in 1..Length[t] : Spelt(t)[i] \in Chars \ {Semicolon}
           /\ Spelt(t)[1] # Space /\ Spelt(t)[Length[t]] # Space
<1>1. Length[t] \in Nat /\ Length[t] > 1
    BY LengthAssumption
<1>2. Spelt(t) \in [1..Length[t] -> Chars]
    BY DEF Spelt, Chars
<1>3. Spelt(t) \in Seq(Chars) /\ Len(Spelt(t)) = Length[t]
    BY <1>1, <1>2
<1>4. t # Semicolon /\ t # Space /\ Semicolon # Space
    BY TopicsAssumption DEF Semicolon, Space
<1>5. ASSUME NEW i \in 1..Length[t] PROVE Spelt(t)[i] \in Chars \ {Semicolon}
    BY <1>4 DEF Spelt, Chars
<1>6. 1 \notin Gaps[t] /\ Length[t] \notin Gaps[t] /\ 1 \in 1..Length[t] /\ Length[t] \in 1..Length[t]
    BY <1>1, GapsAssumption
<1>7. Spelt(t)[1] # Space /\ Spelt(t)[Length[t]] # Space
    BY <1>4, <1>6 DEF Spelt
<1>8. QED
    BY <1>1, <1>3, <1>5, <1>7

LEMMA Separated ==
    ASSUME NEW a \in Seq(Chars), NEW s \in Seq(Chars)
    PROVE  LET b == a \o <<Semicolon, Space>> \o s IN
           /\ b \in Seq(Chars) /\ Len(b) = Len(a) + 2 + Len(s)
           /\ \A p \in 1..Len(b) : b[p] = IF p <= Len(a) THEN a[p]
                                          ELSE IF p = Len(a) + 1 THEN Semicolon
                                          ELSE IF p = Len(a) + 2 THEN Space
                                          ELSE s[p - (Len(a) + 2)]
<1> DEFINE z == <<Semicolon, Space>>
<1>1. z \in Seq(Chars) /\ Len(z) = 2 /\ z[1] = Semicolon /\ z[2] = Space
    <2>1. Semicolon \in Chars /\ Space \in Chars
        BY DEF Chars
    <2>2. QED
        BY <2>1
<1> HIDE DEF z
<1> DEFINE b == (a \o z) \o s
<1>2. a \o z \in Seq(Chars) /\ Len(a \o z) = Len(a) + 2
    <2>1. Chars = Chars /\ a \in Seq(Chars) /\ z \in Seq(Chars)
        BY <1>1
    <2>2. a \o z \in Seq(Chars) /\ Len(a \o z) = Len(a) + Len(z)
        BY <2>1, ConcatProperties, Zenon
    <2>3. QED
        BY <1>1, <2>2
<1>3. b \in Seq(Chars) /\ Len(b) = Len(a \o z) + Len(s)
    BY <1>2
<1>4. Len(a) \in Nat /\ Len(s) \in Nat
    OBVIOUS
<1>5. \A p \in 1..Len(b) : b[p] = IF p <= Len(a \o z) THEN (a \o z)[p] ELSE s[p - Len(a \o z)]
    BY <1>2, <1>3, <1>4
<1>6. \A p \in 1..Len(a \o z) : (a \o z)[p] = IF p <= Len(a) THEN a[p] ELSE z[p - Len(a)]
    BY <1>1, <1>2, <1>4
<1>7. ASSUME NEW p \in 1..Len(b)
      PROVE  b[p] = IF p <= Len(a) THEN a[p]
                    ELSE IF p = Len(a) + 1 THEN Semicolon
                    ELSE IF p = Len(a) + 2 THEN Space ELSE s[p - (Len(a) + 2)]
    <2> HIDE DEF b
    <2>1. CASE p <= Len(a) + 2
        <3>1. p - Len(a) = 1 <=> p = Len(a) + 1
            BY <1>4
        <3>2. p - Len(a) = 2 <=> p = Len(a) + 2
            BY <1>4
        <3>3. p > Len(a) => p = Len(a) + 1 \/ p = Len(a) + 2
            BY <1>4, <2>1
        <3>4. p \in 1..Len(a \o z)
            BY <1>2, <1>4, <2>1
        <3>5. b[p] = IF p <= Len(a) THEN a[p] ELSE z[p - Len(a)]
            BY <1>2, <1>5, <1>6, <2>1, <3>4
        <3>6. Len(a) + 1 # Len(a) + 2
            BY <1>4
        <3>7. QED
            BY <1>1, <3>1, <3>2, <3>3, <3>5, <3>6
    <2>2. CASE p > Len(a) + 2
        <3>1. ~(p <= Len(a)) /\ p # Len(a) + 1 /\ p # Len(a) + 2 /\ ~(p <= Len(a \o z))
            BY <1>2, <1>4, <2>2
        <3>2. QED
            BY <1>2, <1>5, <3>1
    <2>3. QED
        BY <1>4, <2>1, <2>2
<1>8. QED
    BY <1>2, <1>3, <1>7 DEF z

(* What the k-th topic adds to the text of those before. *)
LEMMA JoinStep ==
    ASSUME NEW ts \in Seq(Topics), NEW k \in 1..Len(ts), join(ts)[k - 1] \in Seq(Chars)
    PROVE  LET a == join(ts)[k - 1]
               b == join(ts)[k]
               from == IF k = 1 THEN 0 ELSE Len(a) + 2 IN
           /\ k = 1 => a = <<>>
           /\ b \in Seq(Chars) /\ Len(b) = from + Length[ts[k]]
           /\ \A p \in 1..Len(b) :
                b[p] = IF p <= Len(a) THEN a[p]
                       ELSE IF k # 1 /\ p = Len(a) + 1 THEN Semicolon
                       ELSE IF k # 1 /\ p = Len(a) + 2 THEN Space
                       ELSE Spelt(ts[k])[p - from]
<1> DEFINE a == join(ts)[k - 1]
           b == join(ts)[k]
           s == Spelt(ts[k])
<1>1. ts[k] \in Topics /\ k \in Nat /\ k - 1 \in Nat
    OBVIOUS
<1>2. /\ Length[ts[k]] \in Nat /\ Length[ts[k]] > 1
      /\ s \in Seq(Chars) /\ Len(s) = Length[ts[k]]
    BY <1>1, SpeltFacts
<1>3. a = Further(ts, join(ts), k - 1) /\ b = Further(ts, join(ts), k)
    BY <1>1, JoinIs
<1>7. k # 1 => b = a \o <<Semicolon, Space>> \o s
    <2>1. k # 1 => k # 0
        OBVIOUS
    <2>2. QED
        BY <1>1, <2>1, <1>3 DEF Further
<1> HIDE DEF a, b, s
<1>4. CASE k = 1
    <2>1. a = <<>> /\ b = s
        BY <1>3, <1>4 DEF Further, s
    <2>2. /\ Len(a) = 0 /\ Len(b) = Length[ts[k]]
          /\ b \in Seq(Chars) /\ \A p \in 1..Len(b) : ~(p <= Len(a)) /\ b[p] = s[p - 0]
        BY <1>2, <2>1
    <2>3. QED
        BY <1>2, <1>4, <2>1, <2>2 DEF a, b, s
<1>5. CASE k # 1
    <2>1. b = a \o <<Semicolon, Space>> \o s
        BY <1>5, <1>7
    <2>2. a \in Seq(Chars) /\ Len(a) \in Nat
        BY DEF a
    <2>3. /\ b \in Seq(Chars) /\ Len(b) = Len(a) + 2 + Length[ts[k]]
          /\ \A p \in 1..Len(b) : b[p] = IF p <= Len(a) THEN a[p]
                                          ELSE IF p = Len(a) + 1 THEN Semicolon
                                          ELSE IF p = Len(a) + 2 THEN Space
                                          ELSE s[p - (Len(a) + 2)]
        <3>1. s \in Seq(Chars) /\ a \in Seq(Chars)
            BY <1>2, <2>2
        <3> DEFINE c == a \o <<Semicolon, Space>> \o s
        <3>2. /\ c \in Seq(Chars) /\ Len(c) = Len(a) + 2 + Len(s)
              /\ \A p \in 1..Len(c) : c[p] = IF p <= Len(a) THEN a[p]
                                          ELSE IF p = Len(a) + 1 THEN Semicolon
                                          ELSE IF p = Len(a) + 2 THEN Space
                                          ELSE s[p - (Len(a) + 2)]
            BY <3>1, Separated, Zenon
        <3>3. c = b
            BY <2>1
        <3> HIDE DEF c
        <3>4. QED
            BY <1>2, <3>2, <3>3
    <2>4. QED
        BY <1>5, <2>3 DEF a, b, s
<1>6. QED
    BY <1>4, <1>5

L(ts, j) == Len(join(ts)[j])

(* The character of the text at the position p, within its j-th topic. *)
CharOf(ts, j, p) ==
    IF j # 1 /\ p = L(ts, j - 1) + 1 THEN Semicolon
    ELSE IF j # 1 /\ p = L(ts, j - 1) + 2 THEN Space
    ELSE Spelt(ts[j])[p - (IF j = 1 THEN 0 ELSE L(ts, j - 1) + 2)]

LEMMA Joined ==
    ASSUME NEW ts \in Seq(Topics), NEW k \in 0..Len(ts)
    PROVE  join(ts)[k] \in Seq(Chars) /\ L(ts, k) \in Nat
<1> DEFINE T == {i \in Nat : i <= Len(ts) => join(ts)[i] \in Seq(Chars)}
<1>1. 0 \in T
    <2>1. join(ts)[0] = <<>>
        BY JoinIs DEF Further
    <2>2. <<>> \in Seq(Chars)
        OBVIOUS
    <2>3. QED
        BY <2>1, <2>2
<1>2. ASSUME NEW i \in T PROVE i + 1 \in T
    <2>1. SUFFICES ASSUME i + 1 <= Len(ts) PROVE join(ts)[i + 1] \in Seq(Chars)
        OBVIOUS
    <2>2. i + 1 \in 1..Len(ts) /\ (i + 1) - 1 = i /\ i <= Len(ts)
        BY <2>1
    <2>3. join(ts)[(i + 1) - 1] \in Seq(Chars)
        BY <2>2
    <2>4. QED
        BY <2>2, <2>3, JoinStep
<1> HIDE DEF T
<1>3. T = Nat
    <2>1. T \in SUBSET Nat
        BY DEF T
    <2>2. QED
        BY <1>1, <1>2, <2>1, NaturalsReached
<1>4. join(ts)[k] \in Seq(Chars)
    BY <1>3 DEF T
<1>5. QED
    BY <1>4 DEF L

(* The lengths, and the characters, of the k-th text. *)
LEMMA JoinParts ==
    ASSUME NEW ts \in Seq(Topics), NEW k \in 1..Len(ts)
    PROVE  /\ k = 1 => L(ts, k - 1) = 0
           /\ L(ts, k) = (IF k = 1 THEN 0 ELSE L(ts, k - 1) + 2) + Length[ts[k]]
           /\ L(ts, k - 1) \in Nat /\ L(ts, k) >= L(ts, k - 1) + 2
           /\ \A p \in 1..L(ts, k - 1) : join(ts)[k][p] = join(ts)[k - 1][p]
           /\ \A p \in (L(ts, k - 1) + 1)..L(ts, k) : join(ts)[k][p] = CharOf(ts, k, p)
<1> DEFINE a == join(ts)[k - 1]
           b == join(ts)[k]
           from == IF k = 1 THEN 0 ELSE Len(a) + 2
<1>1. k - 1 \in 0..Len(ts) /\ ts[k] \in Topics
    OBVIOUS
<1>2. a \in Seq(Chars) /\ Len(a) \in Nat
    BY <1>1, Joined DEF L
<1>3. /\ k = 1 => a = <<>>
      /\ b \in Seq(Chars) /\ Len(b) = from + Length[ts[k]]
      /\ \A p \in 1..Len(b) :
                b[p] = IF p <= Len(a) THEN a[p]
                       ELSE IF k # 1 /\ p = Len(a) + 1 THEN Semicolon
                       ELSE IF k # 1 /\ p = Len(a) + 2 THEN Space
                       ELSE Spelt(ts[k])[p - from]
    BY <1>2, JoinStep, Zenon
<1>4. Length[ts[k]] \in Nat /\ Length[ts[k]] > 1
    BY <1>1, SpeltFacts
<1>5. Len(a) = L(ts, k - 1) /\ Len(b) = L(ts, k)
    BY DEF L
<1> HIDE DEF a, b
<1>6. k = 1 => Len(a) = 0
    BY <1>3
<1>7. Len(b) \in Nat /\ Len(b) >= Len(a) + 2
    BY <1>2, <1>3, <1>4, <1>6
<1>8. \A p \in 1..Len(a) : b[p] = a[p]
    BY <1>2, <1>3, <1>7
<1>9. \A p \in (Len(a) + 1)..Len(b) : b[p] = CharOf(ts, k, p)
    <2>1. \A p \in (Len(a) + 1)..Len(b) : p \in 1..Len(b) /\ ~(p <= Len(a))
        BY <1>2, <1>7
    <2>2. QED
        BY <1>3, <1>5, <2>1 DEF CharOf
<1>10. QED
    BY <1>2, <1>3, <1>5, <1>6, <1>7, <1>8, <1>9 DEF a, b

LEMMA Growing ==
    ASSUME NEW ts \in Seq(Topics), NEW j \in 0..Len(ts), NEW k \in 0..Len(ts), j < k
    PROVE  L(ts, j) + 2 <= L(ts, k)
<1> DEFINE T == {i \in Nat : i <= Len(ts) => L(ts, i) \in Nat /\ (j < i => L(ts, j) + 2 <= L(ts, i))}
<1>1. 0 \in T
    BY Joined
<1>2. ASSUME NEW i \in T PROVE i + 1 \in T
    <2>1. SUFFICES ASSUME i + 1 <= Len(ts), j < i + 1
                   PROVE  L(ts, i + 1) \in Nat /\ L(ts, j) + 2 <= L(ts, i + 1)
        BY Joined
    <2>2. i + 1 \in 1..Len(ts) /\ (i + 1) - 1 = i /\ i <= Len(ts) /\ i \in 0..Len(ts)
        BY <2>1
    <2>3. L(ts, i + 1) >= L(ts, i) + 2
        BY <2>2, JoinParts
    <2>4. L(ts, i) \in Nat /\ L(ts, j) \in Nat /\ L(ts, i + 1) \in Nat
        BY <2>2, Joined
    <2>5. j = i \/ (j < i /\ L(ts, j) + 2 <= L(ts, i))
        BY <2>1, <2>2
    <2>6. QED
        BY <2>3, <2>4, <2>5
<1> HIDE DEF T
<1>3. T = Nat
    <2>1. T \in SUBSET Nat
        BY DEF T
    <2>2. QED
        BY <1>1, <1>2, <2>1, NaturalsReached
<1>4. QED
    BY <1>3 DEF T

(* A text starts with those of fewer topics. *)
LEMMA JoinPrefix ==
    ASSUME NEW ts \in Seq(Topics), NEW j \in 0..Len(ts), NEW k \in 0..Len(ts), j <= k,
           NEW p \in 1..L(ts, j)
    PROVE  join(ts)[k][p] = join(ts)[j][p]
<1> DEFINE T == {i \in Nat : j <= i /\ i <= Len(ts) => join(ts)[i][p] = join(ts)[j][p]}
<1>1. 0 \in T
    OBVIOUS
<1>2. ASSUME NEW i \in T PROVE i + 1 \in T
    <2>1. SUFFICES ASSUME i + 1 <= Len(ts), j <= i + 1
                   PROVE  join(ts)[i + 1][p] = join(ts)[j][p]
        OBVIOUS
    <2>2. CASE j = i + 1
        BY <2>2
    <2>3. CASE j <= i
        <3>1. i + 1 \in 1..Len(ts) /\ (i + 1) - 1 = i /\ i <= Len(ts) /\ i \in 0..Len(ts)
            BY <2>1
        <3>2. L(ts, i) \in Nat /\ L(ts, j) \in Nat
            BY <3>1, Joined
        <3>3. L(ts, j) <= L(ts, i)
            <4>1. j = i \/ j < i
                BY <2>3
            <4>2. CASE j < i
                BY <3>1, <3>2, <4>2, Growing
            <4>3. CASE j = i
                BY <3>2, <4>3
            <4>4. QED
                BY <4>1, <4>2, <4>3
        <3>4. p \in 1..L(ts, i)
            BY <3>2, <3>3
        <3>5. join(ts)[i + 1][p] = join(ts)[i][p]
            BY <3>1, <3>4, JoinParts
        <3>6. QED
            BY <2>3, <3>1, <3>5
    <2>4. QED
        BY <2>1, <2>2, <2>3
<1> HIDE DEF T
<1>3. T = Nat
    <2>1. T \in SUBSET Nat
        BY DEF T
    <2>2. QED
        BY <1>1, <1>2, <2>1, NaturalsReached
<1>4. QED
    BY <1>3 DEF T

(* A semicolon is never within a topic. *)
LEMMA SemicolonAt ==
    ASSUME NEW ts \in Seq(Topics), NEW j \in 1..Len(ts),
           NEW p \in (L(ts, j - 1) + 1)..L(ts, j), CharOf(ts, j, p) = Semicolon
    PROVE  j # 1 /\ p = L(ts, j - 1) + 1
<1> DEFINE from == IF j = 1 THEN 0 ELSE L(ts, j - 1) + 2
<1>1. ts[j] \in Topics
    OBVIOUS
<1>2. /\ Length[ts[j]] \in Nat
      /\ \A i \in 1..Length[ts[j]] : Spelt(ts[j])[i] # Semicolon
    BY <1>1, SpeltFacts
<1>3. /\ L(ts, j) = from + Length[ts[j]] /\ L(ts, j - 1) \in Nat
      /\ j = 1 => L(ts, j - 1) = 0
    BY JoinParts
<1>4. SUFFICES ASSUME ~(j # 1 /\ p = L(ts, j - 1) + 1) PROVE FALSE
    OBVIOUS
<1>5. ~(j # 1 /\ p = L(ts, j - 1) + 2)
    BY <1>4 DEF CharOf, Semicolon, Space
<1>6. p - from \in 1..Length[ts[j]]
    BY <1>2, <1>3, <1>4, <1>5
<1>7. CharOf(ts, j, p) = Spelt(ts[j])[p - from]
    BY <1>4, <1>5 DEF CharOf
<1>8. QED
    BY <1>2, <1>6, <1>7

LEMMA CharAt ==
    ASSUME NEW ts \in Seq(Topics), NEW k \in 0..Len(ts), NEW j \in 1..k,
           NEW p \in (L(ts, j - 1) + 1)..L(ts, j)
    PROVE  join(ts)[k][p] = CharOf(ts, j, p)
<1>1. j \in 1..Len(ts) /\ j \in 0..Len(ts) /\ j <= k /\ j - 1 \in 0..Len(ts)
    OBVIOUS
<1>2. L(ts, j) \in Nat /\ L(ts, j - 1) \in Nat
    BY <1>1, Joined
<1>3. join(ts)[j][p] = CharOf(ts, j, p)
    BY <1>1, JoinParts
<1>4. p \in 1..L(ts, j)
    BY <1>2
<1>5. QED
    BY <1>1, <1>3, <1>4, JoinPrefix

(* Every position is in a topic, or before it. *)
LEMMA Located ==
    ASSUME NEW ts \in Seq(Topics), NEW k \in 0..Len(ts), NEW p \in 1..L(ts, k)
    PROVE  \E j \in 1..k : p \in (L(ts, j - 1) + 1)..L(ts, j)
<1> DEFINE D == {j \in 0..k : p <= L(ts, j)}
<1>1. \A j \in 0..k : L(ts, j) \in Nat
    BY Joined
<1>2. L(ts, 0) = 0
    BY JoinIs DEF Further, L
<1>3. D \in SUBSET Nat /\ k \in D
    BY <1>1
<1>4. PICK j \in D : \A e \in D : j <= e
    BY <1>3, LeastNumber
<1>5. j # 0
    BY <1>2
<1>6. j - 1 \in 0..k /\ j - 1 \notin D
    BY <1>4, <1>5
<1>7. ~(p <= L(ts, j - 1)) /\ L(ts, j - 1) \in Nat /\ L(ts, j) \in Nat /\ p \in Nat
    BY <1>1, <1>6
<1>8. p \in (L(ts, j - 1) + 1)..L(ts, j)
    BY <1>7
<1>9. QED
    BY <1>5, <1>8

LEMMA CutIs ==
    ASSUME NEW s \in Seq(Chars), NEW m \in Nat
    PROVE  LET to == IF m < Len(s) THEN m ELSE Len(s) IN
           /\ slice(s, 0, m) \in Seq(Chars) /\ Len(slice(s, 0, m)) = to
           /\ \A p \in 1..to : slice(s, 0, m)[p] = s[p]
<1> DEFINE to == IF m < Len(s) THEN m ELSE Len(s)
<1>1. Len(s) \in Nat
    OBVIOUS
<1>2. to \in 0..Len(s)
    BY <1>1
<1>3. slice(s, 0, m) = SubSeq(s, 1, to)
    BY DEF slice
<1> HIDE DEF to
<1>4. /\ SubSeq(s, 1, to) \in Seq(Chars) /\ Len(SubSeq(s, 1, to)) = to
      /\ \A p \in 1..to : SubSeq(s, 1, to)[p] = s[p]
    <2>1. 1 \in 1..(Len(s) + 1) /\ to \in (1 - 1)..Len(s)
        BY <1>1, <1>2
    <2>2. SubSeq(s, 1, to) \in Seq(Chars)
        BY <1>1, <1>2, <2>1
    <2>3. Len(SubSeq(s, 1, to)) = to
        BY <1>1, <1>2, <2>1
    <2>4. \A p \in 1..to : SubSeq(s, 1, to)[p] = s[p]
        BY <1>1, <1>2, <2>1
    <2>5. QED
        BY <2>2, <2>3, <2>4
<1>5. QED
    BY <1>3, <1>4 DEF to

(* The separators in the text of all of the topics, cut to m characters.   *)
LEMMA SeparatorsIn ==
    ASSUME NEW ts \in Seq(Topics), NEW m \in Nat, m < L(ts, Len(ts))
    PROVE  Separators(slice(join(ts)[Len(ts)], 0, m))
              = {L(ts, j) + 1 : j \in {i \in 1..(Len(ts) - 1) : L(ts, i) + 2 <= m}}
<1> DEFINE n == Len(ts)
           x == join(ts)[n]
           c == slice(x, 0, m)
           J == {i \in 1..(n - 1) : L(ts, i) + 2 <= m}
<1>1. n \in Nat /\ n \in 0..Len(ts)
    OBVIOUS
<1>2. x \in Seq(Chars) /\ Len(x) = L(ts, n)
    BY <1>1, Joined DEF L
<1>3. /\ c \in Seq(Chars) /\ Len(c) = m
      /\ \A p \in 1..m : c[p] = x[p]
    BY <1>2, CutIs
<1>4. \A j \in 0..n : L(ts, j) \in Nat
    BY Joined
<1> HIDE DEF c, x
<1>7. ASSUME NEW j \in J
      PROVE  L(ts, j) + 1 \in Separators(c)
    <2>1. j + 1 \in 1..n /\ j \in 0..n /\ j + 1 # 1 /\ (j + 1) - 1 = j
        BY <1>1
    <2>2. L(ts, j) \in Nat /\ L(ts, j + 1) \in Nat /\ L(ts, j) + 2 <= L(ts, j + 1)
        BY <1>4, <2>1, Growing
    <2>3. /\ L(ts, j) + 1 \in (L(ts, j) + 1)..L(ts, j + 1)
          /\ L(ts, j) + 2 \in (L(ts, j) + 1)..L(ts, j + 1)
        BY <2>2
    <2>4. /\ x[L(ts, j) + 1] = CharOf(ts, j + 1, L(ts, j) + 1)
          /\ x[L(ts, j) + 2] = CharOf(ts, j + 1, L(ts, j) + 2)
        BY <1>1, <2>1, <2>3, CharAt DEF x
    <2>5. x[L(ts, j) + 1] = Semicolon /\ x[L(ts, j) + 2] = Space
        BY <2>1, <2>2, <2>4 DEF CharOf
    <2>6. L(ts, j) + 1 \in 1..(m - 1) /\ L(ts, j) + 1 \in 1..m /\ (L(ts, j) + 1) + 1 = L(ts, j) + 2 /\ L(ts, j) + 2 \in 1..m
        BY <2>2
    <2>7. QED
        BY <1>3, <2>5, <2>6 DEF Separators
<1>8. ASSUME NEW p \in Separators(c)
      PROVE  \E j \in J : p = L(ts, j) + 1
    <2>1. p \in 1..(m - 1) /\ c[p] = Semicolon
        BY <1>3 DEF Separators
    <2>2. p \in 1..m /\ p \in 1..L(ts, n) /\ p + 1 <= m
        BY <1>1, <1>4, <2>1
    <2>3. x[p] = Semicolon
        BY <1>3, <2>1, <2>2
    <2>4. PICK i \in 1..n : p \in (L(ts, i - 1) + 1)..L(ts, i)
        BY <1>1, <2>2, Located
    <2>5. x[p] = CharOf(ts, i, p)
        BY <1>1, <2>4, CharAt DEF x
    <2>7. i # 1 /\ p = L(ts, i - 1) + 1
        BY <2>3, <2>4, <2>5, SemicolonAt
    <2>8. i - 1 \in 1..(n - 1) /\ L(ts, i - 1) \in Nat
        BY <1>1, <1>4, <2>7
    <2>9. L(ts, i - 1) + 2 <= m
        BY <2>2, <2>7, <2>8
    <2>10. QED
        BY <2>7, <2>8, <2>9
<1>9. Separators(c) = {L(ts, j) + 1 : j \in J}
    BY <1>7, <1>8
<1>10. QED
    BY <1>9 DEF c, x

LEMMA MaxIs ==
    ASSUME NEW S \in SUBSET Int, NEW m \in S, \A y \in S : m >= y
    PROVE  Max(S) = m
<1>1. \A x \in S : (\A y \in S : x >= y) => x = m
    OBVIOUS
<1>2. QED
    BY <1>1 DEF Max

LEMMA MinIs ==
    ASSUME NEW S \in SUBSET Int, NEW m \in S, \A y \in S : m <= y
    PROVE  Min(S) = m
<1>1. \A x \in S : (\A y \in S : x <= y) => x = m
    OBVIOUS
<1>2. QED
    BY <1>1 DEF Min

(* The texts of fewer topics are what a cut at their ends leaves. *)
LEMMA CutAtTopic ==
    ASSUME NEW ts \in Seq(Topics), NEW k \in 0..Len(ts), NEW m \in Nat,
           L(ts, k) <= m, m < L(ts, Len(ts))
    PROVE  slice(slice(join(ts)[Len(ts)], 0, m), 0, L(ts, k)) = join(ts)[k]
<1> DEFINE n == Len(ts)
           x == join(ts)[n]
           c == slice(x, 0, m)
           d == slice(c, 0, L(ts, k))
           y == join(ts)[k]
<1>1. n \in 0..Len(ts) /\ k <= n
    OBVIOUS
<1>2. x \in Seq(Chars) /\ Len(x) = L(ts, n) /\ L(ts, n) \in Nat
    BY <1>1, Joined DEF L
<1>3. y \in Seq(Chars) /\ Len(y) = L(ts, k) /\ L(ts, k) \in Nat
    BY <1>1, Joined DEF L
<1>4. \A p \in 1..L(ts, k) : x[p] = y[p]
    BY <1>1, JoinPrefix
<1> HIDE DEF x, y
<1>5. c \in Seq(Chars) /\ Len(c) = m /\ \A p \in 1..m : c[p] = x[p]
    BY <1>2, CutIs
<1> HIDE DEF c
<1>6. d \in Seq(Chars) /\ Len(d) = L(ts, k) /\ \A p \in 1..L(ts, k) : d[p] = c[p]
    BY <1>3, <1>5, CutIs
<1> HIDE DEF d
<1>7. \A p \in 1..L(ts, k) : d[p] = y[p]
    BY <1>3, <1>4, <1>5, <1>6
<1>8. d = y
    BY <1>3, <1>6, <1>7
<1>9. QED
    BY <1>8 DEF c, d, x, y

(* What the loop of slices and joins amounts to. *)
LEMMA SampleIs ==
    ASSUME NEW ts \in Seq(Topics), NEW m \in Nat
    PROVE  LET whole == join(ts)[Len(ts)]
               cut == slice(whole, 0, m)
               sample == IF Len(whole) <= m THEN whole
                         ELSE slice(cut, 0, Max(Separators(cut) \cup {1}) - 1)
           IN  \E k \in 0..Len(ts) :
                  /\ sample = join(ts)[k] /\ Len(sample) <= m
                  /\ k < Len(ts) => Len(join(ts)[k + 1]) + 2 > m
<1> DEFINE n == Len(ts)
           whole == join(ts)[n]
           cut == slice(whole, 0, m)
           last == Max(Separators(cut) \cup {1}) - 1
<1>1. n \in Nat /\ n \in 0..n
    OBVIOUS
<1>2. \A j \in 0..n : L(ts, j) \in Nat
    BY Joined
<1>3. L(ts, 0) = 0
    BY JoinIs DEF Further, L
<1>4. CASE L(ts, n) <= m
    <2>1. Len(whole) <= m /\ ~(n < n)
        BY <1>1, <1>4 DEF L
    <2> HIDE DEF whole, cut, last, n
    <2>2. QED
        BY <1>1, <2>1 DEF n, whole, cut, last
<1>5. CASE m < L(ts, n)
    <2> DEFINE D == {j \in 0..(n - 1) : L(ts, j + 1) + 2 > m}
    <2>1. n # 0
        BY <1>3, <1>5
    <2>2. n - 1 \in D /\ D \in SUBSET Nat
        BY <1>1, <1>2, <1>5, <2>1
    <2>3. PICK k \in D : \A e \in D : k <= e
        BY <2>2, LeastNumber
    <2>4. k \in 0..(n - 1) /\ k \in 0..n /\ L(ts, k + 1) + 2 > m
        BY <1>1
    <2>5. \A j \in 1..k : L(ts, j) + 2 <= m
        <3> SUFFICES ASSUME NEW j \in 1..k PROVE L(ts, j) + 2 <= m
            OBVIOUS
        <3>1. j - 1 \in 0..(n - 1) /\ j - 1 \notin D /\ (j - 1) + 1 = j /\ j \in 0..n
            BY <1>1, <2>3, <2>4
        <3>2. QED
            BY <1>2, <3>1
    <2>6. \A j \in 1..(n - 1) : k < j => ~(L(ts, j) + 2 <= m)
        <3> SUFFICES ASSUME NEW j \in 1..(n - 1), k < j PROVE ~(L(ts, j) + 2 <= m)
            OBVIOUS
        <3>1. j \in 0..n /\ k + 1 \in 0..n /\ (k + 1 = j \/ k + 1 < j)
            BY <1>1, <2>4
        <3>2. k + 1 = j \/ L(ts, k + 1) + 2 <= L(ts, j)
            BY <3>1, Growing
        <3>3. QED
            BY <1>2, <2>4, <3>1, <3>2
    <2>7. Separators(cut) = {L(ts, j) + 1 : j \in {i \in 1..(n - 1) : L(ts, i) + 2 <= m}}
        BY <1>5, SeparatorsIn
    <2>8. {i \in 1..(n - 1) : L(ts, i) + 2 <= m} = 1..k
        BY <1>1, <2>4, <2>5, <2>6
    <2>9. Max(Separators(cut) \cup {1}) = L(ts, k) + 1
        <3> DEFINE S == {L(ts, j) + 1 : j \in 1..k} \cup {1}
        <3>1. S \in SUBSET Int
            BY <1>1, <1>2, <2>4
        <3>2. L(ts, k) + 1 \in S
            <4>1. k = 0 \/ k \in 1..k
                BY <2>4
            <4>2. QED
                BY <1>3, <4>1
        <3>3. \A y \in S : L(ts, k) + 1 >= y
            <4>1. ASSUME NEW j \in 1..k PROVE L(ts, k) + 1 >= L(ts, j) + 1
                <5>1. j \in 0..n /\ (j = k \/ j < k)
                    BY <1>1, <2>4
                <5>2. j = k \/ L(ts, j) + 2 <= L(ts, k)
                    BY <2>4, <5>1, Growing
                <5>3. QED
                    BY <1>2, <2>4, <5>1, <5>2
            <4>2. L(ts, k) + 1 >= 1
                BY <1>2, <2>4
            <4>3. QED
                BY <4>1, <4>2
        <3>4. Separators(cut) \cup {1} = S
            BY <2>7, <2>8
        <3> HIDE DEF S
        <3>5. QED
            BY <3>1, <3>2, <3>3, <3>4, MaxIs
    <2>10. L(ts, k) <= m
        <3>1. k = 0 \/ k \in 1..k
            BY <2>4
        <3>2. QED
            BY <1>2, <1>3, <2>4, <2>5, <3>1
    <2>11. last = L(ts, k)
        BY <1>2, <2>4, <2>9
    <2>12. slice(cut, 0, last) = join(ts)[k]
        BY <1>5, <2>4, <2>10, <2>11, CutAtTopic
    <2>13. Len(whole) = L(ts, n) /\ ~(Len(whole) <= m)
        BY <1>1, <1>2, <1>5 DEF L
    <2>14. Len(join(ts)[k]) <= m /\ Len(join(ts)[k + 1]) + 2 > m
        BY <2>4, <2>10 DEF L
    <2> HIDE DEF whole, cut, last, D
    <2>15. QED
        BY <2>4, <2>12, <2>13, <2>14 DEF whole, cut, last
<1>6. L(ts, n) <= m \/ m < L(ts, n)
    BY <1>1, <1>2
<1>7. QED
    BY <1>4, <1>5, <1>6

(* Spaces in front of a topic are trimmed. *)
LEMMA TrimPadded ==
    ASSUME NEW t \in Topics, NEW d \in {0, 1}, NEW s \in Seq(Chars), Len(s) = d + Length[t],
           \A p \in 1..Len(s) : s[p] = IF p <= d THEN Space ELSE Spelt(t)[p - d]
    PROVE  trim(s) = Spelt(t)
<1> DEFINE n == Length[t]
           v == Spelt(t)
           ink == {p \in DOMAIN s : s[p] # Space}
<1>1. /\ n \in Nat /\ n > 1
      /\ v \in Seq(Chars) /\ Len(v) = n
    BY SpeltFacts
<1>2. v[1] # Space /\ v[n] # Space
    BY SpeltFacts
<1> HIDE DEF v
<1>3. DOMAIN s = 1..(d + n) /\ d + n \in Nat /\ d \in Nat /\ d + 1 \in Int
    BY <1>1
<1>4. d + 1 \in ink /\ d + n \in ink /\ ink \subseteq (d + 1)..(d + n)
    <2>1. \A p \in 1..(d + n) : s[p] = IF p <= d THEN Space ELSE v[p - d]
        BY <1>3 DEF v
    <2>2. s[d + 1] = v[1] /\ s[d + n] = v[n]
        <3>1. /\ d + 1 \in 1..(d + n) /\ ~(d + 1 <= d) /\ (d + 1) - d = 1
              /\ d + n \in 1..(d + n) /\ ~(d + n <= d) /\ (d + n) - d = n
            BY <1>1, <1>3
        <3> HIDE DEF n
        <3>2. QED
            BY <2>1, <3>1
    <2>3. ASSUME NEW p \in 1..(d + n), s[p] # Space PROVE p \in (d + 1)..(d + n)
        BY <1>1, <1>3, <2>1, <2>3
    <2>4. d + 1 \in 1..(d + n) /\ d + n \in 1..(d + n)
        BY <1>1, <1>3
    <2> HIDE DEF n
    <2>5. QED
        BY <1>2, <1>3, <2>2, <2>3, <2>4
<1>5. /\ ink \in SUBSET Int /\ ink # {} /\ d + 1 \in ink /\ d + n \in ink
      /\ \A y \in ink : d + 1 <= y /\ d + n >= y
    BY <1>3, <1>4
<1> HIDE DEF ink, n
<1>6. Min(ink) = d + 1 /\ Max(ink) = d + n
    BY <1>5, MinIs, MaxIs
<1>7. trim(s) = SubSeq(s, d + 1, d + n)
    BY <1>5, <1>6 DEF trim, ink
<1>8. /\ SubSeq(s, d + 1, d + n) \in Seq(Chars) /\ Len(SubSeq(s, d + 1, d + n)) = n
      /\ \A i \in 1..n : SubSeq(s, d + 1, d + n)[i] = s[d + i]
    <2>1. d + 1 \in Int /\ d + n \in Int /\ \A i \in (d + 1)..(d + n) : s[i] \in Chars
        BY <1>1, <1>3
    <2>2. /\ SubSeq(s, d + 1, d + n) \in Seq(Chars)
          /\ Len(SubSeq(s, d + 1, d + n)) = IF d + 1 <= d + n THEN (d + n) - (d + 1) + 1 ELSE 0
          /\ \A i \in 1..((d + n) - (d + 1) + 1) : SubSeq(s, d + 1, d + n)[i] = s[(d + 1) + i - 1]
        BY <2>1, SubSeqProperties
    <2>3. d + 1 <= d + n /\ (d + n) - (d + 1) + 1 = n /\ \A i \in 1..n : (d + 1) + i - 1 = d + i
        BY <1>1, <1>3
    <2>4. QED
        BY <2>2, <2>3
<1>9. \A i \in 1..n : SubSeq(s, d + 1, d + n)[i] = v[i]
    <2>1. \A i \in 1..n : d + i \in 1..Len(s) /\ ~(d + i <= d) /\ (d + i) - d = i
        BY <1>1, <1>3 DEF n
    <2>2. \A i \in 1..n : s[d + i] = v[i]
        BY <2>1 DEF v
    <2>3. QED
        BY <1>8, <2>2
<1> DEFINE u == SubSeq(s, d + 1, d + n)
<1>10. u \in Seq(Chars) /\ Len(u) = n /\ \A i \in 1..n : u[i] = v[i]
    BY <1>8, <1>9
<1> HIDE DEF u
<1>11. u = v
    BY <1>1, <1>10
<1>12. QED
    BY <1>7, <1>11 DEF u, v

(* Underscores keep the length and make a text of a topic its title. *)
LEMMA UnderscoredIs ==
    ASSUME NEW t \in Topics
    PROVE  underscored(Spelt(t)) = Title(t) /\ Len(Title(t)) = Length[t]
<1>1. Length[t] \in Nat /\ t # Space
    BY LengthAssumption, TopicsAssumption
<1>2. DOMAIN Spelt(t) = 1..Length[t]
    BY DEF Spelt
<1>3. \A i \in 1..Length[t] :
         (IF Spelt(t)[i] = Space THEN Underscore ELSE Spelt(t)[i])
             = IF i \in Gaps[t] THEN Underscore ELSE t
    BY <1>1 DEF Spelt
<1>4. underscored(Spelt(t)) = Title(t)
    BY <1>2, <1>3 DEF underscored, Title
<1>5. Len(Title(t)) = Length[t]
    BY <1>1 DEF Title
<1>6. QED
    BY <1>4, <1>5

Neighbours(ends) ==
    {e \in ends \X ends : e[1] < e[2] /\ \A p \in ends : ~(e[1] < p /\ p < e[2])}

Steps(E, k) == {<<E[j - 1], E[j]>> : j \in 1..k}

(* Neighbours among the values of an increasing function. *)
LEMMA Consecutive ==
    ASSUME NEW k \in Nat, NEW E, \A j \in 0..k : E[j] \in Int,
           \A i, j \in 0..k : i < j => E[i] < E[j],
           NEW ends, ends = {E[j] : j \in 0..k}
    PROVE  Neighbours(ends) = Steps(E, k)
<1> DEFINE Near(e) == e[1] < e[2] /\ \A p \in ends : ~(e[1] < p /\ p < e[2])
           P == {e \in ends \X ends : Near(e)}
<1>1. ASSUME NEW j \in 1..k PROVE <<E[j - 1], E[j]>> \in P
    <2> DEFINE e == <<E[j - 1], E[j]>>
    <2>1. j - 1 \in 0..k /\ j \in 0..k /\ j - 1 < j
        OBVIOUS
    <2>2. E[j - 1] \in ends /\ E[j] \in ends /\ E[j - 1] < E[j]
        BY <2>1
    <2>3. ASSUME NEW p \in ends PROVE ~(E[j - 1] < p /\ p < E[j])
        <3>1. PICK i \in 0..k : p = E[i]
            OBVIOUS
        <3>2. i < j - 1 \/ i = j - 1 \/ i = j \/ j < i
            BY <2>1
        <3>3. E[i] \in Int /\ E[j] \in Int /\ E[j - 1] \in Int
            BY <2>1
        <3>4. /\ i < j - 1 => E[i] < E[j - 1]
              /\ j < i => E[j] < E[i]
            BY <2>1
        <3>5. QED
            BY <3>1, <3>2, <3>3, <3>4
    <2>4. e \in ends \X ends /\ e[1] = E[j - 1] /\ e[2] = E[j]
        BY <2>2
    <2> HIDE DEF e
    <2>5. Near(e)
        BY <2>2, <2>3, <2>4
    <2>6. QED
        BY <2>4, <2>5 DEF e
<1>2. ASSUME NEW e \in P PROVE \E j \in 1..k : e = <<E[j - 1], E[j]>>
    <2>1. e \in ends \X ends /\ e[1] < e[2] /\ \A p \in ends : ~(e[1] < p /\ p < e[2])
        OBVIOUS
    <2>2. e = <<e[1], e[2]>> /\ e[1] \in ends /\ e[2] \in ends
        BY <2>1
    <2>3. PICK i \in 0..k : e[1] = E[i]
        BY <2>2
    <2>4. PICK j \in 0..k : e[2] = E[j]
        BY <2>2
    <2>5. E[i] < E[j] /\ E[i] \in Int /\ E[j] \in Int
        BY <2>1, <2>3, <2>4
    <2>6. i < j
        <3>1. j < i => E[j] < E[i]
            OBVIOUS
        <3>2. i = j \/ j < i \/ i < j
            OBVIOUS
        <3>3. QED
            BY <2>5, <3>1, <3>2
    <2>7. i = j - 1
        <3>1. SUFFICES ASSUME i < j - 1 PROVE FALSE
            BY <2>6
        <3>2. j - 1 \in 0..k /\ j - 1 < j
            BY <2>6
        <3>3. E[i] < E[j - 1] /\ E[j - 1] < E[j] /\ E[j - 1] \in ends
            BY <3>1, <3>2
        <3>4. QED
            BY <2>1, <2>3, <2>4, <3>3
    <2>8. j \in 1..k
        BY <2>6
    <2>9. QED
        BY <2>2, <2>3, <2>4, <2>7, <2>8
<1> HIDE DEF P
<1>3. P = {<<E[j - 1], E[j]>> : j \in 1..k}
    BY <1>1, <1>2
<1>4. QED
    BY <1>3 DEF P, Neighbours, Steps

(* Where the pieces of a text of k topics end. *)
Ends(ts, k) == [j \in 0..k |-> IF j = 0 THEN 0 ELSE L(ts, j) + 1]

LEMMA PiecesIs ==
    ASSUME NEW ts \in Seq(Topics), NEW k \in 1..Len(ts)
    PROVE  Pieces(join(ts)[k]) = Steps(Ends(ts, k), k)
<1> DEFINE x == join(ts)[k]
           E == Ends(ts, k)
           ends == {0, Len(x) + 1} \cup {p \in DOMAIN x : x[p] = Semicolon}
<1>1. k \in 0..Len(ts) /\ k \in Nat /\ k # 0
    OBVIOUS
<1>2. x \in Seq(Chars) /\ Len(x) = L(ts, k) /\ DOMAIN x = 1..L(ts, k)
    <2>1. x \in Seq(Chars) /\ Len(x) = L(ts, k)
        BY <1>1, Joined DEF L
    <2> HIDE DEF x
    <2>2. QED
        BY <2>1
<1>3. \A j \in 0..k : L(ts, j) \in Nat
    BY Joined
<1>6. \A j \in 0..k : E[j] = (IF j = 0 THEN 0 ELSE L(ts, j) + 1) /\ E[j] \in Int
    BY <1>3 DEF Ends
<1> HIDE DEF x, E
<1>7. \A i, j \in 0..k : i < j => E[i] < E[j]
    <2> SUFFICES ASSUME NEW i \in 0..k, NEW j \in 0..k, i < j PROVE E[i] < E[j]
        OBVIOUS
    <2>1. L(ts, i) + 2 <= L(ts, j)
        <3>1. i \in 0..Len(ts) /\ j \in 0..Len(ts)
            OBVIOUS
        <3>2. QED
            BY <3>1, Growing
    <2>2. E[j] = L(ts, j) + 1 /\ (E[i] = 0 \/ E[i] = L(ts, i) + 1)
        BY <1>6
    <2>3. L(ts, i) \in Nat /\ L(ts, j) \in Nat
        BY <1>3
    <2>4. QED
        BY <2>1, <2>2, <2>3
<1>8. ASSUME NEW j \in 0..k PROVE E[j] \in ends
    <2>1. CASE j = 0 \/ j = k
        BY <1>1, <1>2, <1>6, <2>1
    <2>2. CASE j # 0 /\ j # k
        <3>1. j \in 0..Len(ts) /\ j + 1 \in 0..Len(ts) /\ j + 1 \in 1..k /\ j + 1 # 1 /\ (j + 1) - 1 = j
            BY <2>2
        <3>2. L(ts, j) \in Nat /\ L(ts, j + 1) \in Nat /\ L(ts, j) + 2 <= L(ts, j + 1)
            BY <1>3, <3>1, Growing
        <3>3. L(ts, j) + 1 \in (L(ts, j) + 1)..L(ts, j + 1)
            BY <3>2
        <3>4. x[L(ts, j) + 1] = CharOf(ts, j + 1, L(ts, j) + 1)
            BY <1>1, <3>1, <3>3, CharAt DEF x
        <3>5. x[L(ts, j) + 1] = Semicolon
            BY <3>1, <3>4 DEF CharOf
        <3>6. L(ts, j) + 1 <= L(ts, k)
            <4>1. j + 1 = k \/ j + 1 < k
                BY <3>1
            <4>2. j + 1 = k \/ L(ts, j + 1) + 2 <= L(ts, k)
                BY <1>1, <3>1, <4>1, Growing
            <4>3. QED
                BY <1>1, <1>3, <3>2, <4>2
        <3>7. L(ts, j) + 1 \in DOMAIN x
            BY <1>1, <1>2, <1>3, <3>2, <3>6
        <3>8. E[j] = L(ts, j) + 1
            BY <1>6, <2>2
        <3>9. QED
            BY <3>5, <3>7, <3>8
    <2>3. QED
        BY <2>1, <2>2
<1>9. ASSUME NEW p \in ends PROVE \E j \in 0..k : p = E[j]
    <2>1. CASE p = 0 \/ p = Len(x) + 1
        BY <1>1, <1>2, <1>6, <2>1
    <2>2. CASE p \in DOMAIN x /\ x[p] = Semicolon
        <3>1. PICK i \in 1..k : p \in (L(ts, i - 1) + 1)..L(ts, i)
            BY <1>1, <1>2, <2>2, Located
        <3>2. x[p] = CharOf(ts, i, p)
            BY <1>1, <3>1, CharAt DEF x
        <3>3. i \in 1..Len(ts)
            OBVIOUS
        <3>4. i # 1 /\ p = L(ts, i - 1) + 1
            BY <2>2, <3>1, <3>2, <3>3, SemicolonAt
        <3>5. i - 1 \in 0..k /\ i - 1 # 0
            BY <3>4
        <3>6. QED
            BY <1>6, <3>4, <3>5
    <2>3. QED
        BY <2>1, <2>2
<1>10. ends = {E[j] : j \in 0..k}
    BY <1>8, <1>9
<1>11. Pieces(x) = Neighbours(ends)
    BY DEF Pieces, Neighbours
<1> HIDE DEF ends
<1>12. Pieces(x) = Steps(E, k)
    <2>1. \A j \in 0..k : E[j] \in Int
        BY <1>6
    <2>2. Neighbours(ends) = Steps(E, k)
        BY <1>1, <1>7, <1>10, <2>1, Consecutive
    <2>3. QED
        BY <1>11, <2>2
<1>13. QED
    BY <1>12 DEF x, E

(* The piece between the ends of two topics. *)
LEMMA PieceIs ==
    ASSUME NEW ts \in Seq(Topics), NEW k \in 1..Len(ts), NEW j \in 1..k
    PROVE  trim(SubSeq(join(ts)[k], Ends(ts, k)[j - 1] + 1, Ends(ts, k)[j] - 1)) = Spelt(ts[j])
<1> DEFINE x == join(ts)[k]
           E == Ends(ts, k)
           d == IF j = 1 THEN 0 ELSE 1
           s == SubSeq(x, E[j - 1] + 1, E[j] - 1)
           n == Length[ts[j]]
<1>1. /\ k \in 0..Len(ts) /\ j \in 0..Len(ts) /\ j - 1 \in 0..Len(ts) /\ j \in 1..Len(ts)
      /\ j \in 0..k /\ j - 1 \in 0..k /\ j # 0 /\ (j - 1 = 0 <=> j = 1)
    OBVIOUS
<1>2. /\ L(ts, j) \in Nat /\ L(ts, j - 1) \in Nat /\ L(ts, k) \in Nat
      /\ j = 1 => L(ts, j - 1) = 0
    BY <1>1, Joined, JoinParts
<1>3. x \in Seq(Chars) /\ Len(x) = L(ts, k)
    BY <1>1, Joined DEF L
<1>4. ts[j] \in Topics /\ n \in Nat /\ n > 1
    BY <1>1, SpeltFacts
<1>5. L(ts, j) = (IF j = 1 THEN 0 ELSE L(ts, j - 1) + 2) + n
    BY <1>1, JoinParts
<1>6. E[j] = L(ts, j) + 1 /\ E[j - 1] = (IF j = 1 THEN 0 ELSE L(ts, j - 1) + 1)
    BY <1>1 DEF Ends
<1>7. L(ts, j) <= L(ts, k)
    <2>1. j = k \/ j < k
        OBVIOUS
    <2>2. j = k \/ L(ts, j) + 2 <= L(ts, k)
        BY <1>1, <2>1, Growing
    <2>3. QED
        BY <1>2, <2>2
<1>8. \A p \in (L(ts, j - 1) + 1)..L(ts, j) : x[p] = CharOf(ts, j, p)
    BY <1>1, CharAt
<1> HIDE DEF x, E, n
<1> DEFINE from == E[j - 1] + 1
           to == E[j] - 1
<1>9. /\ from \in Nat /\ to \in Nat /\ to - from + 1 = d + n /\ from <= to
      /\ from >= L(ts, j - 1) + 1 /\ to = L(ts, j)
      /\ j = 1 => from = 1
      /\ j # 1 => from = L(ts, j - 1) + 2
    <2>1. CASE j = 1
        <3>1. E[j - 1] = 0 /\ E[j] = n + 1 /\ d = 0 /\ L(ts, j - 1) = 0 /\ L(ts, j) = n
            BY <1>2, <1>4, <1>5, <1>6, <2>1
        <3> HIDE DEF d
        <3>2. QED
            BY <1>4, <2>1, <3>1
    <2>2. CASE j # 1
        <3>1. /\ E[j - 1] = L(ts, j - 1) + 1 /\ E[j] = L(ts, j) + 1 /\ d = 1
              /\ L(ts, j) = L(ts, j - 1) + 2 + n
            BY <1>5, <1>6, <2>2
        <3> HIDE DEF d
        <3>2. QED
            BY <1>2, <1>4, <2>2, <3>1
    <2>3. QED
        BY <2>1, <2>2
<1>10. \A i \in from..to : i \in 1..L(ts, k) /\ i \in (L(ts, j - 1) + 1)..L(ts, j)
    BY <1>2, <1>7, <1>9
<1> HIDE DEF from, to
<1>11. \A i \in from..to : x[i] \in Chars
    BY <1>3, <1>10
<1>12. /\ SubSeq(x, from, to) \in Seq(Chars) /\ Len(SubSeq(x, from, to)) = d + n
       /\ \A i \in 1..(d + n) : SubSeq(x, from, to)[i] = x[from + i - 1]
    <2>1. from \in Int /\ to \in Int
        BY <1>9
    <2>2. /\ SubSeq(x, from, to) \in Seq(Chars)
          /\ Len(SubSeq(x, from, to)) = IF from <= to THEN to - from + 1 ELSE 0
          /\ \A i \in 1..(to - from + 1) : SubSeq(x, from, to)[i] = x[from + i - 1]
        BY <1>11, <2>1, SubSeqProperties
    <2>3. QED
        BY <1>9, <2>2
<1>13. s = SubSeq(x, from, to)
    BY DEF from, to
<1> HIDE DEF s
<1>14. \A i \in 1..(d + n) : s[i] = IF i <= d THEN Space ELSE Spelt(ts[j])[i - d]
    <2> SUFFICES ASSUME NEW i \in 1..(d + n)
                 PROVE  s[i] = IF i <= d THEN Space ELSE Spelt(ts[j])[i - d]
        OBVIOUS
    <2> DEFINE p == from + i - 1
    <2>1. p \in from..to /\ p \in Int
        BY <1>4, <1>9
    <2>2. s[i] = CharOf(ts, j, p)
        BY <1>8, <1>10, <1>12, <1>13, <2>1
    <2>3. CASE j = 1
        <3>1. p = i /\ i - d = i /\ ~(i <= d)
            BY <1>4, <1>9, <2>3
        <3> HIDE DEF p, d
        <3>2. s[i] = Spelt(ts[j])[p - 0]
            BY <2>2, <2>3 DEF CharOf
        <3>3. p - 0 = p
            BY <2>1
        <3>4. QED
            BY <3>1, <3>2, <3>3
    <2>4. CASE j # 1
        <3>1. p = L(ts, j - 1) + 1 + i /\ i \in Nat /\ i >= 1 /\ d = 1
            BY <1>2, <1>4, <1>9, <2>4
        <3> HIDE DEF p, d
        <3>2. /\ p # L(ts, j - 1) + 1
              /\ p = L(ts, j - 1) + 2 <=> i <= d
              /\ p - (L(ts, j - 1) + 2) = i - d
            BY <1>2, <3>1
        <3>3. s[i] = IF p = L(ts, j - 1) + 2 THEN Space
                     ELSE Spelt(ts[j])[p - (L(ts, j - 1) + 2)]
            BY <2>2, <2>4, <3>2 DEF CharOf
        <3>4. QED
            BY <3>2, <3>3
    <2>5. QED
        BY <2>3, <2>4
<1>15. trim(s) = Spelt(ts[j])
    <2>1. s \in Seq(Chars) /\ Len(s) = d + n /\ d \in {0, 1}
        BY <1>12, <1>13
    <2> HIDE DEF d
    <2>2. QED
        BY <1>4, <1>14, <2>1, TrimPadded DEF n
<1>16. QED
    BY <1>15 DEF s, x, E

(* A click reads the topics of the form's text. *)
LEMMA ReadIs ==
    ASSUME NEW ts \in Seq(Topics), NEW k \in 0..Len(ts)
    PROVE  LET x == join(ts)[k] IN
           {t \in {underscored(trim(SubSeq(x, e[1] + 1, e[2] - 1))) : e \in Pieces(x)} :
               Len(t) > 1}
              = {Title(ts[i]) : i \in 1..k}
<1> DEFINE x == join(ts)[k]
           Cut(e) == underscored(trim(SubSeq(x, e[1] + 1, e[2] - 1)))
           E == Ends(ts, k)
<1>1. CASE k = 0
    <2>1. x = <<>>
        BY <1>1, JoinIs DEF Further
    <2> HIDE DEF x
    <2>2. ASSUME NEW e \in Pieces(x) PROVE ~(Len(Cut(e)) > 1)
        <3>1. Len(x) = 0 /\ DOMAIN x = {}
            BY <2>1
        <3>2. e \in {0, 1} \X {0, 1} /\ e[1] < e[2]
            BY <3>1 DEF Pieces
        <3>3. e[1] = 0 /\ e[2] = 1
            BY <3>2
        <3> DEFINE s == SubSeq(x, e[1] + 1, e[2] - 1)
        <3>4. s = <<>>
            BY <2>1, <3>3
        <3> HIDE DEF s
        <3>5. DOMAIN s = {}
            BY <3>4
        <3>6. trim(s) = <<>>
            BY <3>5 DEF trim
        <3>7. Cut(e) = underscored(<<>>)
            BY <3>6 DEF s
        <3>8. underscored(<<>>) = <<>>
            BY DEF underscored
        <3>9. QED
            BY <3>7, <3>8
    <2>3. {Title(ts[i]) : i \in 1..k} = {}
        BY <1>1
    <2> HIDE DEF Cut
    <2>4. {t \in {Cut(e) : e \in Pieces(x)} : Len(t) > 1} = {}
        BY <2>2
    <2>5. QED
        BY <2>3, <2>4 DEF Cut, x
<1>2. CASE k # 0
    <2>1. k \in 1..Len(ts)
        BY <1>2
    <2>2. Pieces(x) = {<<E[j - 1], E[j]>> : j \in 1..k}
        BY <2>1, PiecesIs DEF Steps
    <2>3. \A j \in 1..k : Cut(<<E[j - 1], E[j]>>) = Title(ts[j])
        <3> SUFFICES ASSUME NEW j \in 1..k PROVE Cut(<<E[j - 1], E[j]>>) = Title(ts[j])
            OBVIOUS
        <3>1. trim(SubSeq(x, E[j - 1] + 1, E[j] - 1)) = Spelt(ts[j])
            BY <2>1, PieceIs
        <3>2. ts[j] \in Topics
            BY <2>1
        <3> HIDE DEF x, E
        <3>3. QED
            BY <3>1, <3>2, UnderscoredIs
    <2>4. \A j \in 1..k : Len(Title(ts[j])) > 1
        <3>1. \A j \in 1..k : ts[j] \in Topics
            BY <2>1
        <3>2. QED
            BY <3>1, SpeltFacts, UnderscoredIs
    <2> HIDE DEF Cut, x, E
    <2>5. {t \in {Cut(e) : e \in Pieces(x)} : Len(t) > 1} = {Title(ts[i]) : i \in 1..k}
        BY <2>2, <2>3, <2>4
    <2>6. QED
        BY <2>5 DEF Cut, x
<1>3. QED
    BY <1>1, <1>2

(* A shuffle is a sequence of topics, and so is the part taken of it. *)
LEMMA SliceTyped ==
    ASSUME NEW q \in SetToSeqs(Topics)
    PROVE  slice(q, 1, maxTopics + 1) \in Seq(Topics)
<1> DEFINE n == Cardinality(Topics)
           to == IF maxTopics + 1 < n THEN maxTopics + 1 ELSE n
<1>1. n \in Nat
    BY TopicsAssumption, FS_CardinalityType
<1>2. q \in [1..n -> Topics]
    BY DEF SetToSeqs
<1> HIDE DEF n
<1>3. Len(q) = n /\ \A i \in 1..n : q[i] \in Topics
    BY <1>1, <1>2
<1>4. to \in Int /\ to <= n
    BY <1>1, LimitsAssumption
<1>5. slice(q, 1, maxTopics + 1) = SubSeq(q, 2, to)
    BY <1>3 DEF slice
<1> HIDE DEF to
<1>6. \A i \in 2..to : q[i] \in Topics
    BY <1>1, <1>3, <1>4
<1>7. SubSeq(q, 2, to) \in Seq(Topics)
    BY <1>4, <1>6, SubSeqProperties
<1>8. QED
    BY <1>5, <1>7

(* The form holds a text that the sample left. *)
FormInv ==
    /\ shuffled \in SetToSeqs(Topics)
    /\ maxChars \in CharLimits
    /\ LosesFew
    /\ TopicsWhole

(* A sample taken of a shuffle is such a text. *)
LEMMA SampleLosesFew ==
    ASSUME shuffled \in SetToSeqs(Topics), maxChars \in CharLimits, form = formatSampleOfTopics
    PROVE  LosesFew
<1>1. topics \in Seq(Topics)
    BY SliceTyped DEF topics
<1>2. maxChars \in Nat
    BY LimitsAssumption
<1>3. \E k \in 0..Len(topics) :
         /\ formatSampleOfTopics = join(topics)[k] /\ Len(formatSampleOfTopics) <= maxChars
         /\ k < Len(topics) => Len(join(topics)[k + 1]) + 2 > maxChars
    BY <1>1, <1>2, SampleIs, Zenon DEF formatSampleOfTopics
<1>4. QED
    BY <1>3, Zenon DEF LosesFew

LEMMA FormInitInv == FormInit => FormInv
<1> SUFFICES ASSUME FormInit PROVE FormInv
    OBVIOUS
<1>1. LosesFew
    BY SampleLosesFew DEF FormInit
<1>2. QED
    BY <1>1 DEF FormInit, FormInv, TopicsWhole

LEMMA ReloadInv == FormInv /\ reload => FormInv'
<1> SUFFICES ASSUME FormInv, reload PROVE FormInv'
    OBVIOUS
<1>1. shuffled' \in SetToSeqs(Topics) /\ maxChars' \in CharLimits /\ form' = formatSampleOfTopics'
    BY DEF FormInv, reload
<1>2. topics' \in Seq(Topics)
    BY <1>1, SliceTyped DEF topics
<1>3. maxChars' \in Nat
    BY <1>1, LimitsAssumption
<1>4. \E k \in 0..Len(topics') :
         /\ formatSampleOfTopics' = join(topics')[k] /\ Len(formatSampleOfTopics') <= maxChars'
         /\ k < Len(topics') => Len(join(topics')[k + 1]) + 2 > maxChars'
    BY <1>2, <1>3, SampleIs, Zenon DEF formatSampleOfTopics
<1>5. LosesFew'
    BY <1>1, <1>4, Zenon DEF LosesFew
<1>6. QED
    BY <1>1, <1>5 DEF FormInv, TopicsWhole, reload

LEMMA ClickKeepsForm == FormInv /\ click => FormInv'
<1> SUFFICES ASSUME FormInv, click PROVE FormInv'
    OBVIOUS
<1>1. topics \in Seq(Topics)
    BY SliceTyped DEF FormInv, topics
<1>2. PICK k \in 0..Len(topics) : form = join(topics)[k]
    BY DEF FormInv, LosesFew
<1>3. readTopicForm = {Title(topics[i]) : i \in 1..k}
    BY <1>1, <1>2, ReadIs, Zenon DEF readTopicForm
<1>4. shuffled' = shuffled /\ maxChars' = maxChars /\ form' = form /\ sent' = sent \cup {readTopicForm}
    BY DEF click
<1>5. topics' = topics
    BY <1>4 DEF topics
<1>6. TopicsWhole'
    BY <1>3, <1>4, <1>5 DEF FormInv, TopicsWhole
<1>7. LosesFew'
    BY <1>4, <1>5 DEF FormInv, LosesFew
<1>8. QED
    BY <1>4, <1>6, <1>7 DEF FormInv

LEMMA FormInvariant == FormSpec => []FormInv
<1>1. FormInv /\ UNCHANGED formVars => FormInv'
    BY DEF FormInv, LosesFew, TopicsWhole, topics, formVars
<1>2. FormInv /\ [FormNext]_formVars => FormInv'
    BY <1>1, ReloadInv, ClickKeepsForm DEF FormNext
<1>3. QED
    BY FormInitInv, <1>2, PTL DEF FormSpec

(* However the text of the sample was cut (the second slice of             *)
(* formatSampleOfTopics), a search sends whole topics, the first of the    *)
(* sample and none of them left out.                                       *)
THEOREM TopicsAreWhole == FormSpec => []TopicsWhole
<1>1. FormInv => TopicsWhole
    BY DEF FormInv
<1>2. QED
    BY FormInvariant, <1>1, PTL

(* The sample loses a topic only if it does not fit together with the      *)
(* separator behind it.                                                    *)
THEOREM FewAreLost == FormSpec => []LosesFew
<1>1. FormInv => LosesFew
    BY DEF FormInv
<1>2. QED
    BY FormInvariant, <1>1, PTL
==============================================================================
