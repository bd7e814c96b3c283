# tourguide in TLA+

A verification development for `tourguide`: a web page that asks for your
position and a few topics and answers with chains of Wikipedia links between
the places around you and the topics, and the scripts that load a link
database for it. Specifications are translated from the source; TLC checks
them on small instances and TLAPS proves theorems about them.

## 1. Inventory

| Component | Source | State it keeps | Operations |
|---|---|---|---|
| Search page | `tourguide_flaskapp/static/main_search.js`, `templates/places.html` | globals `path_status`, `pathsBy*`, `seedsBy*`; the active menu item; `#output-vals` | load, search click, menu click, callbacks of three requests and of the position prompt |
| Session handlers | `tourguide_flaskapp/main.py` | none: Flask's session is a client cookie | `clear_session`, `set_location`, `set_topics`, `run_query`, `index` |
| Article network | `tourguide_flaskapp/article_network.py` | two regions, `all_paths` (for one request) | `add_nearby`, `add_topics`, `grow`, `find_all_paths`, `get_nested_paths`, `path_status` |
| Region subgraphs | `tourguide_flaskapp/region_subgraph.py` | graph, seeds, visited sets, distances | `add_seeds`, `dilate`, `filter_nodes_by_distance`; `filter_nodes_by_blacklist` is called and not defined |
| Wikipedia API client | `tourguide_flaskapp/wikidata_interfaces.py` | a `requests` session; `params` shared by the titles of a payload | `get_payload`, continuation loop, two response parsers |
| Topic sampling, HTML | `static/default_topics.js`, `static/format_wiki_paths.js` | none | pure functions |
| Place queries | `tourguide_flaskapp/bigquery_interface.py` | table `pages.s2cells` | drop and create the table, nearby, bridges, mutual links |
| Link database build | `db_load/1_parse-script.js`, `2_mongo-processing.js` | nine mongo collections | parse a page; drop, aggregate and `$out` per collection |
| Warehouse load | `db_load/3_…` to `6_…` | `pages.links`, `pages.geotags`, dump files | load, rename, add column, fill, cluster, clean up |
| Atlas | `atlas_flaskapp/main.py`, `bigquery_interface.py` | table `pages.undirected_links` | a fixed map; neighbours, mutual links |

How they interact. A click on the page sends three requests at once and a
fourth when the browser knows the position. The handlers share no memory:
each gets the cookie its request carried and, if it modifies it, returns a
cookie that replaces the browser's as a whole, also that of other tabs.
`run_query` builds an `ArticleNetwork`, which grows two `RegionSubGraph`s with
rounds of calls to Wikipedia's API. The database side is independent of the page:
scripts fill mongo, then BigQuery; `bigquery_interface.py` reads the
tables, and nothing imports it.

What is hard here: the order of requests, responses and the position
callback; one cookie replaced by everybody; lost exchanges; answers of the API that
are cut short without an error, and edits between calls; lookups by a
title's name where answers use another; load scripts that go on after a failure and
tables that are not whole in between. `PROJECT.json` lists these hazards
at their lines.

What makes each component correct:

- *page*: it shows what its globals say; a search settles; an answer is made
  of a position and of topics, and which ones is bounded;
- *handlers*: `run_query` answers only with a complete session;
- *article network*: exactly the chains that exist (if the API answers in
  full), never a chain that never existed (whatever it does), and none lost
  while they are grouped; the status says what the lists hold;
- *regions*: seeds stay; visited means expanded; a region reaches as far as its
  calls; only articles that came late are far;
- *API client*: one title's answer is complete whatever the batches, and has
  nothing of another title;
- *link build*: a run whose aggregations succeed leaves exactly the links of its
  dump; failures only lose links, unless a `drop()` and the aggregation behind it
  both fail; `in_links` and `out_links` are converse;
- *warehouse*: a reader gets an error or an exact answer, never one from half a
  table, and clean runs repair whatever failed ones left;
- *geotags*: older data never replace newer ones, and runs without a fault
  catch up;
- *topic sample*: a search sends the titles of whole topics.

Parts of the program are missing from the repository: `special_nodes`, four
finder classes, `filter_nodes_by_blacklist`, the template `map.html`. They are
modelled from how the code uses them and marked external in `PROJECT.json`:
finders answer under the title Wikipedia resolves a request to (as
`BaseRequester._parse_response` does), and the blacklist filter spares seeds,
as the distance filter does and `find_all_paths` needs. Two more facts that keep
the committed program from answering are static, and the models of a query assume
them repaired: `main.py:9` has the import of `article_network` commented out, and
`region_subgraph.py:40` annotates with `List`, which it does not import (a `NameError` when
the module is loaded, in versions of Python that evaluate annotations then).

## 2. Plan

| Order | Module | Content | State |
|---|---|---|---|
| 1 | `SessionHandlers` | the handlers as functions of a session | done |
| 2 | `SearchPage` | page, tabs, cookie jar, network; extends 1 | done |
| 3 | `LaggedSearch` | what a user can count on; abstract spec of 2 | done |
| 4 | `SearchPageProofs` | invariants of 2 for any constants; that 2 implements 3; in a last part, those of 16, the form of that page | done |
| 5 | `RegionSubGraph` | operators on regions | done |
| 6 | `ArticleNetwork` | one query over two regions; extends 5 | done |
| 7 | `AnswerLists` | the nested lists of a finished query, as recursive functions, which can be proved about; extends 6 | done |
| 8 | `RegionSubGraphProofs`, `ArticleNetworkProofs` | lemmas about the operators of 5; `SeedsStay`, `PathsSound`, the lists of 7 for any Wikipedia; `PathsExact` for one that answers in full | done |
| 9 | `Region`, `RegionProofs` | one region under any sequence of calls (stale visited sets and distances, a half-done `dilate`, how far it reaches); extends 5 | done |
| 10 | `WikiRequester`, `WikiRequesterProofs` | the continuation protocol and the shared `params` | done |
| 11 | `ApiRound` | what a round of API calls promises; abstract spec of 10, which implements it (proved), and the reason for the rounds of 6 | done |
| 12 | `PageLinks`, `LinkTables`, `LinkTablesProofs` | the mongo script with steps that fail, runs that end anywhere, dumps that change; what its table is to the warehouse | done |
| 13 | `PlaceQueries` | the SQL of cells, bridges, mutual links and neighbours as operators; extends `PageLinks` | done |
| 14 | `Warehouse`, `WarehouseProofs` | loads and table replacement next to readers; extends 13, its input is what 12 shows | done |
| 15 | `GeotagExport`, `GeotagExportProofs` | dump, database, files and cloud object through which geotags reach their table | done |
| 16 | `TopicSample` | the topic sampler and the form it fills | done, proved in 4 |

Every invariant that a run checks is proved for any constants, and so are the
refinements and action properties; liveness is not (section 10).

## 3. The search page

`SessionHandlers` gives each handler as the set of responses it may return for
the session a request carried. Data are named by the search they were given for
(`latlon = j`: the position reported for the j-th search), so that a property
can say how old the data of an answer are. The handlers' bodies become: clear
deletes the cookie, setters change one key of their copy, `run_query` reads
only and fails if a key is missing, if `article_network` is not bound
(`ArticleNetworkImported`), or if the API raises.

`SearchPage` composes them with the page in every tab of a browser:

| Action | Code |
|---|---|
| `Open(t)` | (re)loading the page; globals start anew |
| `Click(t)` | the click handler: status, clearSession, setTopics, runQuery, and the prompt |
| `GeolocationFix(i)`, `GeolocationRefused(i)` | the success callback of `getCurrentPosition`; no callback |
| `SelectGrouping(t, g)` | the menu |
| `StartRequest(t)` | a queued request leaves with the cookie of that moment |
| `Serve(q)`, `Lose(q)` | the handler runs; the exchange fails |
| `Deliver(r)` | the browser stores the response's cookie and runs the callback (`QueryAnswered`, `QueryFailed`, `SetterFailed`, `NothingToShow`) |
| `QuitBrowser` | the session cookie is gone |

Modelling decisions. Browsers start requests of a page in the order in which they
were issued (`outbox` is a queue), may delay them, and attach the cookie as
they start; responses come in any order. A lost request and a lost response look
the same to the page, and a response that is lost sets no cookie. Handlers are
atomic because nothing they touch is shared. The text of the page is abstracted
to what it shows, of which answer, by which grouping.

| Run | Bounds | Shows |
|---|---|---|
| `page_safety` | 1 tab, 2 searches | `TypeOK`, `DisplayMatchesState`, `QueriesLag`, `FirstSearchUnanswered`, `AnswersAreComplete`, and the refinement `ImplementsLaggedSearch` |
| `page_live` | 2 tabs, 1 search, 2 groupings | `DisplayMatchesState` with the menu, `SearchesSettle` under `FairSpec` |
| `page_around` (violated) | 1 tab, 2 searches | "around you" (places.html:23) is not kept |
| `page_index` (violated) | committed templates | the index page is a server error |

The passing runs assume the repairs that the program's wiring calls for:
`map.html` exists and the import of `article_network`, commented out in
`main.py:9`, is there (`Wired`, `ArticleNetworkImported = TRUE`); without them no
page and no answer is ever seen.
Two searches are enough for an answer to use data of an earlier search and for
answers to overtake each other, the two ways in which a search can disturb
another. That another tab replaces the cookie in between is covered, for any number of tabs,
by the theorems `QueriesAlwaysLag` and `PageIsLagged`. `MaxSearches`
bounds clicks; every other variable is bounded by it. `page_safety` is the
longest of all runs, about two minutes.

Fairness. `StartRequest`, the end of an exchange (`Serve` or `Lose`) and
`Deliver` are weakly fair: the browser sends what it queued, the platform ends
every request with a response or an error, and callbacks run. Clicks, the
position prompt, reloads and the menu are not fair. `SearchesSettle` holds although the prompt may
stay unanswered, because `runQuery` does not wait for it: the same eager call
that makes answers lag. `page_live` has one search: with two it holds as well,
and takes five minutes.

`LaggedSearch` is the promise that is left: each search is answered at most once
or fails, and an answer uses, of its own tab, a position of an *earlier* search
and topics no later than its own.

### Proofs (`SearchPageProofs`)

For any numbers of tabs, searches and groupings, from the named assumptions on
the constants of 1 and 2 only: `TypeCorrect`, `QueriesAlwaysLag`, `DisplayAlwaysMatches`,
`AnswersAlwaysComplete`, `FirstSearchNeverAnswered`, and `PageIsLagged`: the
specification implies `LaggedSearch`.

`QueriesLag` is not inductive: it speaks of queries that left, and what they take
along is in the cookie, which any response may replace. `Inv` adds what is *at
large* (in the cookie, in messages, on its way to a setter) and two orders:
`QueuesOrdered` (ahead of a query in its queue are only positions of earlier
searches) and `WaitingQueriesLag` (the same of what is at large while the
query is queued). A click appends a query with a number above everything at
large; a position is appended behind every query that waits; starting a setter
moves it from the first order to the second. The remaining parts say that
everything belongs to a search that was started. The answers on screen follow
in a second invariant, `ShowInv`, relative to `Inv`.

The refinement maps "open" to "its query is queued, at the server or coming
back". Delivering an answer must close its search, and nothing may open it again,
which needs one more invariant, `OnePlace`: a search has its query in one of these places, and
there once. Each action has a lemma that says how it moves queries (`ClickMoves` to
`PagesGo`); `LaggedSearch`'s step follows from the move and `Inv`. The theorems on
the form are in section 9.

## 4. The query

`RegionSubGraph` has the operators on a region (graph, seeds, visited sets, distances);
`ArticleNetwork` runs one `run_query` over two regions. One round of API calls is
one step. Wikipedia may be edited (`edit`, at most `MaxEdits`) and a
call may raise (`raise`). With `Lossy` a round yields any part of the
links there have been since the query began, for a round is many requests (section 5): edits fall
between them, and an error body without `query` is read as an empty last batch.
Without it Wikipedia stands still and answers in full. `wiki.title`
maps a title to the one Wikipedia answers under (normalisation, redirects).
`TrivialPaths` is the version of networkx: from 3.2 on a place that is a topic
is a path of one article. Lists that Python builds from sets are sets here.
`AnswerLists` adds the nested lists and how one reads them; a dictionary of lists and
the list of its items are one tree there, written by one recursive function.

| Run | Bounds | Shows |
|---|---|---|
| `net_exact` | 4 articles, every choice of 8 links, aliases, 0 to 2 coordinates of the bridge, a blacklisted article that is nearby or not, full answers | `TypeOK`, `SeedsStay`, `PathsExact`, `GroupingsAgree`, `StatusTellsLists` |
| `net_sound` | 4 articles, 4 links, every truncation of every answer, 1 edit, 1 blacklisted article | `SeedsStay`, `PathsSound`, `GroupingsAgree` |

`PathsExact` compares the found chains with their definition over Wikipedia's links.
`Reached` says which links of a start count: those of the region nearby, which
drops what is far or blacklisted, and those of the topics' region, which keeps what is far
but drops a blacklisted start with its links. An earlier statement
overlooked such a start; the attempt to prove it brought that up, and `net_exact`
has a blacklisted place since. `GroupingsAgree` rests on `inter_nodes`
excluding seeds: were a chain to run on past a seed, the shorter one would
be absorbed as its prefix. Chains have at most three articles, so four
articles hold two chains that share a bridge, a start or an end, and a seed that
could be a bridge. Deadlock is not checked: a query ends. That it does end is
not claimed: requests have no timeout.

### Proofs (`ArticleNetworkProofs`)

For any set of articles, any Wikipedia whose titles resolve in one step, any
topics, any number of edits, with full or truncated answers: `NetworkTyped`,
`SeedsAlwaysStay`, `PathsAlwaysSound`, `GroupingsAlwaysAgree`,
`StatusAlwaysTells`; and if answers are full and there is no edit
(`~Lossy`, `MaxEdits = 0`), `PathsAlwaysExact`.

`PathsSound` speaks of the end, where chains appear all at once. What makes them
sound is spread over the steps before, and `Inv` says it: every link in a graph
was on Wikipedia during the query (`EdgesEver`), seeds come from where they
should (`SeedsKnown`), and a region that has passed its filters has no
blacklisted article but seeds (`NearbyFiltered`, `TopicsFiltered`: the filters
must run after the last `dilate` of their region). The operators on regions
have a lemma each: what `dilate` and the filters add, take and keep. That a
distance is found as the least of several needs that the naturals are well
ordered, cited from the library.

`PathsExact` needs to know each graph and not only a bound of it. The invariant
`Still` gives it for every step: which rounds are in (`NearbyShape`,
`TopicsShape`), and after the filters which links are kept (`NearbyDone`,
`TopicsDone`). That the nearest distance exceeds `MaxDist` if and only if the
article is `Far` is a lemma of its own (`NearestFar`); that links next to a
seed are those `Reached` says (`AdjacentReached`, `BridgeAdjacent`) is the
rest.

For the lists, `TreeHolds` says of any set of lists of up to three articles
that one reads off their tree exactly those no other list runs on from.
TLAPS does not take a recursive function on trust: that there is one is shown by unfolding it
as deep as its lists are long, and the lemma goes up the same levels. Chains
start and end at seeds and have none in between (`ChainsEnd`, `PathsSound`), so
that a longer chain never runs on from a shorter one of two articles, in either direction.

### Regions on their own

`RegionSubGraph` is a class that may be called in other orders than `run_query`'s.
`Region` takes one through any sequence of its methods:

| Action | Code |
|---|---|
| `dilate(inbound, outbound)` | the call: which nodes both halves visit is settled (lines 46-59) |
| `outbound_half`, `inbound_half` | links come in and what was visited is marked |
| `raise` | `get_payload` raises in a half; the caller keeps the region |
| `filter_by_distance`, `filter_by_blacklist` | the filters |

| Run | Bounds | Shows |
|---|---|---|
| `region_calls` | 4 articles, every choice of 6 links, a redirect or none, one far article, 3 dilations, filters at will | `TypeOK`, `VisitedExpanded`, `RegionIsBall`, `FarOnlyIfLate` |

Three dilations are what it takes for an article to be visited, removed and brought
back with its mark. `VisitedExpanded` says what a mark in `visited_nodes_*` is worth after
filters and exceptions: all links are there but those to or from something that was
filtered. `FarOnlyIfLate` is what is left of "filtering out nodes by
distance" (the class's docstring): `filter_nodes_by_distance` looks only at
nodes whose distance it did not know, so a far article that it removed and a
later `dilate` brought back stays for good. `run_query` filters after its last
`dilate` and does not meet this.

Proved (`RegionProofs`) for any articles, any Wikipedia and any sequence of
calls: `RegionTyped`, `MarksAlwaysTrue`, `OnlyLateAreFar`, `RegionAlwaysBall`. `FarOnlyIfLate`
speaks of the moment after a filter; its invariant says the same of every
moment, of the nodes whose distance is known (`FarKnown`), and that a filter leaves
no distance unknown (`AllKnown`). `VisitedExpanded` is inductive as it is, for
a half marks what it visits in the step that adds the links. `RegionIsBall`
compares a region with `Ball`, a recursive function: it reaches no further than
the dilations that were started and, if nothing was filtered, as far as those
that were completed. That there is such a function is proved from its
beginnings, which agree with each other. The invariant adds what a half-done
`dilate` visits (`VisitsBall`).

## 5. The API client

`WikiRequester` is `get_payload`: a loop over titles around the continuation
loop of `_get_api_responses`, whose requests are made from one dictionary.

| Action | Code |
|---|---|
| `next_title`, `return_results` | the head of the loop: new title, continue string popped |
| `get` | `session.get`, the first or a continuing one |
| `answer(next)` | its response, parsed; `next` is the continue string, or none in the last batch |
| `error_body` | a body without `query` and `continue` |
| `raise` | an exception of `requests` or `json()` |
| `edit(e)` | Wikipedia changes |

The API is external: it goes on from the entry a continue string names (or the
one after, if that is gone), answers at most `Limit` entries, and at least one if
it says that there are more. Entries are ordered by `Keys`; order within a list
and repetitions are left out, as the graph ignores both. `complete` and `cut`
record how titles ended.

| Run | Bounds | Shows |
|---|---|---|
| `wiki_batches` | 2 articles and a redirect, 3 keys, batches of 1 or 2, 1 edit, every payload and content | `TypeOK`, `TitlesComplete`, `ResultsReal`, `PayloadEnds` under `FairSpec`, and the refinement `ImplementsApiRound` |

Three keys are up to three batches per title, so that a continue string is
replaced once and left behind once. Fairness: the loop runs, and the API ends every
request somehow. The code has no timeout to justify the latter for one that hangs;
`PayloadEnds` says what is left, that the loop itself does not go on forever.

`ApiRound` is what a caller may count on, in one step instead of a loop: one
reply, of entries that were there at some time since the round began and all
that were there all the time, but for the titles an error body cut short; or an
exception and no reply at all. `wiki_batches` shows that the loop implements it.
For `ArticleNetwork` this means: without errors and edits a round yields the whole
answer, otherwise a part of the links there ever were, which is how `Received`
and `answering` have it. `RepliesAreReceived` proves these two cases of the loop itself.

Proved (`WikiRequesterProofs`) for any articles, redirects, limits and edits:
`RequesterTyped`, `TitlesAlwaysComplete`, `ResultsAlwaysReal`,
`RepliesAreReceived`, and `RequesterIsRound`: the loop implements `ApiRound`. The invariant adds that
entries in `always` are there now (`AlwaysNowEver`), and `Caught`: while a title
is going on, all that precedes its continue string has arrived. That a new title starts without
one is what makes `Caught` hold at its start. For the refinement, the loop's steps
stutter but for an error body (the round loses a title), an edit, and the return, whose
result is what `TitlesComplete` and `ResultsReal` say of it. `RepliesAreReceived` needs
one invariant more, `Unedited`: without an edit, what was there ever and what was there
always are what there is now.

## 6. The link database

`LinkTables` is `1_parse-script.js`, which reads a dump, and
`2_mongo-processing.js`, a chain of collections each dropped and then made by
one aggregation. The script is piped into `mongosh`, which goes on after an error.

| Action | Code |
|---|---|
| `parse(d)` | a dump is parsed into `pages`, before or after a run |
| `drop`, `aggregate` | the statements of `Script` in their order; `Rows(c)` is the pipeline of collection `c` |
| `drop_fails`, `aggregate_fails` | a statement fails and changes nothing (`$out` replaces a collection only when its aggregation is complete), the next one is read |
| `rerun` | the run ends, here or at its end, and is started from the top |

| Run | Bounds | Shows |
|---|---|---|
| `link_build` | 3 pages, 3 dumps, titles that differ only in case, redirects, sections that do not count, one failed `drop()` | `TypeOK`, `RerunExact`, `LinksConverse`, `MissingNotWrong` |

Runs, failed aggregations and dumps are not bounded: the state is finite without. Three pages are enough for two that
share a capitalised title and one that links them; three dumps change a
link, a redirect, a page and its id. `MaxFailedDrops` bounds the `drop()` that fail, over all
runs: each leaves another mixture of dumps in another collection, and the states
multiply. One, in any place of any run, is all it takes to keep a collection of
an earlier dump and build the others on it; the theorems hold for any number.

`RerunExact` compares `page_links` with a reference read off the documents: what earlier
runs on other dumps left behind must not get in. It needs the aggregations of the
run and none of its `drop()`, as `$out` replaces what was not dropped. The `drop()` are for the
runs in which an aggregation fails: the collection is then empty, and what is built on it
lacks links. If both fail for one collection (`Kept`), say when the database is away
for a moment, nothing in the script notices that the collection is an earlier run's:
`out_links` of an earlier dump are joined with the titles of this one, or links of one dump are
matched with titles of another and make a link that no dump has. `MissingNotWrong` says that it takes
this, both statements of one collection in one run, for a wrong link to get in.

`LinksConverse` has two parts, with the names `PageLinks` gives them: at any moment, whatever failed, a page has
at most one row (`OneRow`), which is the assumption `LinkExportsAssumption` of the warehouse; and the
table of a finished run is `Converse` unless one of the two aggregations that make `in_links`
and `out_links` failed, or the table itself is kept. A fair run is not
assumed, as somebody starts it by hand. Loading by
`dumpster-dive` is external; the columns that hold text and types are copied unread and left out.

Proved (`LinkTablesProofs`) for any dumps, failures and reruns: `TablesTyped`,
`RerunAlwaysExact`, `LinksAlwaysConverse`, `MissingNeverWrong`. The invariant
follows the script. While no collection is kept, one whose `drop()` is behind and, if that
failed, whose aggregation is too (`Renewed`), holds nothing of an earlier dump
(`Present`), because it is empty or was made of collections of which that
is true; and while no aggregation failed (`AllMade`), what a run has made is whole (`Whole`). That rows are
unique also in tables that earlier runs left, on earlier dumps, is an invariant of its own
(`RowsOnce`). The rest are
lemmas that say of each aggregation, row by row, what it yields.

## 7. The warehouse

`PlaceQueries` has each SQL statement as an operator on tables, with its joins, its
grouping and its threshold; `Warehouse` has the scripts that make the tables.

| Action | Code |
|---|---|
| `upload` | other files are in the bucket |
| `load_links`, `rename_id` | `3_mongo-to-bq.sh`: `bq load --replace`, then `_id` becomes `page_id` |
| `load_geotags`, `add_geog`, `fill_geog` | `5_mysql-to-bq.sh` from its `bq load` on |
| `drop_s2cells`, `create_s2cells` | `create_s2_table` (tourguide) |
| `drop_undirected`, `create_undirected` | `CREATE_UNDIRECTED_TABLE` (atlas) |
| `fail(s)`, `break_off(s)` | a statement fails (shell scripts go on, SQL scripts end); a run ends early |

`query_nearby`, `query_bridges` and `query_mutual` are what readers get in a state: `ERROR` while a
column or a table is not there.

| Run | Bounds | Shows |
|---|---|---|
| `tables` | 4 pages, 2 cells, 76 link tables, three of them left by a failed link build, and 4 tag tables; on 2 of each, failures, broken off runs and new exports | `TypeOK`, `NearbyExact`, `CleanRunRepairs`, `BridgesAreNeighbors`, `MutualBothWays` |

Every statement is atomic, which is what BigQuery promises; a script is not, and the four run next
to each other. The link tables are all choices of six links, and pages that are
lists, disambiguations, persons or untyped; a cell with two places and one with three or
a single one put the threshold of "more than half" on both sides of its
boundary. `Unstable` keeps failures to four exports, one of which has lost a
page: the properties do not depend on which exports those are. Rows that
`--max_bad_records` drops are exports that lack rows. The three tables of a failed
link build are an empty one, one without `in_links` and one with `out_links` of another dump; `BridgesAreNeighbors`, and what
`MutualBothWays` says of `in_links`, are about converse tables only: of others
they are false. No fairness: scripts are
run by hand. Cells and points are one thing, as a point lies in one cell.

What the model brought up, besides what its properties say: `create_s2_table` run between
`ADD COLUMN` and `UPDATE` succeeds and leaves a table whose places are all in the cell
NULL, so `query_nearby` finds nothing and reports nothing. `NearbyExact` allows it by its
definition, as the points were NULL when the table was made, and does not catch it;
`CleanRunRepairs` says that scripts run whole, one after the other, never leave such a
table. And `query_neighbors` of the atlas passes a
parameter `nodes` to a query that reads `@nodes1`, so each call is an error.

Proved (`WarehouseProofs`) for any pages, cells, exports, failures and
interleavings of the four scripts: `WarehouseTyped`, `NearbyAlwaysExact`,
`CleanRunsRepair`, `BridgesAlwaysNeighbors`, `MutualAlwaysBothWays`, from the
named assumptions of the modules (page ids are finitely many and differ from NULL,
exports have one row per page, as 12 shows for whatever it leaves behind). The
lemmas on the SQL hold for any such tables: that counting a place's links from
the grouped rows comes to the reference's "more than half" (`LinkingCount`), and that
`query_nearby` on a table made of any links and points yields the reference
(`QueryNearbyIs`). The invariant says that a derived table was made of a link table
and points that were there in one moment (`Made`); that of the tables that clean
runs left (`fresh`) none is being changed and none has a source that is not fresh
(`FreshSources`); and that these hold what the bucket holds, or come from it
(`LinksAreCloud`, `GeotagsAreCloud`, `MadeOfCloud`). A run that is under way
without a failure has done what its statements say, which is what makes its
last one leave a fresh table.

## 8. The geotags

`GeotagExport` follows coordinates from `0_download-script.sh` to the table
through five places with fixed names. Each command is an action, named as in the
code; `fault` lets the present command fail and `break_off` ends the run.
Data are named by the run that downloaded them.

| Run | Bounds | Shows |
|---|---|---|
| `geo_runs` | 6 runs, any command of any run failing | `TypeOK`, `CatchesUp`, `NeverOlder` |

`INTO OUTFILE` and `gzip` do not overwrite, and the `rm -f` that is meant to
make room names a `.json` file while the export writes `.jsonl`. So a run after
a failed one may load old data, and report no error: `CatchesUp` says that it takes up to three runs without a
fault to get over this (with two it is violated), `NeverOlder` that the
table at least does not go back. Six runs are two that fail in different places
and three that catch up, and one more. The files' names contain a date
(`DUMP_DATE`) that is edited by hand in each script; runs with another date would find no
file of earlier ones, so the model is of the runs between two such edits. `6_cleanup.sh` means to drop the
database with `mysql -c`, which is the option for comments: nothing is dropped
(`cleanup`), and the next run's `CREATE DATABASE` is an error that the shell passes over.
MySQL is taken to expand `~` to the home of the user who runs the scripts.

Proved (`GeotagExportProofs`) for any number of runs: `ExportTyped`,
`NeverGoesBack`, `AlwaysCatchesUp`. `NewestFirst` says that each place that is
not empty is as new as all places behind it. That says nothing across an empty place, so
it compares every pair and not only neighbours. `CatchInv` follows a run
without a fault: the first uses up a compressed file that was left behind, the
second an exported one, and a run that found neither brings what it
downloaded from place to place.

## 9. The topic sample

`TopicSample` is `formatSampleOfTopics` and `readTopicForm` on texts as
sequences of characters, for a user who does not edit the form. Topics may have
several words; what is sent has underscores between them, as titles in URLs have (`Title`).

| Action | Code |
|---|---|
| `reload` | the page is loaded: topics are shuffled, and a sample fills the form |
| `click` | a search reads the form (`readTopicForm`) |

| Run | Bounds | Shows |
|---|---|---|
| `topic_sample` | every order of 4 topics of different lengths, one of two words, limits that cut before, in and after a separator | `TopicsWhole`, `LosesFew` |

The pieces that `readTopicForm` splits the form into are a set there, as `set_topics` and
`add_topics` make one of them. The sampler loses a last topic that fits exactly, and
never uses the first of the shuffle (`slice(1, …)`); both are in the model and harmless.

Proved (`SearchPageProofs`) for any topics of at least two characters, of any words, and
any limits on topics and characters: `TopicsAreWhole`, `FewAreLost`. The text of the first k topics is a
recursive function of k (`join`). That there is such a function, and what it yields for every k, is
shown without induction over data: the naturals are well ordered (cited from the
library's `WellFoundedInduction`), so a set of them that has 0 and every
successor has them all (`NaturalsReached`), and this set may be "the k up to which
partial functions exist" or "the k for which the lemma holds". `CharAt` and `Located` say which
character is where; so a text that is cut loses what is behind the last separator
before the limit, which is behind a whole topic (`CutAtTopic`, `SampleIs`), and the
pieces between semicolons are the topics, each trimmed of the space in front of it and of no other (`PieceIs`, `ReadIs`).

## 10. Only model-checked, and not modelled

Checked by TLC only: liveness (`SearchesSettle`, `PayloadEnds`), which TLAPS
does not reach. Neither checked nor proved is that the two regions of `ArticleNetwork` go
through steps that `Region` allows; both modules use the operators of `RegionSubGraph`, and
each has its own properties.

Not modelled: the atlas map (no state); the download of the articles, making
directories and dropping the mongo database (I/O; `LinkTables` starts from any
dump anyway); clustering, which changes no content; splitting and zipping the
links, commented out in the repository; notebooks and the parser's test; CSS and HTML wording. Of
the repository's Python, JavaScript and shell lines nearly all are vendored
libraries under `atlas_flaskapp/libs`; the program itself has about 1,900, with
the notebooks and the two copies of its scripts.
