----------------------------- MODULE AdminLists -----------------------------
(***************************************************************************)
(* The pages of the admin console that show what the server holds: the     *)
(* short links, the visit logs, the status of the cache and the dashboard. *)
(* The page that is watched is chosen at the start: leaving it ends its    *)
(* story, coming back starts another.                                      *)
(*                                                                         *)
(* A page fetches when it is mounted, when its filter or page number       *)
(* changes, when Retry or Refresh is clicked, and after a deletion or a    *)
(* clearing.  No fetch is ever cancelled and no answer is compared with    *)
(* what the page shows by then: requests are served and answered in any    *)
(* order, or fail before or after the server has acted.  A handler that    *)
(* waits for its answer goes on with the rows and the filter of the moment *)
(* it was started.                                                         *)
(*                                                                         *)
(* An item is an id with a tag: a link that is on or off, a visit that     *)
(* succeeded or failed, an entry of the cache, a section of the dashboard  *)
(* and what it counts.  The filter of a page, several fields in the code,  *)
(* is one tag or "all"; higher ids are newer.                              *)
(***************************************************************************)
EXTENDS Integers, Sequences, FiniteSets, SequencesExt

CONSTANTS Ids,            \* the items the server may hold: a set of numbers
          Filters,        \* the filters that are tried: "all" and tags
          LinksPageSize,  \* how many links a page shows: 10 in the code
          LogsPageSize,   \* how many visits a page shows: 15 in the code
          MaxCalls        \* bound: requests in flight

ASSUME ListsAssumption ==
  /\ IsFiniteSet(Ids) /\ Ids \subseteq Nat
  /\ "all" \in Filters /\ Filters \subseteq {"all", "on", "off"}
  /\ {LinksPageSize, LogsPageSize, MaxCalls} \subseteq Nat \ {0}

VARIABLES screen,      \* the page that is mounted
          store,       \* what the server holds of its kind
          query,       \* the filter and the page number of the screen
          rows,        \* the items it has
          total,       \* how many there are according to the last answer
          loading,
          failed,      \* loadError is set
          clearing,    \* the cache's Clear button is waiting
          calls,       \* the requests in flight, in the order they were made
          disordered,  \* history: since the newest fetch was made, an answer
                       \* older than the rows was applied to them
          outdated     \* history: the rows do not show all that the server holds

state == <<query, rows, total, loading, failed, clearing>>
history == <<disordered, outdated>>
vars == <<screen, store, state, calls, history>>

Screens == {"links", "logs", "cache", "dashboard"}
Tags == {"on", "off"}
AllItems == [tag |-> "all", page |-> 1]

\* What an item of a page's kind may be.  A section of the dashboard is always
\* there.
StoredTags(s) == CASE s = "cache" -> {"on", "gone"}
                   [] s = "dashboard" -> Tags
                   [] OTHER -> Tags \cup {"gone"}

PageSize == IF screen = "links" THEN LinksPageSize ELSE LogsPageSize

\* The server's answer to a list: the newest first, a page at a time.
Matching(q) == {i \in Ids : store[i] # "gone" /\ q.tag \in {"all", store[i]}}

LinksListed(q) ==
  LET rank(i) == Cardinality({j \in Matching(q) : j >= i})
      found == {i \in Matching(q) : (rank(i) + PageSize - 1) \div PageSize = q.page}
  IN  {[id |-> i, tag |-> store[i]] : i \in found}

\* The status of the cache counts its entries and lists none.  The requests of
\* the dashboard, one for each section, are taken to be served at one moment.
Listed(q) == CASE screen = "cache" -> {}
               [] screen = "dashboard" -> {[id |-> i, tag |-> store[i]] : i \in Ids}
               [] OTHER -> LinksListed(q)

TotalPages == (total + PageSize - 1) \div PageSize

-----------------------------------------------------------------------------
\* A fetch asks for the page its render saw.
Fetch(q) == [op |-> "fetch", query |-> q, phase |-> "sent",
             rows |-> {}, total |-> 0, fresh |-> FALSE]

IsFetch(c) == c.op = "fetch"
Newest(i) == IsFetch(calls[i]) /\ \A j \in i + 1..Len(calls) : ~IsFetch(calls[j])
HasRoom == Len(calls) < MaxCalls

\* fetchLinks, fetchLogs and fetchCacheStatus up to their await.  Whatever was
\* wrong with the rows before, this fetch replaces them or ends in an error.
StartFetch(q, others) ==
  /\ loading' = TRUE /\ failed' = FALSE
  /\ calls' = Append(others, Fetch(q))
  /\ disordered' = FALSE /\ outdated' = FALSE

Init ==
  /\ screen \in Screens /\ store \in [Ids -> StoredTags(screen)]
  /\ query = AllItems /\ rows = {} /\ total = 0
  /\ loading = TRUE /\ failed = FALSE /\ clearing = FALSE
  /\ calls = <<Fetch(AllItems)>>
  /\ disordered = FALSE /\ outdated = FALSE

\* handleReconnect changes the key of the page: it is mounted anew, with nothing
\* to show, and no longer hears of the requests made before.
Remount ==
  /\ query' = AllItems /\ rows' = {} /\ total' = 0 /\ clearing' = FALSE
  /\ StartFetch(AllItems, <<>>)
  /\ UNCHANGED <<screen, store>>

\* The effect of a page runs when the filter or the page number has changed.
Requery(q) ==
  /\ q # query /\ HasRoom
  /\ query' = q
  /\ StartFetch(q, calls)
  /\ UNCHANGED <<screen, store, rows, total, clearing>>

-----------------------------------------------------------------------------
(* Seeded faults: bugs this code might have had, one per property.  No     *)
(* definition of the model uses them.                                      *)

LinksTurnBelow(p) ==
  /\ screen = "links" /\ TotalPages > 1
  /\ p \in 1..TotalPages \/ p = query.page - 1
  /\ Requery([query EXCEPT !.page = p])
ClearedWaiting(i) ==
  /\ calls[i].op = "clear"
  /\ StartFetch(query, RemoveAt(calls, i))
  /\ UNCHANGED <<rows, total, clearing>>
DeletedLocally(i) ==
  /\ calls[i].op = "delete"
  /\ rows' = {r \in rows : r.id # calls[i].row.id}
  /\ calls' = RemoveAt(calls, i)
  /\ UNCHANGED <<total, loading, failed, clearing, history>>
FetchFailsLoading(i) ==
  /\ IsFetch(calls[i])
  /\ failed' = TRUE
  /\ UNCHANGED <<loading, clearing, outdated>>

-----------------------------------------------------------------------------
\* Every filter goes back to the first page.
LinksFilter(t) == screen = "links" /\ t # query.tag /\ Requery([tag |-> t, page |-> 1])
LogsFilter(t) == screen = "logs" /\ t # query.tag /\ Requery([tag |-> t, page |-> 1])
LogsReset == screen = "logs" /\ Requery(AllItems)

\* The buttons under the table, shown when there is more than one page.
LinksTurn(p) ==
  /\ screen = "links" /\ TotalPages > 1
  /\ p \in 1..TotalPages \/ (p = query.page - 1 /\ p >= 1)
  /\ Requery([query EXCEPT !.page = p])

LogsTurn(p) ==
  /\ screen = "logs" /\ TotalPages > 1
  /\ p \in 1..TotalPages \/ (p = query.page - 1 /\ p >= 1)
  /\ Requery([query EXCEPT !.page = p])

\* The error row, or the error card, with its button.
ErrorShown == failed /\ ~loading

Refetch ==
  /\ HasRoom
  /\ StartFetch(query, calls)
  /\ UNCHANGED <<screen, store, query, rows, total, clearing>>

Retry == ErrorShown /\ Refetch

\* The cache's page without its data is only its error or its loading state.
CacheShown == screen = "cache" /\ ~loading /\ ~failed

RefreshMetrics == CacheShown /\ Refetch

\* The dashboard's fetch depends on the language: another one fetches again.
SwitchLanguage == screen = "dashboard" /\ Refetch

\* The rows and their buttons are there when nothing is loading or failed.
RowsShown == IF loading \/ failed THEN {} ELSE rows

Change(op, row, keep) == [op |-> op, row |-> row, query |-> query, kept |-> keep,
                          phase |-> "sent", fresh |-> FALSE]

Send(c) ==
  /\ HasRoom
  /\ calls' = Append(calls, c)
  /\ UNCHANGED <<screen, store, query, rows, total, loading, failed, history>>

Flip(t) == IF t = "on" THEN "off" ELSE "on"

\* The switch of a row: the handler holds the rows of its render.
ToggleEnable(r) ==
  /\ screen = "links" /\ r \in RowsShown
  /\ Send(Change("toggle", [r EXCEPT !.tag = Flip(r.tag)], rows))
  /\ UNCHANGED clearing

Delete(r) ==
  /\ screen = "links" /\ r \in RowsShown
  /\ Send(Change("delete", [r EXCEPT !.tag = "gone"], {}))
  /\ UNCHANGED clearing

ClearAll ==
  /\ CacheShown /\ ~clearing /\ total # 0
  /\ Send(Change("clear", [id |-> 0, tag |-> "gone"], {}))
  /\ clearing' = TRUE

-----------------------------------------------------------------------------
\* The server handles a request.  A change makes the lists that were read before
\* it out of date, and the answers about the same item.
Outdate(cs, id) ==
  [i \in DOMAIN cs |->
     IF IsFetch(cs[i]) \/ cs[i].row.id = id THEN [cs[i] EXCEPT !.fresh = FALSE] ELSE cs[i]]

ServeFetch(i) ==
  /\ IsFetch(calls[i])
  /\ LET q == calls[i].query IN
       calls' = [calls EXCEPT ![i] =
         [@ EXCEPT !.phase = "ok", !.rows = Listed(q),
                   !.total = Cardinality(Matching(q)), !.fresh = TRUE]]
  /\ UNCHANGED store

\* A link that is gone can be neither switched nor deleted.
Refuse(i) ==
  /\ calls[i].op \in {"toggle", "delete"} /\ store[calls[i].row.id] = "gone"
  /\ calls' = [calls EXCEPT ![i].phase = "refused"]
  /\ UNCHANGED store

ServeChange(i) ==
  /\ LET c == calls[i] IN
       /\ ~IsFetch(c)
       /\ c.op \in {"toggle", "delete"} => store[c.row.id] # "gone"
       /\ store' = IF c.op = "clear" THEN [j \in Ids |-> "gone"]
                   ELSE [store EXCEPT ![c.row.id] = c.row.tag]
  /\ calls' = [Outdate(calls, calls[i].row.id) EXCEPT ![i].phase = "ok", ![i].fresh = TRUE]

Serve(i) ==
  /\ calls[i].phase = "sent"
  /\ ServeFetch(i) \/ Refuse(i) \/ ServeChange(i)
  /\ UNCHANGED <<screen, state, history>>

\* Another administrator, a visitor or the server's own workers.  A log entry
\* is written and pruned, never changed.
OtherChange(i, t) ==
  /\ store[i] # t /\ t \in StoredTags(screen)
  /\ screen = "logs" => "gone" \in {store[i], t}
  /\ store' = [store EXCEPT ![i] = t]
  /\ calls' = Outdate(calls, i) /\ outdated' = TRUE
  /\ UNCHANGED <<screen, state, disordered>>

-----------------------------------------------------------------------------
\* The page goes on with an answer.
Fetched(i) ==
  LET c == calls[i] IN
  /\ IsFetch(c) /\ screen # "dashboard"
  /\ rows' = c.rows /\ total' = c.total
  /\ loading' = FALSE
  /\ calls' = RemoveAt(calls, i)
  /\ outdated' = ~c.fresh
  /\ disordered' = ~(Newest(i) /\ c.query = query)
  /\ UNCHANGED <<failed, clearing>>

\* The sections that were answered; those that failed keep what they show.
DashboardFetched(i, answered) ==
  LET c == calls[i] IN
  /\ IsFetch(c) /\ screen = "dashboard"
  /\ rows' = {r \in c.rows : r.id \in answered} \cup {r \in rows : r.id \notin answered}
  /\ loading' = FALSE
  /\ calls' = RemoveAt(calls, i)
  /\ outdated' = (~c.fresh \/ answered # Ids)
  /\ disordered' = ~Newest(i)
  /\ UNCHANGED <<total, failed, clearing>>

Toggled(i) ==
  LET c == calls[i] IN
  /\ c.op = "toggle"
  /\ rows' = {IF r.id = c.row.id THEN c.row ELSE r : r \in c.kept}
  /\ calls' = RemoveAt(calls, i)
  /\ disordered' = (disordered \/ rows # c.kept)
  /\ outdated' = (outdated \/ ~c.fresh)
  /\ UNCHANGED <<total, loading, failed, clearing>>

\* The list is fetched again, with the filter and the page of the deletion.
Deleted(i) ==
  LET c == calls[i] IN
  /\ c.op = "delete"
  /\ StartFetch(c.query, RemoveAt(calls, i))
  /\ UNCHANGED <<rows, total, clearing>>

Cleared(i) ==
  /\ calls[i].op = "clear"
  /\ StartFetch(query, RemoveAt(calls, i))
  /\ clearing' = FALSE
  /\ UNCHANGED <<rows, total>>

Answered(i) ==
  /\ calls[i].phase = "ok"
  /\ \/ Fetched(i) \/ Toggled(i) \/ Deleted(i) \/ Cleared(i)
     \/ \E answered \in SUBSET Ids \ {{}} : DashboardFetched(i, answered)
  /\ UNCHANGED <<screen, store, query>>

\* An error, or no answer: on the dashboard, of every section.
FetchFails(i) ==
  /\ IsFetch(calls[i])
  /\ failed' = TRUE /\ loading' = FALSE
  /\ UNCHANGED <<clearing, outdated>>

\* A toast tells of it; the list is not fetched again.
ChangeFails(i) ==
  /\ ~IsFetch(calls[i])
  /\ clearing' = (clearing /\ calls[i].op # "clear")
  /\ outdated' = (outdated \/ calls[i].phase = "ok")
  /\ UNCHANGED <<loading, failed>>

Fails(i) ==
  /\ FetchFails(i) \/ ChangeFails(i)
  /\ calls' = RemoveAt(calls, i)
  /\ UNCHANGED <<screen, store, query, rows, total, disordered>>

Next ==
  \/ Remount
  \/ \E t \in Filters : LinksFilter(t) \/ LogsFilter(t)
  \/ LogsReset
  \/ \E p \in 0..Cardinality(Ids) : LinksTurn(p) \/ LogsTurn(p)
  \/ Retry \/ RefreshMetrics \/ SwitchLanguage
  \/ \E r \in rows : ToggleEnable(r) \/ Delete(r)
  \/ ClearAll
  \/ \E i \in 1..Len(calls) : Serve(i) \/ Answered(i) \/ Fails(i)
  \/ \E i \in Ids, t \in Tags \cup {"gone"} : OtherChange(i, t)

\* Every request is answered or fails some day.
Fairness ==
  WF_vars(\E i \in 1..Len(calls) : Answered(i) \/ Fails(i))

Spec == Init /\ [][Next]_vars /\ Fairness

-----------------------------------------------------------------------------
\* Every variable has the type of what it models, and no more requests are in
\* flight than the bound.
TypeOK ==
  /\ screen \in Screens /\ store \in [Ids -> StoredTags(screen)]
  /\ query.tag \in Filters /\ query.page \in Nat \ {0}
  /\ rows \subseteq [id : Ids, tag : Tags] /\ total \in 0..Cardinality(Ids)
  /\ {loading, failed, clearing, disordered, outdated} \subseteq BOOLEAN
  /\ Len(calls) =< MaxCalls
  /\ \A i \in 1..Len(calls) : calls[i].op \in {"fetch", "toggle", "delete", "clear"}

Quiet == calls = <<>>

\* A page that shows its loading state waits for a request that was really
\* sent, and so does a Clear button that is disabled: whatever answers come
\* late or fail, neither is left behind by all of them.
WaitingHasCall ==
  /\ loading => \E i \in 1..Len(calls) : IsFetch(calls[i])
  /\ clearing => \E i \in 1..Len(calls) : calls[i].op = "clear"

\* When all is answered and no older answer came after a newer one, the page
\* shows what the server holds for its filter and its page number, its own
\* toggles, deletions and clearings included, as long as nobody else changed it
\* and no change of its own failed after the server had made it.  Under a filter
\* a toggled row stays where it was.
ShownIsStored ==
  Quiet /\ ~failed /\ ~disordered /\ ~outdated =>
    /\ \A r \in rows : store[r.id] = r.tag
    /\ query.tag = "all" => rows = Listed(query)
    /\ query.tag = "all" /\ screen # "dashboard" => total = Cardinality(Matching(query))

\* Nobody watches the loading dots for good: whatever the filters that are
\* typed and the order of the answers, a page that stays comes to an end of it.
LoadingEnds == []<><<Remount>>_vars \/ []<>~loading
=============================================================================
