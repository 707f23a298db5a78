# ShareLink in TLA+

A verification project for ShareLink: a Go server (gin, GORM, SQLite) that
publishes short links, redirects or proxies their visitors, caches proxied
responses in memory and logs every visit, and a React console to administer it.
Paths below are relative to the repository; line numbers are those of the commit
the modules were written from, and `PROJECT.json` maps every definition to its
lines.

## The system

| Component | State it keeps | Operations | Talks to |
|---|---|---|---|
| RAM cache (`internal/cache`) | map, LRU list and byte count behind one mutex | Get, Put, Remove, ClearAll, ClearLinkCache, GetStatus | settings (read on every call) |
| Public access and reverse proxy (`internal/proxy`) | none of its own: one goroutine per request, a visit log under construction | ProxyHandler, runReverseProxy with its ModifyResponse and ErrorHandler | links table, policies, settings, cache, visit logs, upstream |
| Link administration (`internal/links`) | the `links` table | list, get, create, update, delete, enable, disable, generate slug | cache (clears it) |
| Visit logs (`internal/logs`) | a channel of 10000, the worker's batch, the `visit_logs` table | QueueLog, the batching worker, the cleanup worker | settings |
| Settings, policies, cache handlers, analytics (`internal/settings`) | `global_settings`, `ua_policies` | read and write settings, change password, policy CRUD and test, clear the cache, list logs, four analytics queries | every component reads the settings |
| User-Agent rules (`internal/ua`) | none | ValidateUA, MatchKeywords, GetGlobalUAPolicy | policies |
| Login (`internal/auth`) | failures per client address, behind a mutex | login, JWT middleware, me, logout | settings (password hash), client address |
| Database (`internal/db`) | SQLite | migration, FindGlobalSetting, first password | all |
| GeoIP, client address, SSRF check, configuration | a memo table; otherwise none | pure lookups and predicates | proxy, login |
| Server (`cmd/server`) | none | routes, static files | all |
| Console: session and routing (`App.tsx`, `api/client.ts`, `api/router.tsx`, `Login.tsx`) | token in localStorage, path, whether it is authenticated | login, logout, checkAuth, history, reload, reconnection | the admin API, other tabs |
| Console: lists (`Links.tsx`, `Logs.tsx`, `Cache.tsx`, `Dashboard.tsx`) | filter, page, rows, flags | fetches, filters, switches, deletions, clearings | the admin API |
| Console: forms (`LinkEdit.tsx`, `UAPolicies.tsx`, `Settings.tsx`) | the fields, what they were filled from, flags | load, type, save, test, delete | the admin API, routing |

Nothing orders requests: the server runs each in a goroutine, database
statements are atomic one by one, few of them are in transactions, and the cache
is locked per call. What is hard in this program is therefore

- **interleaving and atomicity**: a proxied request reads a link, waits for an
  upstream, and fills the cache when the link may have changed; administrators
  read a row and write it back whole;
- **partial failure**: the copy of a body breaks off, a write or a setting's read
  fails, a transaction loses its batch;
- **crashes**: what is in the log queue is lost;
- **timeouts and liveness**: silent upstreams, batches that never fill;
- **boundaries**: a limit that is lowered, a full queue, arithmetic on
  configured numbers;
- **ordering** in the console: no request is cancelled and no answer is compared
  with the state it finds, so that answers arrive out of order, late, or on
  another page; React commits a change after the handler that made it.

`PROJECT.json` lists these hazards one by one at their lines, with the
properties that would catch each.

What makes each component correct:

- cache: map, list and count agree; it grows only within the limit; the coldest
  entries go first; a hit is the entry last put, unexpired, uncleared;
- proxy and links: one log per visit; cached content is that of the current
  link; one link per path; a handler ends whatever the upstream does;
- visit logs: never twice, in order, not stuck in memory, cleaned up only past
  the retention;
- settings and policies: all or nothing updates, no link left with a policy that
  is gone;
- login: guesses in a window are bounded even when logins race, only time and a
  success forgive, a lockout ends;
- console: a session that ended leaves the screen and one that began shows; once
  all is answered the rows are what the server holds; a record is saved with its
  own values, and no late answer takes what was typed; whatever waits is released.

## Modules

### VolatileStore and RAMCache (with MCRAMCache)

`VolatileStore` is what the cache promises the proxy and nothing more: a store
that may forget anything at any time, but never answers with anything except the
entry last put under a key, unexpired and not cleared since. `RAMCache` is
`cache.go`: `items`, `evictList` and `currentBytes` are the three fields, each
locked method is one action, and the two things that happen outside the lock are
steps of their own: `Put`'s look at `global_cache_enabled` (`CheckEnabled`, then
`Put`), and the administrator's `UpdateSettings`. The operators on the record of
the three fields (`removeElement`, `EvictTo`, `PushFront`, ...) are the private
methods. The eviction loop is written as its result: the longest hot prefix of
the list that leaves room. `MaxBytes` keeps the width of the int64
multiplication, at a small width.

A key is a pair of link and query, so that `ClearLinkCache` removes the keys of
its link only. In the code that is the string prefix `prefix|slug|`.

### LinkProxy (with MCLinkProxy)

The core. State and code:

| Variable | In the code |
|---|---|
| `links`, `lastId` | the `links` table and its AUTOINCREMENT |
| `flag` | the setting `global_cache_enabled` |
| `cache` | the RAM cache, one entry per path, as `VolatileStore` allows (`Forget` is expiry and eviction) |
| `req` | per visitor: how far ProxyHandler or runReverseProxy is, the row it read, its log's status, how many logs it queued |
| `adm` | per admin request: how far its handler is and the row it read or built |

One action per database statement, locked cache call or wait:

    idle --Lookup--> check --Refuse/Redirect--> done
                       |--Proxy--> lookup --Hit--> done
                       |              |--Miss--> fetch
                       |--Proxy--> fetch --Respond--> stream | buffer
                                   buffer --Buffered--> put | stream
                                   put --PutCheck--> store --PutStore--> stream
                  fetch, buffer --Fail--> final      (ErrorHandler, logged)
                       stream --Delivered--> final | --Aborted--> done
                                   final --FinalLog--> done

    create: CreateCount, Insert      update:  UpdateFirst, Save, Clear
    delete: DeleteFirst, Clear, Erase   enable: EnableFirst, Save
    disable: DisableFirst, Save, Clear  clear:  ClearLinkFirst, Clear

Every write may fail (`WriteFails`); DisableLink goes on when it does, as the
code does. GORM's `Save` is modelled as it is used: an update that touches no row
becomes an insert. Windows of validity, policies, the SSRF check and the upstream
are left open, either outcome being possible at any time; a target stands for
the content its upstream returns. `sources` is a history variable on entries: what
the request ran into when it stored the entry that no later clear makes good
(`SourcesOf`). The row had changed, or was gone (`Overtaken`); DeleteLink had
cleared the cache and not yet erased the row (`Deleting`); EnableLink, which clears
nothing, was about to save a row it read before an update (`Reverting`).
`OutdatedHasSource` says that there is no fourth way to an outdated entry that no
clear is on its way to, however many administrators there are.

### VisitLogs

`logs.go` as one module: handlers number their visits and offer them to a bounded
channel, the worker receives, flushes at a full batch or at a tick, commits or
fails, the cleaner reads its two settings in two steps and deletes in a third,
settings change at any moment, and the process may crash and lose what is in
memory. A log carries the time its visit began, which may lie before logs queued
earlier. `told` and `allowed` are history variables of a cleanup.

### AdminLogin

`auth.go`'s LoginHandler with its limiter, and `settings.go`'s ChangePassword.
`attempts` is `loginAttempts`, `password` the row `admin_password_hash` (a
password stands for its hash), `req` what each request is doing:

    idle --Login--> admitted --ReadHash--> compare --Reject/Succeed--> idle
                       |--WrongName/ReadFails--> idle
    idle --ChangePassword--> save --SaveHash/SaveFails--> idle

The three locked functions of the limiter are the operators `Checked`, `Recorded`
and `Cleared`, each one atomic. A failure is kept as its age and `Tick` ages all
of them, so that no clock has to be bounded; at `Window` an age stops, since the
code can no longer tell it from a larger one. `pruneLoginAttempts` is the loop of
the code, failure by failure (`PrunedUpTo`), and `NoFailureForgotten` compares the
lists it leaves, not their lengths: one recent failure exchanged for another would
break it. `Restart` loses
what is in memory; `initAdminPassword` then finds the hash that is there.

### AccessControl (with MCAccessControl)

Which User-Agents a link lets in: `proxy.go:71-92` with `ua.go`, against
administrators who write policies, links and the setting. `db` has the columns
these read, `adm` what each administrator's handler holds between its
statements, `visit` how far a visitor's handler is:

    idle --Lookup--> own --ReadPolicy--> allowed | blocked
                      |--ReadPolicy, ReadPolicyFails--> setting
                 setting --ReadSetting--> allowed | global
                  global --ReadGlobalPolicy--> allowed | blocked
         setting, global --GlobalFails--> allowed

    create: CreatePolicy              update: UpdatePolicy, SavePolicy
    delete: DeletePolicy, Detach or DetachFails, Erase
    link:   UpdateLink, SaveLink      setting: UpdateSettings

`ValidateUA` is the decision; a policy's keywords are the set of agents they
match. The rest is history: `seen` is what the tables would have answered at each
moment since the link was read, `writer` who changed them in that time, `exposed`
whether anything there was would have let the agent in, `moved` whether the
setting was changed, `failed` which read failed, and `late` the links that were
saved with a policy whose deletion had already detached the others. They are what
the three invariants compare an outcome with.

### AdminSession

One tab of the console. `token` is the entry of localStorage, which other tabs
write too; `path` is both the browser's location and App's state of it;
`calls` are the fetches in flight, each with the token it carries.

The step that a reader of the code is likely to overlook is `Commit`. A handler
sets state and the location at once, but React renders later and only then runs
the effects: checkAuth when the path differs from that of the last commit, the
first fetch of a page that was mounted, the hint of a login form that was
mounted. Several answers may be handled before it. `Screen` is the conditional
at the end of App, `mounted` what the last commit put there, and `Commit` also
unmounts a login form, whose request then belongs to nobody (`Orphaned`).
A change made by a click or by Back is committed before the tab does anything
else (`urgent`), as React does for discrete events.

    answers: CheckSucceeds, CheckFails, PageRefused, PageAnswered,
             LoginGranted, LoginRejected, LoginFails
    clicks:  SubmitLogin, Logout, Follow, PopState, Reload, PageAsks
    around:  Disconnect, Reconnect, Expire, OtherTabLogsIn, OtherTabLeaves

What the code does without asking is in the model: any 401 removes the token
that is stored by then, a failed check removes it whatever the reason, a wrong
password at the login form is such a 401, and so is a wrong old password on the
settings page, whose token is valid (`PageRefused`). `PageAsks` is a request a
mounted page sends later than its first. `coalesced` and `cleared` are history variables.

### AdminLists

The four pages that show what the server holds, as one module with the page as a
parameter of its initial state: they share the fetch (`StartFetch`, `Fetched`,
`FetchFails`), and each adds its own controls. A request is in one of three
phases, sent, served and answered, because the server may act on it and the
answer be lost. A handler that waits goes on with what it captured: the toggle
with the rows, the deletion with the filter of its render. `Requery` is the
effect on filter and page. `disordered` and `outdated` are history variables: an
older answer came after a newer one, and somebody else changed what the server
holds, or an answer that told of a change was lost. A 401 ends the page, and with
it everything this module speaks of; that is left to `AdminSession`.

### FormPage, LinkForm, PolicyPage, SettingsPage and AdminForms

`FormPage` has what the pages with a form share: the route, the record the
fields were filled from (`holds`), what was typed since (`typed`), the requests
in flight, and what becomes of them when the page is replaced. `LinkForm`,
`PolicyPage` and `SettingsPage` are the three pages, one action per handler and
per outcome of a request; `AdminForms` composes them with navigation and
reconnection. The fields of a form are one value: whose record they show. Of the
requests of a page that is gone only a link's save does anything when it is
answered: it navigates (`LinkSaved`).

A form ends with the session, too. `Refused` is a request of the page that is
answered with 401, an expired token or a wrong old password: the tab goes to the
login form (route "login"), whatever was typed. `SentAway` is the same on account
of a request no form has made: one of a page that is gone, or App's check of the
session. The actions named `...Fails` are failures other than these. When exactly
React commits the login form is left to `AdminSession`.

`Hop` is the step from one link's form to another by Back or Forward: both are
the same component at the same place in the tree, so React keeps it, and its
effect depends on `isEdit` alone.

### The proof modules

`RAMCacheProofs`, `LinkProxyProofs`, `VisitLogsProofs`, `AdminLoginProofs`,
`AccessControlProofs`, `AdminSessionProofs`, `AdminListsProofs` and
`AdminFormsProofs` hold the theorems about the eight, checked by TLAPS. What a
model computes along a list (the bytes of the cache, the keys a clear keeps, the
failures in the window, the requests that outlive a page) is a recursive function
of the number of elements looked at, as the loop of the code is, so that the
proofs can speak of every position.

## Runs

| Run | Instance | Checks |
|---|---|---|
| `ram_cache` | 2 links x 2 queries, bodies of 1 and 3 bytes, limits of 2, 4 and a wrapped (negative) number of bytes, one writer, 2 instants | `TypeOK`, `IndexMatchesList`, `BytesAccounted`, `GrowsWithinLimit`, `EvictsColdEndOnly`, refinement `ImplementsVolatileStore` |
| `link_proxy` | 1 visitor, 1 administrator, 1 path, 2 ids, redirect and proxy links, fair | `TypeOK`, `LoggedOnce`, `EventuallyAnswered`, `OutdatedEntryGoes` |
| `link_proxy_admins` | 1 visitor, 2 administrators, 1 path, 2 ids, proxy links; administrators and targets are symmetric | `UniquePaths`, `OutdatedHasSource` |
| `admin_login` | 2 requests, 2 clients, 2 passwords, 2 failures, a window of 2 ticks, fair clock | `TypeOK`, `GuessesBounded`, `NoFailureForgotten`, `LockoutEnds` |
| `visit_logs` | queue and batch of 2, 3 visits, 4 days, retentions of 1 and 2 days and a default of 3, fair | `TypeOK`, `InOrder`, `CleanupSparesRecent`, `EventuallyWritten` |
| `access_control` | 1 visitor, 2 administrators, 1 link, 2 policies with 2 contents, a named and an empty agent | `TypeOK`, `OneChangeIsAtomic`, `NobodySlipsThrough`, `DeletionDetaches` |
| `admin_session` | one tab, 2 logins granted, 3 requests in flight, 5 kinds of path, fair | `TypeOK`, `EndedSessionLeaves`, `SubmittingHasCall`, `LoadingEnds`, `LoginTakesEffect` |
| `admin_lists` | 2 items, pages of 1, 2 requests in flight, 2 filters, each of the 4 pages, fair | `TypeOK`, `WaitingHasCall`, `ShownIsStored`, `LoadingEnds` |
| `admin_forms` | 2 links, 1 policy, 3 requests in flight, fair | `TypeOK`, `WaitingHasCall`, `OneSaveInFlight`, `SavesOwnRecord`, `EditsKept`, `WaitingEnds` |

Deadlock is checked in every run. Why the bounds are enough:

- Cache: two bytes hold two small bodies, four hold a small and a large one or
  four small ones, so puts evict none, one or several entries, are refused, and
  shrink against a limit that was lowered; two queries of two links tell a
  link's clear from another's. One writer suffices because `Put` is one step
  under the lock; what matters is that the switch and the limit can change
  between its two steps, and they can. Two instants give an entry that is
  alive and one that is expired. Links and queries are symmetric.
- LinkProxy: two ids let a path be deleted and created again, two targets tell
  old content from new, and slots for visitors and administrators are reused
  without limit. Stale content needs one late visitor and one administrator, and
  an update that an enable takes back needs two; that more of either add nothing
  is proved (`OutdatedEntriesHaveASource`), not run. `link_proxy` is about a
  visitor against one administrator, with redirects and liveness;
  `link_proxy_admins` is about administrators against each other and what the
  visitor stores meanwhile. It leaves out redirect links, which store nothing.
- VisitLogs: with three visits the queue fills and drops, and a batch fills
  while a log waits behind it; four days let a retention of one and of two differ.

- AdminLogin: two requests race past the check and overshoot the limit of two by
  one; two clients tell one's failures from the other's; a window of two ticks
  has failures of three ages in one list. Ages end at the window, so time itself
  is not bounded.
- AccessControl: a visit reads one link, the policy it names and the global one,
  hence one link and two policies; of the two contents each lets in the agent
  that the other refuses, which is all a visit can tell apart: that a policy is
  switched off makes it one that lets its agent in. Two administrators are a
  deletion and the link, setting or policy that is written between its two
  statements, and enough to make two changes during one visit. Administrators
  are symmetric. The proofs lift every one of these bounds.
- AdminSession: two tokens tell an old one from a new one, in this tab or
  another; three requests are a check and a page's fetch that are late and a
  login or a second check that overtakes them. `Commit` and navigation wait for
  room for the requests they may send, which `MaxCalls` thereby bounds without
  cutting a step in half.
- AdminLists: two items and pages of one give a second page, a last row that is
  deleted, and a filter that hides one. Two requests are what it takes for one
  to overtake the other.
- AdminForms: two links are needed to save one's values onto the other; one
  policy and the form of a new one are the two that PolicyPage distinguishes;
  three requests are a late save beside a page's own load and save.

### Findings

Each is a run that expects TLC to find one property violated, where the property
states what the repository says of the program:

| Run | Says | What the code does |
|---|---|---|
| `link_proxy_stale` | `links.go:460` "Clear cache for this link on modification" | A request that read the row before the update stores the old content after the clear; it is served until its TTL ends. |
| `link_proxy_undelete` | `links.go:511` "Link successfully deleted" | A `Save` of a row read before the deletion inserts it again. |
| `admin_forms_hop` | `LinkEdit.tsx:54` "If edit mode, load link details" | Back or Forward from one link's edit page to another's loads nothing: the form keeps the first link's values and Save writes them onto the second. |

Fills that were overtaken are not the only source of stale content: the deletion
below is another, and an EnableLink that saves a row it read before an update is
the third, since it takes the update back after the update's clear. There is no
fourth: that is `OutdatedHasSource`.

### Disagreements without a run

Read off the same steps of the models, and stated here rather than run:

- `links.go:494` says "Clear cache for this link on deletion", but the clear
  precedes the deletion. A request that misses the cache in between fills it,
  and the next link of that path serves the old content. This is the source
  "deleting" of `OutdatedHasSource`.
- `proxy.go:401` says "Ensure final log is recorded". When copying the body
  breaks off, `ServeHTTP` panics with `ErrAbortHandler` past that line, and the
  visit is not recorded. `LoggedOnce` therefore allows it.
- `client.ts:91` says "Session expired", of any 401. A wrong old password is
  answered with one (settings.go:203-204) while the session is good: the
  administrator is logged out, and settings typed but not saved are lost. So are
  those of whatever form is open when a late 401 or a failed check arrives.
  `EditsKept` names these as its exceptions (`Refused`, `SentAway`).
- `settings.go:202` says "Verify old password". Two changes of it verify against
  the same one, and the later `SaveHash` replaces a password its caller never
  gave.
- `settings.go:518` says "Set links referencing this policy to NULL first". A link
  saved after that, from a form or a row older than the deletion, names the
  deleted policy for good (`late`), and the setting `global_ua_policy_id` is
  never set to NULL. Such a link is under the global policy, and under such a
  setting everybody is let in.
- `i18n.tsx:547` says "Whitelist (Allow only matched keywords)". A whitelist
  without keywords lets in every agent that has a name (ua.go:84).
- When a policy or the setting cannot be read, the visitor is let in
  (`ReadPolicyFails` where there is no global policy, `GlobalFails`), and
  likewise when the setting moves to another policy, and the one it named is
  deleted, between the two reads of GetGlobalUAPolicy. `NobodySlipsThrough` names
  both as its exceptions.
- `logs.go:93-96` checks whether the cleanup is enabled. When reading the setting
  fails it counts as enabled, and a cleanup that was switched off deletes.

## Fairness

`LinkProxy!FairSpec` has weak fairness on the steps a handler takes by itself
(`HandlerStep`, `AdminStep`): they are straight-line Go code. `Fail` is among
them because `proxy_total_timeout` cancels the request's context and ends a wait
for headers or for a body that is read to be cached (proxy.go:387); it becomes
disabled as soon as the upstream answers. There is no fairness on the upstream's
answers, on visitors or administrators arriving, nor on `Delivered` and
`Aborted`: the server is started with `r.Run` (main.go:182), which sets no write
timeout, so a client that stops reading may hold its handler. That is why
`EventuallyAnswered` ends where sending the body begins.

`VisitLogs!FairSpec` has weak fairness on the worker as a whole: its goroutine
never returns, its ticker never stops, and a transaction ends with or without an
error. The cleaner gets none.

`AdminLogin!FairSpec` has weak fairness on the clock alone: `LockoutEnds` needs
neither a client that gives up nor a login that finishes.

The console's specifications assume that a fetch ends, in an answer or an error,
and that React commits. `AdminSession` has weak fairness on `Commit` and on the
end of each request. `AdminLists` asks for less, the end of some request as long
as there are any, and `AdminForms` for that of the oldest. There is none on the
administrator, the network, other tabs or the server's workers. A tab that is
reloaded, or a page mounted anew, again and again may load for ever, which
`LoadingEnds` and `WaitingEnds` name as their exception.

## Proofs

For every value of the constants, with the assumptions named in the modules
(`CacheAssumption`, `LinkProxyAssumption`, `VisitLogsAssumption`,
`AdminLoginAssumption`, `AccessAssumption`, `SessionAssumption`,
`ListsAssumption`, `FormsAssumption`) and no bound on the numbers of cached items,
visitors, administrators, paths, links, policies, ids, visits, days, clients or
requests (of AdminLogin's requests there are finitely many). Every safety
invariant and every action property that a passing run checks is a theorem:

| Theorem | Property | Argument |
|---|---|---|
| `RAMCacheProofs!TypeCorrect` | `TypeOK` | `Sound` is what the three fields say of each other: keys differ along the list, the map's domain is the list's keys, each is mapped to its item, the count is the sum. Without it an eviction might subtract what was never added and leave the naturals. One lemma for each private method says that it keeps `Sound`, one for each action follows. |
| `RAMCacheProofs!IndexAlwaysMatches` | `IndexMatchesList` | From `Sound`, which adds that no key is twice in the list: otherwise removing an item by its key would leave its double behind. |
| `RAMCacheProofs!BytesAlwaysAccounted` | `BytesAccounted` | From `Sound`, with lemmas on the sum: of a list that is cut, to which an item is added, from which one is taken, and of what two complementary filters keep (`ClearLinkCache`). |
| `RAMCacheProofs!GrowthStaysWithinLimit` | `GrowsWithinLimit` | A step that is not a `Put` never adds a byte; a `Put` that grows made room under the limit it read. |
| `RAMCacheProofs!ColdEndGivenUp` | `EvictsColdEndOnly` | What remains of the others is a prefix of them, and the next longer one would not have fitted, because sizes are not negative. |
| `RAMCacheProofs!CacheIsVolatileStore` | `ImplementsVolatileStore` | The mapping forgets the order and the sizes (`ContentsOf`); each action is one of the store's, with what was evicted as what it forgot. |
| `LinkProxyProofs!TypeCorrect` | `TypeOK` | `Typed` adds to `TypeOK` what a program counter says of the row a handler holds (`ReqShape`, `AdmShape`): without it a handler that saves might hold no row. |
| `LinkProxyProofs!PathsUnique` | `UniquePaths` | Inductive given `Typed`: only `Insert` and `Save` give rows a path, and both pass the unique index; `Erase` only removes rows. |
| `LinkProxyProofs!VisitsLoggedOnce` | `LoggedOnce` | `LogInv` says for each program counter how many logs were queued and what the status is: `LoggedOnce` alone says nothing of a handler in "final", where the log was queued if and only if the status is not "success". |
| `LinkProxyProofs!OutdatedEntriesHaveASource` | `OutdatedHasSource` | `SourceInv` adds, for any number of administrators, what each of them holds: ids were given out, a row keeps its path, and only an update, an enable or a disable saves. An entry that ran into nothing is settled, which includes that no enable is about to take its row back, or a clear of its path is pending. |
| `VisitLogsProofs!TypeCorrect` | `TypeOK` | Needs `BatchRoom`: a full batch is being flushed, so the worker never receives into one. |
| `VisitLogsProofs!LogsInOrder` | `InOrder` | `OrderInv` splits the order into batch, channel and table and adds that the next number and the next row id exceed all before them. A loss (drop, failed flush, crash, cleanup) only removes, which keeps every part. |
| `VisitLogsProofs!RecentLogsSpared` | `CleanupSparesRecent` | `ThresholdInv`: a cleanup about to delete holds a threshold covered by a retention it was told since it began; time only goes forward. |
| `AdminLoginProofs!TypeCorrect` | `TypeOK` | Inductive as it stands: a request is a record whose fields depend on its step. |
| `AdminLoginProofs!GuessesStayBounded` | `GuessesBounded` | The property counts the logins under way with the failures recorded, which makes it inductive: an admission starts from a list shorter than the limit, and a record takes out of flight what it adds to the list. The bound on failures alone, maxLoginFailures, does not hold, since check and record are apart. |
| `AdminLoginProofs!FailuresKept` | `NoFailureForgotten` | A list's ages descend, so the failures out of the window are its head, and a least-number argument (`LeastNatural`, from the library's well-founded minimum) says where the window begins. Up to there the loop keeps nothing, and from there on everything, by induction over the positions (`Upward`). Hence pruning the pruned changes nothing, and a record adds one at the end. |
| `AccessControlProofs!TypeCorrect` | `TypeOK` | Inductive as it stands; one lemma says what a write does to a visit under way, one what it may leave in the tables. |
| `AccessControlProofs!AgentsKeptOut` | `NobodySlipsThrough` | `Guarded` adds what holds before the decision: an unexposed visit is among tables that let its agent in nowhere, and looks for the policy the setting names unless the setting moved. Writers keep it because they record what they open. |
| `AccessControlProofs!DeletionsDetach` | `DeletionDetaches` | `DetachedInv` adds the state between a deletion's two statements: there, whatever still names the policy is late already. |
| `AccessControlProofs!VisitsAtomic` | `OneChangeIsAtomic` | The property speaks of tables that are gone. `AtomicInv` says where the visit is heading instead: `Rest`, what it will decide if nothing changes any more, is among the verdicts it has seen; a visit no change has met is `Steady` (what it read is what the tables say), and one between a deletion's two statements is steady but for links the first has detached. A change of references leaves `Rest` alone, one of a policy or the setting makes it the current verdict or leaves it. |
| `AdminSessionProofs!TypeCorrect` | `TypeOK` | Requests have ids of their own: as long as fewer are in flight than there are ids, one is free (a pigeonhole argument on finite sets). |
| `AdminSessionProofs!EndedSessionsLeave` | `EndedSessionLeaves` | `LeftInv` drops the screen from the property: without a token, a path that the last commit checked is no page of the console. Answers keep it, and a commit checks the path that is new. |
| `AdminSessionProofs!SubmittingAlwaysHasCall` | `SubmittingHasCall` | Inductive as it stands: a form that leaves the screen resets the button in the step that orphans its request. |
| `AdminListsProofs!TypeCorrect` | `TypeOK` | `Typed` adds what an answer may bring, since answers become rows and totals. |
| `AdminListsProofs!WaitersHaveCalls` | `WaitingHasCall` | Inductive with `Typed` (`Waits`): whatever an answer takes out of flight, the flag it leaves up has another request. |
| `AdminListsProofs!PageShowsStore` | `ShownIsStored` | The property speaks of the moment when nothing is in flight. `Synced` speaks of every moment: the rows are what the server holds but for the toggles, deletions and clearings whose answers are on their way. `Right` is what those carry: a fetch that nothing has happened since, the server's rows, a served toggle, the tag the server holds. |
| `AdminFormsProofs!TypeCorrect` | `TypeOK` | With `Fits`, what each request in flight carries given where the tab is: without it an answer might fill a form with another page's record. |
| `AdminFormsProofs!WaitersHaveCalls` | `WaitingHasCall` | `Waits` with `Fits`: a request that goes on belongs to the page that is mounted. |
| `AdminFormsProofs!SavesOneAtATime` | `OneSaveInFlight` | `Guards` ties each button's flag to its request: there is at most one, and the flag is up while there is one. Of a link's form, load and save share a flag. |
| `AdminFormsProofs!SavesWhatWasLoaded` | `SavesOwnRecord` | `Filled` says of the form what the property says of a request: a save carries what the form holds. |
| `AdminFormsProofs!EditsStay` | `EditsKept` | `Kept`: nothing that is still to come fills a form that was typed into once it was filled, which needs that a page asks for its settings once. What does end a form, a 401 or a failed check, starts from an empty one. |

The library's induction theorems take an operator as a parameter and cannot be
used with the provers at hand. Induction over a list is done with sets instead:
`Upward` (a set that holds 0, and with each position the next, holds all of them)
follows from the least element of its complement, and a recursive function's
equation is first proved to have a solution (`BytesUpToDef`, `WithKeysUpToDef`,
`PrunedUpToDef`, `OrphanedUpToDef`). Each inductive invariant was checked as an
invariant of its run before it was proved.

Only model-checked: the liveness properties (`EventuallyAnswered`,
`OutdatedEntryGoes`, `EventuallyWritten`, `LockoutEnds`, `LoadingEnds` of both
consoles, `LoginTakesEffect`, `WaitingEnds`), since ENABLED and fairness are
outside the proof system's reach, and of course the findings.

## Not modelled, and why

- Redirect and proxy details that change no shared state: headers, file names,
  the target's query, error pages; the SSRF predicate, GeoIP lookups and client
  addresses are outcomes left open.
- HitCount, LastAccessAt and CreatedAt of cache items: nothing reads them.
- Input validation of links: the models are fed valid input only. An id that a
  client gives a new link or policy (links.go:336, settings.go:375), and one of no
  policy that ever was in a link or the setting, are left out: the console never
  sends either.
- The 64 MB that the cache falls back on when its limit cannot be read
  (cache.go:50-55). That a failed read of the switch counts as enabled is in the
  model (`CheckEnabled`).
- The browser's history behind `Hop`: between two edit pages there are others, so
  the step is a jump over several entries at once, which browsers offer.
- Configuration, server wiring, the seeding tool.
- The middleware that checks a token: stateless, and a password change does not
  end a token. A token's validity is a set in `AdminSession`.
- The console's presentation: translations, styles, charts, the map's zoom and
  the toasts. Each is the state of one component that one event sets and nothing
  else reads. Of the modelled pages: whether the sidebar is open, clearing one
  link's cache and copying a path (no state of the page changes), the list of
  policies a link's form offers, how dates and sizes are written.
- Hazards too small for a property of their own: an entry stored after the cache
  was switched off (cache.go:90, in RAMCache's steps); a TTL or a retention so
  large that its arithmetic wraps (cache.go:121, logs.go:112); keys and headers
  that no limit counts (cache.go:102); limiter keys that are never removed
  (auth.go:49); the last chunk of a stream that exceeds its limit (proxy.go:420);
  DisableLink and ChangePassword answering success when their save failed
  (links.go:559, settings.go:231); a link's window losing its seconds when it is
  saved from the form (LinkEdit.tsx:92); a whole map of settings saved over
  another administrator's change (Settings.tsx:51); the table that says there
  are no links after the last one of the last page was deleted (Links.tsx:288).

## Plan

Done: `VolatileStore`, `RAMCache`, `LinkProxy`, `VisitLogs`, `AdminLogin`,
`AccessControl`, the
console (`AdminSession`, `AdminLists`, `AdminForms` and its parts), the proof
modules. Left, in this order:

1. `Settings`: UpdateSettings as a transaction, requests that read several
   settings while they change.
2. Pure operators: the stream limit's chunks, cache-key variants, log paging,
   retention arithmetic, keyword matching.
3. `ProxyWithLogs`: LinkProxy's logs handed to VisitLogs, and LinkProxy's cache
   replaced by RAMCache's interface, to check the composition.
4. Proofs: what of the composition is a theorem; `Settings`' transaction.
