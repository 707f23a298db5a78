------------------------------- MODULE LinkProxy -------------------------------
(***************************************************************************)
(* The core of ShareLink: visitors' requests that run through ProxyHandler *)
(* and runReverseProxy (internal/proxy/proxy.go) while administrators      *)
(* create, update, delete, enable, disable and clear links                 *)
(* (internal/links/links.go, internal/settings/settings.go).  They share   *)
(* the links table, one global setting and the RAM cache, and nothing      *)
(* orders their steps: every handler is a goroutine of its own, and each   *)
(* database statement and each locked cache call is one step of it.        *)
(*                                                                         *)
(* The cache is the one VolatileStore promises: an entry may be forgotten  *)
(* at any time (it expires, or another entry evicts it).  One key stands   *)
(* for the keys of a path, which differ in the query only.  What a window  *)
(* of validity, a User-Agent policy, the SSRF check and the upstream       *)
(* decide is left open: either outcome may occur.                          *)
(***************************************************************************)
EXTENDS Naturals, Functions

CONSTANTS Paths,      \* the public paths, prefix and slug together
          Targets,    \* upstream URLs; a target stands for the content it returns
          Configs,    \* [target, mode, cache] records an administrator submits
          Requests,   \* concurrent visitors (slots, used again and again)
          Admins,     \* concurrent admin requests (slots)
          MaxId,      \* bound: how many links are ever created
          None        \* no entry, no row

Modes == {"redirect", "proxy"}

(* What may be under way, or over, when a fill is stored, that no later    *)
(* clear of the cache makes good.                                          *)
Sources == {"overtaken", "deleting", "reverting"}

ASSUME LinkProxyAssumption ==
  /\ Configs \subseteq [target : Targets, mode : Modes, cache : BOOLEAN]
  /\ MaxId \in Nat
  /\ None \notin [id : Nat, target : Targets, sources : SUBSET Sources]

VARIABLES links,   \* the links table: id -> row
          lastId,  \* the largest id ever given out (AUTOINCREMENT)
          flag,    \* the setting global_cache_enabled
          cache,   \* path -> the entry cached for it, or None
          req,     \* request -> where its handler is
          adm      \* admin request -> where its handler is

vars == <<links, lastId, flag, cache, req, adm>>

Ids == 1..MaxId
Row == [path : Paths, target : Targets, mode : Modes, cache : BOOLEAN, enabled : BOOLEAN]

(* sources is a history variable: what the fill ran into, see SourcesOf.   *)
Entry == [id : Ids, target : Targets, sources : SUBSET Sources]

IdleReq == [pc |-> "idle", id |-> 0, row |-> None, eligible |-> FALSE,
            status |-> "none", logged |-> 0]
IdleAdm == [pc |-> "idle", op |-> "none", id |-> 0, row |-> None]

WithConfig(row, c, on) ==
  [row EXCEPT !.target = c.target, !.mode = c.mode, !.cache = c.cache, !.enabled = on]

(* A seeded fault, as those below: the row a create builds has no path.    *)
NewRowPathless(p, c, on) ==
  [path |-> None, target |-> c.target, mode |-> c.mode, cache |-> c.cache, enabled |-> on]

NewRow(p, c, on) ==
  [path |-> p, target |-> c.target, mode |-> c.mode, cache |-> c.cache, enabled |-> on]

ReqState ==
  [pc : {"idle", "check", "lookup", "fetch", "buffer", "put", "store", "stream", "final", "done"},
   id : 0..MaxId, row : Row \cup {None}, eligible : BOOLEAN,
   status : {"none", "success", "failed", "aborted"}, logged : Nat]

AdmState ==
  [pc : {"idle", "insert", "save", "clear", "erase"},
   op : {"none", "create", "update", "delete", "enable", "disable", "clear"},
   id : 0..MaxId, row : Row \cup {None}]

(* TypeOK: every variable holds a value of its type. *)
TypeOK ==
  /\ DOMAIN links \subseteq Ids /\ \A i \in DOMAIN links : links[i] \in Row
  /\ lastId \in 0..MaxId
  /\ flag \in BOOLEAN
  /\ cache \in [Paths -> Entry \cup {None}]
  /\ req \in [Requests -> ReqState]
  /\ adm \in [Admins -> AdmState]

-----------------------------------------------------------------------------
(* Seeded faults: bugs this code might have had, one per property.  No     *)
(* definition of the model uses them.                                      *)

UniqueIndexMissing(p, i) == TRUE
UpdateKeepsCache(op) == IF op = "disable" THEN "clear" ELSE "idle"
FailedButSuccess(q) == [q EXCEPT !.logged = @ + 1, !.pc = "final"]
NoBodyDeadline(pc) == pc = "fetch"

-----------------------------------------------------------------------------
(* The links table.                                                        *)

NextId(n) == n + 1

(* The unique indexes on (prefix, slug) and on public_path let row i have  *)
(* path p. *)
UniqueIndexAllows(p, i) == \A j \in DOMAIN links \ {i} : links[j].path # p

(* GORM's Save: UPDATE ... WHERE id = i and, if that touched no row,       *)
(* INSERT with the id it has: it brings back a row deleted meanwhile.      *)
Upsert(i, row) == [j \in DOMAIN links \cup {i} |-> IF j = i THEN row ELSE links[j]]

-----------------------------------------------------------------------------
(* Visitors: ProxyHandler                                                  *)

Log(q) == [q EXCEPT !.logged = @ + 1]
Step(r, pc) == req' = [req EXCEPT ![r].pc = pc]

(* First(&link, prefix and slug).  Only a GET of a link that caches is     *)
(* eligible for the cache.                                                 *)
Lookup(r, i, get) ==
  /\ req[r].pc = "idle"
  /\ i \in DOMAIN links
  /\ req' = [req EXCEPT ![r] = [pc |-> "check", id |-> i, row |-> links[i],
                                eligible |-> get /\ links[i].cache,
                                status |-> "success", logged |-> 0]]
  /\ UNCHANGED <<links, lastId, flag, cache, adm>>

(* No such link, or the query fails: an error page and no visit log *)
LookupFails(r) ==
  /\ req[r].pc = "idle"
  /\ req' = [req EXCEPT ![r] = [IdleReq EXCEPT !.pc = "done"]]
  /\ UNCHANGED <<links, lastId, flag, cache, adm>>

(* Disabled, outside its window, or refused by the User-Agent policy.  A   *)
(* window or a policy may refuse any link.                                 *)
Refuse(r) ==
  /\ req[r].pc = "check"
  /\ req' = [req EXCEPT ![r] = [Log(@) EXCEPT !.pc = "done", !.status = "failed"]]
  /\ UNCHANGED <<links, lastId, flag, cache, adm>>

(* Redirect mode: allowed, or refused for its URL or by the SSRF check *)
Redirect(r) ==
  /\ req[r].pc = "check"
  /\ req[r].row.enabled
  /\ req[r].row.mode = "redirect"
  /\ \E status \in {"success", "failed"} :
       req' = [req EXCEPT ![r] = [Log(@) EXCEPT !.pc = "done", !.status = status]]
  /\ UNCHANGED <<links, lastId, flag, cache, adm>>

(* Proxy mode: IsGlobalCacheEnabled is read here for the first time *)
Proxy(r) ==
  /\ req[r].pc = "check"
  /\ req[r].row.enabled
  /\ req[r].row.mode = "proxy"
  /\ Step(r, IF req[r].eligible /\ flag THEN "lookup" ELSE "fetch")
  /\ UNCHANGED <<links, lastId, flag, cache, adm>>

Hit(r) ==
  /\ req[r].pc = "lookup"
  /\ cache[req[r].row.path] # None
  /\ req' = [req EXCEPT ![r] = [Log(@) EXCEPT !.pc = "done"]]
  /\ UNCHANGED <<links, lastId, flag, cache, adm>>

Miss(r) ==
  /\ req[r].pc = "lookup"
  /\ cache[req[r].row.path] = None
  /\ Step(r, "fetch")
  /\ UNCHANGED <<links, lastId, flag, cache, adm>>

-----------------------------------------------------------------------------
(* Visitors: runReverseProxy                                               *)

(* The upstream's headers, as ModifyResponse takes them: a cacheable       *)
(* response (2xx, and the cache still on) is read in full first.           *)
Respond(r) ==
  /\ req[r].pc = "fetch"
  /\ \E ok \in BOOLEAN :
       Step(r, IF req[r].eligible /\ flag /\ ok THEN "buffer" ELSE "stream")
  /\ UNCHANGED <<links, lastId, flag, cache, adm>>

(* The whole body is in memory: to be cached unless it exceeds the link's  *)
(* limit on cached objects. *)
Buffered(r) ==
  /\ req[r].pc = "buffer"
  /\ \E small \in BOOLEAN : Step(r, IF small THEN "put" ELSE "stream")
  /\ UNCHANGED <<links, lastId, flag, cache, adm>>

(* ErrorHandler records the visit and marks it failed, so that the end of  *)
(* runReverseProxy does not record it again.                               *)
Failed(q) == [Log(q) EXCEPT !.status = "failed", !.pc = "final"]

(* Where proxy_total_timeout, or the upstream, can still end the request   *)
(* through ErrorHandler *)
Waiting(pc) == pc \in {"fetch", "buffer"}

(* No connection, refused by the dialer's SSRF check, a 3xx, a body over   *)
(* the limit or broken off, the client gone, or the total timeout          *)
Fail(r) ==
  /\ Waiting(req[r].pc)
  /\ req' = [req EXCEPT ![r] = Failed(@)]
  /\ UNCHANGED <<links, lastId, flag, cache, adm>>

(* RAMCache.Put reads global_cache_enabled, then stores under the lock. *)
PutCheck(r) ==
  /\ req[r].pc = "put"
  /\ Step(r, IF flag THEN "store" ELSE "stream")
  /\ UNCHANGED <<links, lastId, flag, cache, adm>>

(* The row has changed, or is gone, since the request looked it up. *)
Overtaken(q) ==
  ~ (/\ q.id \in DOMAIN links
     /\ links[q.id].target = q.row.target
     /\ links[q.id].path = q.row.path)

(* DeleteLink has cleared the cache and not yet deleted the row. *)
Deleting(i) == \E a \in Admins : adm[a].op = "delete" /\ adm[a].pc = "erase" /\ adm[a].id = i

(* EnableLink is about to write back a row it read before an update: its   *)
(* Save takes the update back, and it clears nothing.                      *)
Reverting(i, target) ==
  \E a \in Admins : /\ adm[a].op = "enable" /\ adm[a].pc = "save"
                    /\ adm[a].id = i /\ adm[a].row.target # target

SourcesOf(q) ==
  {s \in Sources : \/ s = "overtaken" /\ Overtaken(q)
                   \/ s = "deleting" /\ Deleting(q.id)
                   \/ s = "reverting" /\ Reverting(q.id, q.row.target)}

(* Put drops the old entry first, and the new one is not kept if it is     *)
(* larger than the cache. *)
PutStore(r) ==
  /\ req[r].pc = "store"
  /\ \E entry \in {None, [id |-> req[r].id, target |-> req[r].row.target,
                          sources |-> SourcesOf(req[r])]} :
       cache' = [cache EXCEPT ![req[r].row.path] = entry]
  /\ Step(r, "stream")
  /\ UNCHANGED <<links, lastId, flag, adm>>

(* ReverseProxy has copied the body to the client. *)
Delivered(r) ==
  /\ req[r].pc = "stream"
  /\ Step(r, "final")
  /\ UNCHANGED <<links, lastId, flag, cache, adm>>

(* Copying broke off: the client left, the upstream did, the streamed body *)
(* exceeds the limit, or the time is up.  ReverseProxy panics with         *)
(* ErrAbortHandler and runReverseProxy never reaches its end.              *)
Aborted(r) ==
  /\ req[r].pc = "stream"
  /\ req' = [req EXCEPT ![r] = [@ EXCEPT !.pc = "done", !.status = "aborted"]]
  /\ UNCHANGED <<links, lastId, flag, cache, adm>>

FinalLog(r) ==
  /\ req[r].pc = "final"
  /\ req' = [req EXCEPT ![r] =
               IF @.status = "success" THEN [Log(@) EXCEPT !.pc = "done"]
               ELSE [@ EXCEPT !.pc = "done"]]
  /\ UNCHANGED <<links, lastId, flag, cache, adm>>

(* The slot is free for another visitor. *)
Leave(r) ==
  /\ req[r].pc = "done"
  /\ req' = [req EXCEPT ![r] = IdleReq]
  /\ UNCHANGED <<links, lastId, flag, cache, adm>>

-----------------------------------------------------------------------------
(* Administrators: internal/links, and the cache handlers of               *)
(* internal/settings.  A handler whose row is gone answers 404 and changes *)
(* nothing.                                                                *)

Goto(a, pc) == adm' = [adm EXCEPT ![a] = IF pc = "idle" THEN IdleAdm ELSE [@ EXCEPT !.pc = pc]]

Begin(a, pc, op, i, row) ==
  /\ adm[a].pc = "idle"
  /\ adm' = [adm EXCEPT ![a] = [pc |-> pc, op |-> op, id |-> i, row |-> row]]
  /\ UNCHANGED <<links, lastId, flag, cache, req>>

(* CreateLink, up to its count of links with the same prefix and slug.  It *)
(* does not look at the error of the count, and a count that failed is 0.  *)
CreateCount(a, p, c, on) ==
  /\ \E failed \in BOOLEAN : failed \/ \A i \in DOMAIN links : links[i].path # p
  /\ Begin(a, "insert", "create", 0, NewRow(p, c, on))

(* First(&existing, id), with the submitted fields written over it *)
UpdateFirst(a, i, c, on) ==
  /\ i \in DOMAIN links
  /\ Begin(a, "save", "update", i, WithConfig(links[i], c, on))

DeleteFirst(a, i) == i \in DOMAIN links /\ Begin(a, "clear", "delete", i, links[i])

EnableFirst(a, i) ==
  /\ i \in DOMAIN links
  /\ Begin(a, "save", "enable", i, [links[i] EXCEPT !.enabled = TRUE])

DisableFirst(a, i) ==
  /\ i \in DOMAIN links
  /\ Begin(a, "save", "disable", i, [links[i] EXCEPT !.enabled = FALSE])

ClearLinkFirst(a, i) == i \in DOMAIN links /\ Begin(a, "clear", "clear", i, links[i])

Insert(a) ==
  /\ adm[a].pc = "insert"
  /\ lastId < MaxId
  /\ UniqueIndexAllows(adm[a].row.path, 0)
  /\ lastId' = NextId(lastId)
  /\ links' = Upsert(lastId', adm[a].row)
  /\ Goto(a, "idle")
  /\ UNCHANGED <<flag, cache, req>>

(* Where a handler goes once its Save is done: only EnableLink leaves the  *)
(* cache alone. *)
AfterSave(op) == IF op \in {"update", "disable"} THEN "clear" ELSE "idle"

Save(a) ==
  /\ adm[a].pc = "save"
  /\ UniqueIndexAllows(adm[a].row.path, adm[a].id)
  /\ links' = Upsert(adm[a].id, adm[a].row)
  /\ Goto(a, AfterSave(adm[a].op))
  /\ UNCHANGED <<lastId, flag, cache, req>>

(* A write the database refuses: a unique index, or a busy or broken       *)
(* database.  DisableLink does not look at the error and goes on.          *)
WriteFails(a) ==
  /\ adm[a].pc \in {"insert", "save", "erase"}
  /\ Goto(a, IF adm[a].op = "disable" THEN "clear" ELSE "idle")
  /\ UNCHANGED <<links, lastId, flag, cache, req>>

(* RAMCache.ClearLinkCache; DeleteLink calls it before it deletes. *)
Clear(a) ==
  /\ adm[a].pc = "clear"
  /\ cache' = [cache EXCEPT ![adm[a].row.path] = None]
  /\ Goto(a, IF adm[a].op = "delete" THEN "erase" ELSE "idle")
  /\ UNCHANGED <<links, lastId, flag, req>>

Erase(a) ==
  /\ adm[a].pc = "erase"
  /\ links' = Restrict(links, DOMAIN links \ {adm[a].id})
  /\ Goto(a, "idle")
  /\ UNCHANGED <<lastId, flag, cache, req>>

(* ClearCache: all of it, in one locked call *)
ClearAll ==
  /\ cache' = [p \in Paths |-> None]
  /\ UNCHANGED <<links, lastId, flag, req, adm>>

(* UpdateSettings switches the cache on or off and clears nothing. *)
SwitchCache ==
  /\ flag' = ~ flag
  /\ UNCHANGED <<links, lastId, cache, req, adm>>

(* An entry expires, or is evicted for another. *)
Forget(p) ==
  /\ cache[p] # None
  /\ cache' = [cache EXCEPT ![p] = None]
  /\ UNCHANGED <<links, lastId, flag, req, adm>>

-----------------------------------------------------------------------------
Init ==
  /\ links = << >> /\ lastId = 0
  /\ flag = TRUE
  /\ cache = [p \in Paths |-> None]
  /\ req = [r \in Requests |-> IdleReq]
  /\ adm = [a \in Admins |-> IdleAdm]

Visitor(r) ==
  \/ \E i \in Ids, get \in BOOLEAN : Lookup(r, i, get)
  \/ LookupFails(r) \/ Refuse(r) \/ Redirect(r) \/ Proxy(r) \/ Hit(r) \/ Miss(r)
  \/ Respond(r) \/ Buffered(r) \/ Fail(r) \/ PutCheck(r) \/ PutStore(r)
  \/ Delivered(r) \/ Aborted(r) \/ FinalLog(r) \/ Leave(r)

Administrator(a) ==
  \/ \E p \in Paths, c \in Configs, on \in BOOLEAN : CreateCount(a, p, c, on)
  \/ \E i \in Ids, c \in Configs, on \in BOOLEAN : UpdateFirst(a, i, c, on)
  \/ \E i \in Ids : DeleteFirst(a, i) \/ EnableFirst(a, i) \/ DisableFirst(a, i)
                     \/ ClearLinkFirst(a, i)
  \/ Insert(a) \/ Save(a) \/ WriteFails(a) \/ Clear(a) \/ Erase(a)

Next ==
  \/ \E r \in Requests : Visitor(r)
  \/ \E a \in Admins : Administrator(a)
  \/ ClearAll \/ SwitchCache
  \/ \E p \in Paths : Forget(p)

Spec == Init /\ [][Next]_vars

(* A handler's own steps are straight-line code, so none is put off for    *)
(* ever, and the total timeout ends every wait for the upstream.  Nothing  *)
(* makes an upstream answer, a client read its response, a visitor arrive  *)
(* or an administrator act.                                                *)
HandlerStep(r) ==
  \/ Refuse(r) \/ Redirect(r) \/ Proxy(r) \/ Hit(r) \/ Miss(r) \/ Fail(r)
  \/ PutCheck(r) \/ PutStore(r) \/ FinalLog(r)

AdminStep(a) == Insert(a) \/ Save(a) \/ WriteFails(a) \/ Clear(a) \/ Erase(a)

FairSpec ==
  /\ Spec
  /\ \A r \in Requests : WF_vars(HandlerStep(r))
  /\ \A a \in Admins : WF_vars(AdminStep(a))

-----------------------------------------------------------------------------
(* LoggedOnce: a visit of a link is recorded at most once, and once its    *)
(* handler is done, exactly once, unless there was no link or the copying  *)
(* of the body broke off (ProxyHandler, runReverseProxy, ErrorHandler).    *)
LoggedOnce ==
  \A r \in Requests :
    /\ req[r].logged <= 1
    /\ req[r].pc = "done" => (req[r].logged = 1 <=> req[r].status \in {"success", "failed"})

(* The entry is the content of the path's own link as the table has it. *)
Current(p) ==
  /\ cache[p].id \in DOMAIN links
  /\ links[cache[p].id].target = cache[p].target
  /\ links[cache[p].id].path = p

ClearPending(p) == \E a \in Admins : adm[a].pc = "clear" /\ adm[a].row.path = p

(* OutdatedHasSource: however many administrators there are, an entry is   *)
(* the content of the link that exists now, unless the clear of a change   *)
(* is still to come or its fill ran into one of three things that no clear *)
(* follows: a change of the row since its lookup, a deletion that has      *)
(* cleared the cache and not yet deleted the row, or an enable about to    *)
(* take an update back (links.go:448-461, 494-497, 533, 559-562).          *)
OutdatedHasSource ==
  \A p \in Paths : cache[p] # None /\ cache[p].sources = {} => Current(p) \/ ClearPending(p)

(* UniquePaths: no two links ever answer for one path, whatever creations  *)
(* race past each other's duplicate check and whatever Save brings back a  *)
(* deleted row (links.go:320-336, 448, 533, 559).                          *)
UniquePaths == \A i, j \in DOMAIN links : links[i].path = links[j].path => i = j

(* EventuallyAnswered: a visitor's handler that has begun ends, or gets as *)
(* far as sending the body, however silent the upstream is: the total      *)
(* timeout covers the headers and the body that is read to be cached.      *)
EventuallyAnswered ==
  \A r \in Requests :
    req[r].pc \notin {"idle", "stream"} ~> req[r].pc \in {"stream", "done"}

(* OutdatedEntryGoes: an entry that is outdated although its fill ran into *)
(* nothing is gone (or current again) some time later, whether or not it   *)
(* expires.                                                                *)
OutdatedEntryGoes ==
  \A p \in Paths :
    (cache[p] # None /\ cache[p].sources = {} /\ ~ Current(p))
      ~> (cache[p] = None \/ cache[p].sources # {} \/ Current(p))

-----------------------------------------------------------------------------
(* What the code's comments and messages say of it, and the code does not  *)
(* do: each is refuted by a run of its own.                                *)

AdminsIdle == \A a \in Admins : adm[a].pc = "idle"

(* NoStaleAfterUpdate: once an update is over, what is cached for a link   *)
(* visitors can reach is not the content of its old target (links.go:460,  *)
(* "Clear cache for this link on modification").  A request that looked    *)
(* the link up before the update stores the old content after the clear.   *)
NoStaleAfterUpdate ==
  AdminsIdle => \A p \in Paths :
    cache[p] # None /\ cache[p].id \in DOMAIN links /\ links[cache[p].id].enabled
      => links[cache[p].id].target = cache[p].target

(* DeletedStaysDeleted: a row that a deletion removed does not come back   *)
(* (links.go:511, "Link successfully deleted").                            *)
DeletedStaysDeleted ==
  [][\A i \in 1..lastId : i \notin DOMAIN links => i \notin DOMAIN links']_vars
=============================================================================
