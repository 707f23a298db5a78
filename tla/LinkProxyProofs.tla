---------------------------- MODULE LinkProxyProofs ----------------------------
(***************************************************************************)
(* Proofs about LinkProxy for any number of paths, targets, requests and   *)
(* administrators.                                                         *)
(***************************************************************************)
EXTENDS LinkProxy, TLAPS

(* A handler under way knows its row. *)
ReqShape ==
  \A r \in Requests :
    req[r].pc \notin {"idle", "done"} => req[r].row \in Row /\ req[r].id \in Ids

AdmShape ==
  \A a \in Admins :
    /\ adm[a].pc # "idle" => adm[a].row \in Row
    /\ adm[a].pc \in {"save", "clear", "erase"} => adm[a].id \in Ids
    /\ adm[a].pc = "insert" => adm[a].op = "create"
    /\ adm[a].pc = "erase" => adm[a].op = "delete"

Typed == TypeOK /\ ReqShape /\ AdmShape

-----------------------------------------------------------------------------
LEMMA InitTyped == Init => Typed
  BY LinkProxyAssumption DEF Init, Typed, TypeOK, ReqShape, AdmShape, IdleReq, IdleAdm, ReqState,
    AdmState

(* What a visitor's step may do to its own record and to the cache. *)
KnowsRow(q) == q.pc \notin {"idle", "done"} => q.row \in Row /\ q.id \in Ids

LEMMA ReqStep ==
  ASSUME Typed, NEW r \in Requests, NEW q \in ReqState, KnowsRow(q),
         req' = [req EXCEPT ![r] = q],
         cache' \in [Paths -> Entry \cup {None}],
         UNCHANGED <<links, lastId, flag, adm>>
  PROVE  Typed'
<1>1. req' \in [Requests -> ReqState]
  BY DEF Typed, TypeOK
<1>2. ReqShape'
  <2> SUFFICES ASSUME NEW s \in Requests PROVE KnowsRow(req'[s])
    BY DEF ReqShape, KnowsRow
  <2>1. CASE s = r
    BY <2>1 DEF Typed, TypeOK
  <2>2. CASE s # r
    BY <2>2 DEF Typed, TypeOK, ReqShape, KnowsRow
  <2> QED  BY <2>1, <2>2
<1> QED
  BY <1>1, <1>2 DEF Typed, TypeOK, AdmShape

(* A step that only moves a handler from one place to another. *)
LEMMA Moved ==
  ASSUME Typed, NEW r \in Requests, req[r].pc \notin {"idle", "done"},
         NEW pc \in {"lookup", "fetch", "buffer", "put", "store", "stream", "final", "done"}
  PROVE  LET q == [req[r] EXCEPT !.pc = pc]
         IN q \in ReqState /\ KnowsRow(q) /\ (Step(r, pc) <=> req' = [req EXCEPT ![r] = q])
  BY DEF Typed, TypeOK, ReqShape, ReqState, KnowsRow, Step

(* A step that records the visit and moves on. *)
LEMMA Logged ==
  ASSUME Typed, NEW r \in Requests, req[r].pc \notin {"idle", "done"},
         NEW pc \in {"final", "done"}, NEW status \in {"success", "failed", "aborted"}
  PROVE  /\ LET q == [req[r] EXCEPT !.pc = pc, !.status = status]
            IN q \in ReqState /\ KnowsRow(q)
         /\ LET q == [Log(req[r]) EXCEPT !.pc = pc]
            IN q \in ReqState /\ KnowsRow(q)
         /\ LET q == [Log(req[r]) EXCEPT !.pc = pc, !.status = status]
            IN q \in ReqState /\ KnowsRow(q)
         /\ LET q == [Log(req[r]) EXCEPT !.status = status, !.pc = pc]
            IN q \in ReqState /\ KnowsRow(q)
<1>1. req[r] \in ReqState /\ KnowsRow(req[r])
  BY DEF Typed, TypeOK, ReqShape, KnowsRow
<1>2. PICK q0 \in ReqState : q0 = req[r] /\ KnowsRow(q0)
  BY <1>1
<1>3. PICK q1 \in ReqState : q1 = Log(req[r]) /\ KnowsRow(q1)
  <2>1. [q0 EXCEPT !.logged = @ + 1] \in ReqState
    BY DEF ReqState
  <2>2. KnowsRow([q0 EXCEPT !.logged = @ + 1])
    BY <1>2 DEF ReqState, KnowsRow
  <2> QED  BY <1>2, <2>1, <2>2 DEF Log
<1>4. q0.pc \notin {"idle", "done"} /\ q1.pc = q0.pc
  BY <1>2, <1>3 DEF ReqState, Log
<1>5. ASSUME NEW q \in {q0, q1}
      PROVE  /\ [q EXCEPT !.pc = pc] \in ReqState /\ KnowsRow([q EXCEPT !.pc = pc])
             /\ [q EXCEPT !.pc = pc, !.status = status] \in ReqState
             /\ KnowsRow([q EXCEPT !.pc = pc, !.status = status])
             /\ [q EXCEPT !.status = status, !.pc = pc] \in ReqState
             /\ KnowsRow([q EXCEPT !.status = status, !.pc = pc])
  <2>1. q \in ReqState /\ q.row \in Row /\ q.id \in Ids
    BY <1>2, <1>3, <1>4 DEF KnowsRow
  <2> QED  BY <2>1 DEF ReqState, KnowsRow
<1> QED
  BY <1>2, <1>3, <1>5

LEMMA VisitorTyped ==
  ASSUME Typed, NEW r \in Requests, Visitor(r)
  PROVE  Typed'
<1>0. /\ cache \in [Paths -> Entry \cup {None}]
      /\ req \in [Requests -> ReqState]
      /\ MaxId \in Nat
  BY LinkProxyAssumption DEF Typed, TypeOK
<1>1. ASSUME NEW i \in Ids, NEW get \in BOOLEAN, Lookup(r, i, get) PROVE Typed'
  <2> DEFINE q == [pc |-> "check", id |-> i, row |-> links[i],
                   eligible |-> get /\ links[i].cache, status |-> "success", logged |-> 0]
  <2>1. links[i] \in Row
    BY <1>1 DEF Lookup, Typed, TypeOK
  <2>2. q \in ReqState /\ KnowsRow(q)
    <3>1. links[i].cache \in BOOLEAN /\ i \in 0..MaxId
      BY <1>0, <2>1 DEF Row, Ids
    <3>2. PICK e \in BOOLEAN : e = (get /\ links[i].cache)
      BY <3>1
    <3>3. [pc |-> "check", id |-> i, row |-> links[i], eligible |-> e,
           status |-> "success", logged |-> 0] \in ReqState
      BY <2>1, <3>1 DEF ReqState
    <3> QED  BY <2>1, <3>2, <3>3 DEF KnowsRow
  <2>3. req' = [req EXCEPT ![r] = q] /\ UNCHANGED <<links, lastId, flag, cache, adm>>
    BY <1>1 DEF Lookup
  <2> QED  BY <1>0, <2>2, <2>3, ReqStep
<1>2. CASE LookupFails(r)
  <2>1. IdleReq \in ReqState
    BY <1>0 DEF ReqState, IdleReq
  <2>2. PICK q \in ReqState : q = IdleReq
    BY <2>1
  <2>3. [q EXCEPT !.pc = "done"] \in ReqState /\ KnowsRow([q EXCEPT !.pc = "done"])
    BY DEF ReqState, KnowsRow
  <2> QED  BY <1>0, <1>2, <2>2, <2>3, ReqStep DEF LookupFails
<1>3. CASE Refuse(r)
  BY <1>0, <1>3, Logged, ReqStep DEF Refuse
<1>4. CASE Redirect(r)
  BY <1>0, <1>4, Logged, ReqStep DEF Redirect
<1>5. CASE Proxy(r)
  BY <1>0, <1>5, Moved, ReqStep DEF Proxy
<1>6. CASE Hit(r)
  BY <1>0, <1>6, Logged, ReqStep DEF Hit
<1>7. CASE Miss(r)
  BY <1>0, <1>7, Moved, ReqStep DEF Miss
<1>8. CASE Respond(r)
  BY <1>0, <1>8, Moved, ReqStep DEF Respond
<1>9. CASE Buffered(r)
  BY <1>0, <1>9, Moved, ReqStep DEF Buffered
<1>10. CASE Fail(r)
  BY <1>0, <1>10, Logged, ReqStep DEF Fail, Failed, Waiting
<1>11. CASE PutCheck(r)
  BY <1>0, <1>11, Moved, ReqStep DEF PutCheck
<1>12. CASE PutStore(r)
  <2>1. cache' \in [Paths -> Entry \cup {None}]
    <3>1. req[r].row \in Row /\ req[r].id \in Ids /\ SourcesOf(req[r]) \in SUBSET Sources
      BY <1>12 DEF PutStore, Typed, ReqShape, SourcesOf
    <3> QED  BY <1>0, <1>12, <3>1 DEF PutStore, Entry, Row
  <2> QED  BY <1>12, <2>1, Moved, ReqStep DEF PutStore
<1>13. CASE Delivered(r)
  BY <1>0, <1>13, Moved, ReqStep DEF Delivered
<1>14. CASE Aborted(r)
  BY <1>0, <1>14, Logged, ReqStep DEF Aborted
<1>15. CASE FinalLog(r)
  BY <1>0, <1>15, Logged, Moved, ReqStep DEF FinalLog, Step
<1>16. CASE Leave(r)
  <2>1. IdleReq \in ReqState /\ KnowsRow(IdleReq)
    BY <1>0 DEF ReqState, KnowsRow, IdleReq
  <2> QED  BY <1>0, <1>16, <2>1, ReqStep DEF Leave
<1> QED
  BY <1>1, <1>2, <1>3, <1>4, <1>5, <1>6, <1>7, <1>8, <1>9, <1>10, <1>11, <1>12, <1>13, <1>14,
     <1>15, <1>16 DEF Visitor
-----------------------------------------------------------------------------
(* The same for administrators. *)
KnowsLink(h) ==
  /\ h.pc # "idle" => h.row \in Row
  /\ h.pc \in {"save", "clear", "erase"} => h.id \in Ids
  /\ h.pc = "insert" => h.op = "create"
  /\ h.pc = "erase" => h.op = "delete"

LEMMA AdmStep ==
  ASSUME Typed, NEW a \in Admins, NEW h \in AdmState, KnowsLink(h),
         adm' = [adm EXCEPT ![a] = h],
         DOMAIN links' \subseteq Ids, \A i \in DOMAIN links' : links'[i] \in Row,
         lastId' \in 0..MaxId,
         cache' \in [Paths -> Entry \cup {None}],
         UNCHANGED <<flag, req>>
  PROVE  Typed'
<1>1. adm' \in [Admins -> AdmState]
  BY DEF Typed, TypeOK
<1>2. AdmShape'
  <2> SUFFICES ASSUME NEW b \in Admins PROVE KnowsLink(adm'[b])
    BY DEF AdmShape, KnowsLink
  <2>1. CASE b = a
    BY <2>1 DEF Typed, TypeOK
  <2>2. CASE b # a
    BY <2>2 DEF Typed, TypeOK, AdmShape, KnowsLink
  <2> QED  BY <2>1, <2>2
<1> QED
  BY <1>1, <1>2 DEF Typed, TypeOK, ReqShape

LEMMA Goes ==
  ASSUME Typed, NEW a \in Admins, adm[a].pc # "idle",
         NEW pc \in {"idle", "clear", "erase"}, pc # "idle" => adm[a].id \in Ids,
         pc = "erase" => adm[a].op = "delete"
  PROVE  LET h == IF pc = "idle" THEN IdleAdm ELSE [adm[a] EXCEPT !.pc = pc]
         IN h \in AdmState /\ KnowsLink(h) /\ (Goto(a, pc) <=> adm' = [adm EXCEPT ![a] = h])
<1>1. IdleAdm \in AdmState /\ KnowsLink(IdleAdm)
  BY LinkProxyAssumption DEF IdleAdm, AdmState, KnowsLink
<1>2. pc # "idle" => [adm[a] EXCEPT !.pc = pc] \in AdmState /\ KnowsLink([adm[a] EXCEPT !.pc = pc])
  BY DEF Typed, TypeOK, AdmShape, AdmState, KnowsLink
<1> QED
  BY <1>1, <1>2 DEF Goto

LEMMA UpsertTyped ==
  ASSUME Typed, NEW i \in Ids, NEW row \in Row
  PROVE  LET new == Upsert(i, row)
         IN /\ DOMAIN new \subseteq Ids
            /\ \A j \in DOMAIN new : new[j] \in Row
  BY DEF Typed, TypeOK, Upsert

LEMMA BeginTyped ==
  ASSUME Typed, NEW a \in Admins,
         NEW pc \in {"insert", "save", "clear"},
         NEW op \in {"create", "update", "delete", "enable", "disable", "clear"},
         NEW i \in 0..MaxId, NEW row \in Row, pc # "insert" => i \in Ids,
         pc = "insert" => op = "create",
         Begin(a, pc, op, i, row)
  PROVE  Typed'
<1> DEFINE h == [pc |-> pc, op |-> op, id |-> i, row |-> row]
<1>1. h \in AdmState /\ KnowsLink(h)
  BY DEF AdmState, KnowsLink
<1> QED
  BY <1>1, AdmStep DEF Begin, Typed, TypeOK

LEMMA AdministratorTyped ==
  ASSUME Typed, NEW a \in Admins, Administrator(a)
  PROVE  Typed'
<1>0. /\ DOMAIN links \subseteq Ids /\ \A i \in DOMAIN links : links[i] \in Row
      /\ lastId \in 0..MaxId /\ MaxId \in Nat /\ Ids \subseteq 0..MaxId
      /\ cache \in [Paths -> Entry \cup {None}]
      /\ adm[a] \in AdmState /\ KnowsLink(adm[a])
  BY LinkProxyAssumption DEF Typed, TypeOK, AdmShape, KnowsLink, Ids
<1>1. ASSUME NEW p \in Paths, NEW c \in Configs, NEW on \in BOOLEAN, CreateCount(a, p, c, on)
      PROVE  Typed'
  <2>1. NewRow(p, c, on) \in Row
    BY LinkProxyAssumption DEF NewRow, Row
  <2> QED  BY <1>0, <1>1, <2>1, BeginTyped DEF CreateCount
<1>2. ASSUME NEW i \in Ids, NEW c \in Configs, NEW on \in BOOLEAN, UpdateFirst(a, i, c, on)
      PROVE  Typed'
  <2>1. WithConfig(links[i], c, on) \in Row
    BY <1>0, <1>2, LinkProxyAssumption DEF UpdateFirst, WithConfig, Row
  <2> QED  BY <1>0, <1>2, <2>1, BeginTyped DEF UpdateFirst
<1>3. ASSUME NEW i \in Ids, EnableFirst(a, i) PROVE Typed'
  <2>1. [links[i] EXCEPT !.enabled = TRUE] \in Row
    BY <1>0, <1>3 DEF EnableFirst, Row
  <2> QED  BY <1>0, <1>3, <2>1, BeginTyped DEF EnableFirst
<1>4. ASSUME NEW i \in Ids, DisableFirst(a, i) PROVE Typed'
  <2>1. [links[i] EXCEPT !.enabled = FALSE] \in Row
    BY <1>0, <1>4 DEF DisableFirst, Row
  <2> QED  BY <1>0, <1>4, <2>1, BeginTyped DEF DisableFirst
<1>5. ASSUME NEW i \in Ids, DeleteFirst(a, i) \/ ClearLinkFirst(a, i) PROVE Typed'
  BY <1>0, <1>5, BeginTyped DEF DeleteFirst, ClearLinkFirst
<1>6. CASE Insert(a)
  <2>1. lastId' \in Ids /\ adm[a].row \in Row
    BY <1>0, <1>6 DEF Insert, NextId, Ids, KnowsLink
  <2>2. lastId' \in 0..MaxId
    BY <1>0, <2>1
  <2> QED  BY <1>0, <1>6, <2>1, <2>2, UpsertTyped, Goes, AdmStep DEF Insert
<1>7. CASE Save(a)
  <2>1. adm[a].id \in Ids /\ adm[a].row \in Row
    BY <1>0, <1>7 DEF Save, KnowsLink
  <2> QED  BY <1>0, <1>7, <2>1, UpsertTyped, Goes, AdmStep DEF Save, AfterSave
<1>8. CASE WriteFails(a)
  <2>1. adm[a].op # "disable" \/ adm[a].id \in Ids
    BY <1>0, <1>8 DEF WriteFails, KnowsLink
  <2> QED  BY <1>0, <1>8, <2>1, Goes, AdmStep DEF WriteFails
<1>9. CASE Clear(a)
  <2>1. adm[a].id \in Ids /\ adm[a].row \in Row
    BY <1>0, <1>9 DEF Clear, KnowsLink
  <2>2. cache' \in [Paths -> Entry \cup {None}]
    BY <1>0, <1>9 DEF Clear
  <2> QED  BY <1>0, <1>9, <2>1, <2>2, Goes, AdmStep DEF Clear
<1>10. CASE Erase(a)
  <2>1. DOMAIN links' \subseteq Ids /\ \A i \in DOMAIN links' : links'[i] \in Row
    BY <1>0, <1>10 DEF Erase, Restrict
  <2> QED  BY <1>0, <1>10, <2>1, Goes, AdmStep DEF Erase
<1> QED
  BY <1>1, <1>2, <1>3, <1>4, <1>5, <1>6, <1>7, <1>8, <1>9, <1>10 DEF Administrator
-----------------------------------------------------------------------------
LEMMA OthersTyped ==
  ASSUME Typed, ClearAll \/ SwitchCache \/ (\E p \in Paths : Forget(p)) \/ UNCHANGED vars
  PROVE  Typed'
<1>1. /\ cache' \in [Paths -> Entry \cup {None}] /\ flag' \in BOOLEAN
      /\ UNCHANGED <<links, lastId, req, adm>>
  BY DEF Typed, TypeOK, ClearAll, SwitchCache, Forget, vars
<1> QED
  BY <1>1 DEF Typed, TypeOK, ReqShape, AdmShape

LEMMA NextTyped == Typed /\ [Next]_vars => Typed'
  BY VisitorTyped, AdministratorTyped, OthersTyped DEF Next

LEMMA AlwaysTyped == Spec => []Typed
  BY InitTyped, NextTyped, PTL DEF Spec

(* TypeCorrect: every variable keeps its type in every behaviour, whatever *)
(* the numbers of paths, visitors and administrators (TypeOK).             *)
THEOREM TypeCorrect == Spec => []TypeOK
<1>1. Typed => TypeOK
  BY DEF Typed
<1> QED
  BY <1>1, AlwaysTyped, PTL

-----------------------------------------------------------------------------
(* UniquePaths is inductive as it stands: the only two steps that write a  *)
(* path, Insert and Save, go through the unique index, also when Save      *)
(* brings back a row.                                                      *)

LEMMA UpsertUnique ==
  ASSUME UniquePaths, NEW i, NEW row, UniqueIndexAllows(row.path, i),
         links' = Upsert(i, row)
  PROVE  UniquePaths'
<1> SUFFICES ASSUME NEW j \in DOMAIN links', NEW k \in DOMAIN links',
                    links'[j].path = links'[k].path
             PROVE  j = k
  BY DEF UniquePaths
<1>1. ASSUME NEW m \in DOMAIN links', m # i
      PROVE  m \in DOMAIN links /\ links'[m] = links[m] /\ links'[m].path # row.path
  BY <1>1 DEF Upsert, UniqueIndexAllows
<1>2. i \in DOMAIN links' /\ links'[i] = row
  BY DEF Upsert
<1>3. CASE j # i /\ k # i
  BY <1>1, <1>3 DEF UniquePaths
<1>4. CASE j = i /\ k # i
  BY <1>1, <1>2, <1>4
<1>5. CASE j # i /\ k = i
  BY <1>1, <1>2, <1>5
<1> QED
  BY <1>3, <1>4, <1>5

LEMMA NextUnique ==
  ASSUME Typed, UniquePaths, [Next]_vars
  PROVE  UniquePaths'
<1>1. ASSUME NEW r \in Requests, Visitor(r) PROVE links' = links
  BY <1>1 DEF Visitor, Lookup, LookupFails, Refuse, Redirect, Proxy, Hit, Miss, Respond, Buffered,
    Fail, PutCheck, PutStore, Delivered, Aborted, FinalLog, Leave
<1>2. ASSUME NEW a \in Admins, Administrator(a) PROVE UniquePaths'
  <2>1. CASE Insert(a)
    <3>1. 0 \notin DOMAIN links /\ lastId' # 0 /\ lastId' \in Nat
      BY <2>1, LinkProxyAssumption DEF Typed, TypeOK, Insert, NextId, Ids
    <3>2. UniqueIndexAllows(adm[a].row.path, lastId')
      BY <2>1, <3>1 DEF Insert, UniqueIndexAllows
    <3> QED  BY <2>1, <3>2, UpsertUnique DEF Insert
  <2>2. CASE Save(a)
    BY <2>2, UpsertUnique DEF Save
  <2>3. CASE Erase(a)
    BY <2>3 DEF Erase, Restrict, UniquePaths
  <2>4. CASE ~ (Insert(a) \/ Save(a) \/ Erase(a))
    <3>1. links' = links
      BY <1>2, <2>4 DEF Administrator, CreateCount, UpdateFirst, DeleteFirst, EnableFirst,
        DisableFirst, ClearLinkFirst, Begin, WriteFails, Clear
    <3> QED  BY <3>1 DEF UniquePaths
  <2> QED  BY <2>1, <2>2, <2>3, <2>4
<1>3. CASE ClearAll \/ SwitchCache \/ (\E p \in Paths : Forget(p)) \/ UNCHANGED vars
  BY <1>3 DEF ClearAll, SwitchCache, Forget, vars, UniquePaths
<1> QED
  BY <1>1, <1>2, <1>3 DEF Next, UniquePaths

(* PathsUnique: no two links ever answer for one path, for any number of   *)
(* administrators and whatever their handlers' steps interleave.           *)
THEOREM PathsUnique == Spec => []UniquePaths
<1>1. Init => UniquePaths
  BY DEF Init, UniquePaths
<1>2. Typed /\ UniquePaths /\ [Next]_vars => UniquePaths'
  BY NextUnique
<1> QED
  BY <1>1, <1>2, AlwaysTyped, PTL DEF Spec
-----------------------------------------------------------------------------
(* LoggedOnce needs to know what a handler has logged at each place: the   *)
(* error handler must have marked the visit failed when it recorded it.    *)

LogState(q) ==
  /\ q.pc = "idle" => q.logged = 0
  /\ q.pc \in {"check", "lookup", "fetch", "buffer", "put", "store", "stream"}
       => q.logged = 0 /\ q.status = "success"
  /\ q.pc = "final" => \/ q.logged = 0 /\ q.status = "success"
                       \/ q.logged = 1 /\ q.status = "failed"
  /\ q.pc = "done" => \/ q.logged = 1 /\ q.status \in {"success", "failed"}
                      \/ q.logged = 0 /\ q.status \in {"none", "aborted"}

LogInv == \A r \in Requests : LogState(req[r])

LEMMA VisitorLogs ==
  ASSUME Typed, NEW r \in Requests, LogState(req[r]), Visitor(r)
  PROVE  LogState(req'[r]) /\ \A s \in Requests \ {r} : req'[s] = req[s]
<1>0. req \in [Requests -> ReqState] /\ req[r] \in ReqState
  BY DEF Typed, TypeOK
<1> USE DEF LogState, ReqState
<1>1. ASSUME NEW i \in Ids, NEW get \in BOOLEAN, Lookup(r, i, get) 
      PROVE  LogState(req'[r]) /\ \A s \in Requests \ {r} : req'[s] = req[s]
  BY <1>0, <1>1 DEF Lookup
<1>2. CASE LookupFails(r)
  <2>1. IdleReq.logged = 0 /\ IdleReq.status = "none" /\ IdleReq.pc = "idle"
    BY DEF IdleReq
  <2>2. /\ [IdleReq EXCEPT !.pc = "done"].pc = "done"
        /\ [IdleReq EXCEPT !.pc = "done"].logged = 0
        /\ [IdleReq EXCEPT !.pc = "done"].status = "none"
    BY DEF IdleReq
  <2> QED  BY <1>0, <1>2, <2>2 DEF LookupFails
<1>3. CASE Refuse(r) \/ Redirect(r) \/ Hit(r)
  <2>1. req[r].logged = 0 /\ req[r].status = "success"
    BY <1>0, <1>3 DEF Refuse, Redirect, Hit
  <2>2. PICK q \in ReqState : q = Log(req[r]) /\ q.logged = 1 /\ q.status = "success"
    <3>1. Log(req[r]) \in ReqState
      BY <1>0 DEF Log
    <3>2. Log(req[r]).logged = 1 /\ Log(req[r]).status = "success"
      BY <1>0, <2>1 DEF Log
    <3> QED  BY <3>1, <3>2
  <2>3. CASE Hit(r)
    BY <1>0, <2>2, <2>3 DEF Hit
  <2>4. CASE Refuse(r)
    BY <1>0, <2>2, <2>4 DEF Refuse
  <2>5. CASE Redirect(r)
    BY <1>0, <2>2, <2>5 DEF Redirect
  <2> QED  BY <1>3, <2>3, <2>4, <2>5
<1>4. CASE Proxy(r) \/ Miss(r)
  BY <1>0, <1>4 DEF Proxy, Miss, Step
<1>5. CASE Respond(r) \/ Buffered(r) \/ PutCheck(r) \/ PutStore(r) \/ Delivered(r)
  BY <1>0, <1>5 DEF Respond, Buffered, PutCheck, PutStore, Delivered, Step
<1>6. CASE Fail(r)
  BY <1>0, <1>6 DEF Fail, Failed, Log, Waiting
<1>7. CASE Aborted(r)
  BY <1>0, <1>7 DEF Aborted
<1>8. CASE FinalLog(r)
  BY <1>0, <1>8 DEF FinalLog, Log
<1>9. CASE Leave(r)
  BY <1>0, <1>9 DEF Leave, IdleReq
<1> QED
  BY <1>1, <1>2, <1>3, <1>4, <1>5, <1>6, <1>7, <1>8, <1>9 DEF Visitor

LEMMA NextLogs ==
  ASSUME Typed, LogInv, [Next]_vars
  PROVE  LogInv'
<1>1. ASSUME NEW r \in Requests, Visitor(r) PROVE LogInv'
  <2>1. LogState(req'[r]) /\ \A s \in Requests \ {r} : req'[s] = req[s]
    BY <1>1, VisitorLogs DEF LogInv
  <2> QED  BY <2>1 DEF LogInv, LogState
<1>2. ASSUME NEW a \in Admins, Administrator(a) PROVE req' = req
  BY <1>2 DEF Administrator, CreateCount, UpdateFirst, DeleteFirst, EnableFirst, DisableFirst,
    ClearLinkFirst, Begin, Insert, Save, WriteFails, Clear, Erase
<1>3. CASE ClearAll \/ SwitchCache \/ (\E p \in Paths : Forget(p)) \/ UNCHANGED vars
  BY <1>3 DEF ClearAll, SwitchCache, Forget, vars, LogInv, LogState
<1> QED
  BY <1>1, <1>2, <1>3 DEF Next, LogInv, LogState

(* VisitsLoggedOnce: a visit of a link is recorded exactly once, but for   *)
(* the one whose body broke off, for any number of visitors.               *)
THEOREM VisitsLoggedOnce == Spec => []LoggedOnce
<1>1. Init => LogInv
  BY DEF Init, LogInv, LogState, IdleReq
<1>2. Typed /\ LogInv /\ [Next]_vars => LogInv'
  BY NextLogs
<1>3. Typed /\ LogInv => LoggedOnce
  <2> SUFFICES ASSUME Typed, LogInv, NEW r \in Requests
               PROVE  /\ req[r].logged <= 1
                      /\ req[r].pc = "done" =>
                           (req[r].logged = 1 <=> req[r].status \in {"success", "failed"})
    BY DEF LoggedOnce
  <2>1. req[r] \in ReqState /\ LogState(req[r])
    BY DEF Typed, TypeOK, LogInv
  <2> QED  BY <2>1 DEF ReqState, LogState
<1> QED
  BY <1>1, <1>2, <1>3, AlwaysTyped, PTL DEF Spec
-----------------------------------------------------------------------------
(* OutdatedHasSource, however many administrators there are.  A row's path *)
(* never changes, so the clear of any handler that holds a row clears the  *)
(* key of that row's entries.  An entry whose fill ran into nothing is     *)
(* then settled: current, and no administrator under way can outdate it    *)
(* without a clear to follow, until such a clear is pending.               *)

HoldsRow(a) == adm[a].pc \in {"save", "clear", "erase"}

IdsGivenOut ==
  /\ DOMAIN links \subseteq 1..lastId
  /\ \A a \in Admins : adm[a].id \in 0..lastId

PathsFixed ==
  \A a \in Admins : HoldsRow(a) =>
    /\ adm[a].id \in DOMAIN links => adm[a].row.path = links[adm[a].id].path
    /\ \A b \in Admins : HoldsRow(b) /\ adm[b].id = adm[a].id => adm[b].row.path = adm[a].row.path

SaveOps == \A a \in Admins : adm[a].pc = "save" => adm[a].op \in {"update", "enable", "disable"}

Settled(p) ==
  /\ Current(p)
  /\ ~ Deleting(cache[p].id)
  /\ ~ Reverting(cache[p].id, cache[p].target)

Unhindered(p) == cache[p] # None /\ cache[p].sources = {}

EntriesSettled == \A p \in Paths : Unhindered(p) => ClearPending(p) \/ Settled(p)

SourceInv == IdsGivenOut /\ PathsFixed /\ SaveOps /\ EntriesSettled

(* Steps that leave the table and the administrators alone: all they may   *)
(* add to the cache is an entry that is settled when it is stored.         *)
LEMMA CacheStepSettles ==
  ASSUME SourceInv, UNCHANGED <<links, lastId, adm>>,
         \A p \in Paths :
           \/ cache'[p] = cache[p]
           \/ cache'[p] = None
           \/ Unhindered(p)' => Settled(p)'
  PROVE  SourceInv'
<1>1. IdsGivenOut' /\ PathsFixed' /\ SaveOps'
  BY DEF SourceInv, IdsGivenOut, PathsFixed, HoldsRow, SaveOps
<1>2. ASSUME NEW p \in Paths, Unhindered(p)' PROVE ClearPending(p)' \/ Settled(p)'
  BY <1>2 DEF SourceInv, EntriesSettled, Unhindered, Settled, Current, ClearPending, Deleting,
    Reverting
<1> QED
  BY <1>1, <1>2 DEF SourceInv, EntriesSettled

LEMMA VisitorSettles ==
  ASSUME Typed, SourceInv, NEW r \in Requests, Visitor(r)
  PROVE  SourceInv'
<1>1. UNCHANGED <<links, lastId, adm>>
  BY DEF Visitor, Lookup, LookupFails, Refuse, Redirect, Proxy, Hit, Miss, Respond, Buffered,
    Fail, PutCheck, PutStore, Delivered, Aborted, FinalLog, Leave
<1>2. CASE PutStore(r)
  <2>1. PICK e \in {None, [id |-> req[r].id, target |-> req[r].row.target,
                           sources |-> SourcesOf(req[r])]} :
          cache' = [cache EXCEPT ![req[r].row.path] = e]
    BY <1>2 DEF PutStore
  <2>2. e = None \/ (e.sources = SourcesOf(req[r]) /\ e.id = req[r].id
                      /\ e.target = req[r].row.target)
    BY <2>1
  <2>3. cache \in [Paths -> Entry \cup {None}]
    BY DEF Typed, TypeOK
  <2>4. ASSUME NEW p \in Paths, cache'[p] # cache[p], Unhindered(p)' PROVE Settled(p)'
    <3>1. p = req[r].row.path /\ cache'[p] = e /\ e # None
      BY <2>1, <2>3, <2>4 DEF Unhindered
    <3>2. SourcesOf(req[r]) = {}
      BY <2>2, <2>4, <3>1 DEF Unhindered
    <3>3. /\ ~ Overtaken(req[r]) /\ ~ Deleting(e.id) /\ ~ Reverting(e.id, e.target)
      BY <2>2, <3>1, <3>2 DEF SourcesOf, Sources
    <3>4. Current(p)'
      BY <1>1, <2>2, <3>1, <3>3 DEF Overtaken, Current
    <3> QED  BY <1>1, <3>1, <3>3, <3>4 DEF Settled, Deleting, Reverting
  <2> QED  BY <1>1, <2>4, CacheStepSettles
<1>3. CASE ~ PutStore(r)
  <2>1. cache' = cache
    BY <1>3 DEF Visitor, Lookup, LookupFails, Refuse, Redirect, Proxy, Hit, Miss, Respond, Buffered,
      Fail, PutCheck, Delivered, Aborted, FinalLog, Leave
  <2> QED  BY <1>1, <2>1, CacheStepSettles
<1> QED
  BY <1>2, <1>3

(* A handler begins: what it holds is a row as the table has it.           *)
LEMMA BeginSettles ==
  ASSUME Typed, SourceInv, NEW a \in Admins, NEW pc \in {"insert", "save", "clear"},
         NEW op, NEW i, NEW row, Begin(a, pc, op, i, row),
         pc = "insert" => i = 0,
         pc # "insert" => i \in DOMAIN links /\ row.path = links[i].path,
         pc = "save" => op \in {"update", "enable", "disable"},
         op = "enable" => row.target = links[i].target
  PROVE  SourceInv'
<1>1. /\ UNCHANGED <<links, lastId, cache>>
      /\ adm[a].pc = "idle"
      /\ adm'[a] = [pc |-> pc, op |-> op, id |-> i, row |-> row]
      /\ \A b \in Admins \ {a} : adm'[b] = adm[b]
      /\ lastId \in Nat
  BY LinkProxyAssumption DEF Begin, Typed, TypeOK
<1>2. IdsGivenOut'
  BY <1>1 DEF SourceInv, IdsGivenOut
<1>3. PathsFixed'
  BY <1>1 DEF SourceInv, PathsFixed, HoldsRow
<1>4. SaveOps'
  BY <1>1 DEF SourceInv, SaveOps
<1>5. ASSUME NEW p \in Paths, Unhindered(p) PROVE ClearPending(p)' \/ Settled(p)'
  <2>1. CASE ClearPending(p)
    BY <1>1, <2>1 DEF ClearPending
  <2>2. CASE Settled(p)
    BY <1>1, <2>2 DEF Settled, Current, Deleting, Reverting
  <2> QED  BY <1>5, <2>1, <2>2 DEF SourceInv, EntriesSettled
<1> QED
  BY <1>1, <1>2, <1>3, <1>4, <1>5 DEF SourceInv, EntriesSettled, Unhindered

(* A handler goes on, or ends, with the row it holds.                      *)
LEMMA GoesOn ==
  ASSUME Typed, NEW a \in Admins, NEW pc \in {"idle", "clear", "erase"}, Goto(a, pc)
  PROVE  /\ adm'[a].pc = pc
         /\ adm'[a].id \in {0, adm[a].id}
         /\ pc # "idle" => /\ adm'[a].id = adm[a].id /\ adm'[a].row = adm[a].row
                           /\ adm'[a].op = adm[a].op
         /\ \A b \in Admins \ {a} : adm'[b] = adm[b]
  BY DEF Typed, TypeOK, AdmState, Goto, IdleAdm

LEMMA AdministratorSettles ==
  ASSUME Typed, SourceInv, NEW a \in Admins, Administrator(a)
  PROVE  SourceInv'
<1>0. /\ adm \in [Admins -> AdmState]
      /\ cache \in [Paths -> Entry \cup {None}]
      /\ lastId \in Nat
      /\ DOMAIN links \subseteq 1..lastId
      /\ \A b \in Admins : adm[b].id \in 0..lastId
  BY LinkProxyAssumption DEF Typed, TypeOK, SourceInv, IdsGivenOut
<1>1. ASSUME NEW p \in Paths, NEW c \in Configs, NEW on \in BOOLEAN, CreateCount(a, p, c, on)
      PROVE  SourceInv'
  BY <1>1, BeginSettles DEF CreateCount
<1>2. ASSUME NEW i \in Ids, NEW c \in Configs, NEW on \in BOOLEAN, UpdateFirst(a, i, c, on)
      PROVE  SourceInv'
  <2>1. WithConfig(links[i], c, on).path = links[i].path
    BY <1>2 DEF UpdateFirst, WithConfig, Typed, TypeOK, Row
  <2> QED  BY <1>2, <2>1, BeginSettles DEF UpdateFirst
<1>3. ASSUME NEW i \in Ids, EnableFirst(a, i) PROVE SourceInv'
  <2>1. links[i] \in Row
    BY <1>3 DEF EnableFirst, Typed, TypeOK
  <2>2. /\ [links[i] EXCEPT !.enabled = TRUE].path = links[i].path
        /\ [links[i] EXCEPT !.enabled = TRUE].target = links[i].target
    BY <2>1 DEF Row
  <2> QED  BY <1>3, <2>2, BeginSettles DEF EnableFirst
<1>4. ASSUME NEW i \in Ids, DisableFirst(a, i) PROVE SourceInv'
  <2>1. links[i] \in Row
    BY <1>4 DEF DisableFirst, Typed, TypeOK
  <2>2. [links[i] EXCEPT !.enabled = FALSE].path = links[i].path
    BY <2>1 DEF Row
  <2> QED  BY <1>4, <2>2, BeginSettles DEF DisableFirst
<1>5. ASSUME NEW i \in Ids, DeleteFirst(a, i) \/ ClearLinkFirst(a, i) PROVE SourceInv'
  BY <1>5, BeginSettles DEF DeleteFirst, ClearLinkFirst
<1>6. CASE Insert(a)
  <2>1. /\ cache' = cache /\ lastId' = lastId + 1
        /\ adm'[a].pc = "idle" /\ adm'[a].id \in {0, adm[a].id}
        /\ \A b \in Admins \ {a} : adm'[b] = adm[b]
        /\ adm[a].pc = "insert"
        /\ links' = Upsert(lastId', adm[a].row)
    BY <1>6, GoesOn DEF Insert, NextId
  <2>2. IdsGivenOut'
    BY <1>0, <2>1 DEF IdsGivenOut, Upsert
  <2>3. \A i \in 0..lastId : /\ i \in DOMAIN links' <=> i \in DOMAIN links
                             /\ i \in DOMAIN links => links'[i] = links[i]
    BY <1>0, <2>1 DEF Upsert
  <2>4. PathsFixed'
    BY <1>0, <2>1, <2>3 DEF SourceInv, PathsFixed, HoldsRow
  <2>5. SaveOps'
    BY <2>1 DEF SourceInv, SaveOps
  <2>6. ASSUME NEW p \in Paths, Unhindered(p) PROVE ClearPending(p)' \/ Settled(p)'
    <3>1. CASE ClearPending(p)
      BY <2>1, <3>1 DEF ClearPending
    <3>2. CASE Settled(p)
      <4>1. Current(p)'
        BY <1>0, <2>1, <2>3, <3>2 DEF Settled, Current
      <4> QED  BY <2>1, <3>2, <4>1 DEF Settled, Deleting, Reverting
    <3> QED  BY <2>6, <3>1, <3>2 DEF SourceInv, EntriesSettled
  <2> QED  BY <2>1, <2>2, <2>4, <2>5, <2>6 DEF SourceInv, EntriesSettled, Unhindered
<1>7. CASE Save(a)
  <2> DEFINE id == adm[a].id
             next == AfterSave(adm[a].op)
  <2>1. /\ adm[a].pc = "save" /\ adm[a].op \in {"update", "enable", "disable"}
        /\ id \in Ids /\ id \in 1..lastId
        /\ next = IF adm[a].op = "enable" THEN "idle" ELSE "clear"
    BY <1>0, <1>7 DEF Save, SourceInv, SaveOps, AfterSave, Typed, AdmShape, Ids
  <2>2. /\ cache' = cache /\ lastId' = lastId /\ links' = Upsert(id, adm[a].row)
        /\ DOMAIN links' = DOMAIN links \cup {id}
        /\ links'[id] = adm[a].row
        /\ \A i \in DOMAIN links \ {id} : links'[i] = links[i]
    BY <1>7 DEF Save, Upsert
  <2>3. /\ adm'[a].pc = next /\ adm'[a].id \in {0, id}
        /\ next = "clear" => adm'[a].id = id /\ adm'[a].row = adm[a].row /\ adm'[a].op = adm[a].op
        /\ \A b \in Admins \ {a} : adm'[b] = adm[b]
    BY <1>7, <2>1, GoesOn DEF Save
  <2> HIDE DEF id, next
  <2>4. IdsGivenOut'
    BY <1>0, <2>1, <2>2, <2>3 DEF IdsGivenOut, id
  <2>5. PathsFixed'
    BY <2>1, <2>2, <2>3 DEF SourceInv, PathsFixed, HoldsRow, id
  <2>6. SaveOps'
    BY <2>1, <2>3 DEF SourceInv, SaveOps
  <2>7. ASSUME NEW p \in Paths, Unhindered(p) PROVE ClearPending(p)' \/ Settled(p)'
    <3>1. CASE ClearPending(p)
      BY <2>1, <2>3, <3>1 DEF ClearPending
    <3>2. CASE Settled(p)
      <4>1. ~ Deleting(cache[p].id)' /\ ~ Reverting(cache[p].id, cache[p].target)'
        BY <2>1, <2>2, <2>3, <3>2 DEF Settled, Deleting, Reverting
      <4>2. CASE cache[p].id # id
        BY <2>2, <3>2, <4>1, <4>2 DEF Settled, Current
      <4>3. CASE cache[p].id = id
        <5>1. adm[a].row.path = p
          BY <2>1, <3>2, <4>3 DEF SourceInv, PathsFixed, HoldsRow, Settled, Current, id
        <5>2. CASE adm[a].op = "enable"
          <6>1. adm[a].row.target = cache[p].target
            BY <2>1, <3>2, <4>3, <5>2 DEF Settled, Reverting, id
          <6> QED  BY <2>2, <4>1, <4>3, <5>1, <6>1 DEF Settled, Current
        <5>3. CASE adm[a].op # "enable"
          BY <2>1, <2>3, <5>1, <5>3 DEF ClearPending
        <5> QED  BY <5>2, <5>3
      <4> QED  BY <4>2, <4>3
    <3> QED  BY <2>7, <3>1, <3>2 DEF SourceInv, EntriesSettled
  <2> QED  BY <2>2, <2>4, <2>5, <2>6, <2>7 DEF SourceInv, EntriesSettled, Unhindered
<1>8. CASE WriteFails(a)
  <2> DEFINE next == IF adm[a].op = "disable" THEN "clear" ELSE "idle"
  <2>1. /\ UNCHANGED <<links, lastId, cache>>
        /\ adm[a].pc \in {"insert", "save", "erase"}
        /\ next = "clear" => HoldsRow(a)
    BY <1>8 DEF WriteFails, Typed, AdmShape, HoldsRow
  <2>2. /\ adm'[a].pc = next /\ adm'[a].id \in {0, adm[a].id} /\ next \in {"idle", "clear"}
        /\ next = "clear" => adm'[a].id = adm[a].id /\ adm'[a].row = adm[a].row
        /\ \A b \in Admins \ {a} : adm'[b] = adm[b]
    BY <1>8, GoesOn DEF WriteFails
  <2> HIDE DEF next
  <2>3. IdsGivenOut'
    BY <1>0, <2>1, <2>2 DEF IdsGivenOut
  <2>4. PathsFixed'
    BY <2>1, <2>2 DEF SourceInv, PathsFixed, HoldsRow
  <2>5. SaveOps'
    BY <2>2 DEF SourceInv, SaveOps
  <2>6. ASSUME NEW p \in Paths, Unhindered(p) PROVE ClearPending(p)' \/ Settled(p)'
    <3>1. CASE ClearPending(p)
      BY <2>1, <2>2, <3>1 DEF ClearPending
    <3>2. CASE Settled(p)
      BY <2>1, <2>2, <3>2 DEF Settled, Current, Deleting, Reverting
    <3> QED  BY <2>6, <3>1, <3>2 DEF SourceInv, EntriesSettled
  <2> QED  BY <2>1, <2>3, <2>4, <2>5, <2>6 DEF SourceInv, EntriesSettled, Unhindered
<1>9. CASE Clear(a)
  <2> DEFINE next == IF adm[a].op = "delete" THEN "erase" ELSE "idle"
  <2>1. /\ UNCHANGED <<links, lastId>> /\ adm[a].pc = "clear"
        /\ cache' = [cache EXCEPT ![adm[a].row.path] = None]
    BY <1>9 DEF Clear
  <2>2. /\ adm'[a].pc = next /\ adm'[a].id \in {0, adm[a].id} /\ next \in {"idle", "erase"}
        /\ next = "erase" => adm'[a].id = adm[a].id /\ adm'[a].row = adm[a].row
        /\ \A b \in Admins \ {a} : adm'[b] = adm[b]
    BY <1>9, GoesOn DEF Clear
  <2> HIDE DEF next
  <2>3. IdsGivenOut'
    BY <1>0, <2>1, <2>2 DEF IdsGivenOut
  <2>4. PathsFixed'
    BY <2>1, <2>2 DEF SourceInv, PathsFixed, HoldsRow
  <2>5. SaveOps'
    BY <2>2 DEF SourceInv, SaveOps
  <2>6. ASSUME NEW p \in Paths, Unhindered(p)' PROVE ClearPending(p)' \/ Settled(p)'
    <3>1. p # adm[a].row.path /\ cache'[p] = cache[p] /\ Unhindered(p)
      BY <1>0, <2>1, <2>6 DEF Unhindered
    <3>2. CASE ClearPending(p)
      BY <2>2, <3>1, <3>2 DEF ClearPending
    <3>3. CASE Settled(p)
      <4>1. Current(p)'
        BY <2>1, <3>1, <3>3 DEF Settled, Current
      <4>2. adm[a].id # cache[p].id
        BY <2>1, <3>1, <3>3 DEF SourceInv, PathsFixed, HoldsRow, Settled, Current
      <4>3. ~ Deleting(cache[p].id)' /\ ~ Reverting(cache[p].id, cache[p].target)'
        BY <2>1, <2>2, <3>1, <3>3, <4>2 DEF Settled, Deleting, Reverting
      <4> QED  BY <3>1, <4>1, <4>3 DEF Settled
    <3> QED  BY <3>1, <3>2, <3>3 DEF SourceInv, EntriesSettled
  <2> QED  BY <2>3, <2>4, <2>5, <2>6 DEF SourceInv, EntriesSettled
<1>10. CASE Erase(a)
  <2>1. /\ UNCHANGED <<cache, lastId>> /\ adm[a].pc = "erase" /\ adm[a].op = "delete"
        /\ DOMAIN links' = DOMAIN links \ {adm[a].id}
        /\ \A i \in DOMAIN links' : links'[i] = links[i]
    BY <1>10 DEF Erase, Restrict, Typed, AdmShape
  <2>2. /\ adm'[a].pc = "idle" /\ adm'[a].id \in {0, adm[a].id}
        /\ \A b \in Admins \ {a} : adm'[b] = adm[b]
    BY <1>10, GoesOn DEF Erase
  <2>3. IdsGivenOut'
    BY <1>0, <2>1, <2>2 DEF IdsGivenOut
  <2>4. PathsFixed'
    BY <2>1, <2>2 DEF SourceInv, PathsFixed, HoldsRow
  <2>5. SaveOps'
    BY <2>2 DEF SourceInv, SaveOps
  <2>6. ASSUME NEW p \in Paths, Unhindered(p) PROVE ClearPending(p)' \/ Settled(p)'
    <3>1. CASE ClearPending(p)
      BY <2>1, <2>2, <3>1 DEF ClearPending
    <3>2. CASE Settled(p)
      <4>1. adm[a].id # cache[p].id
        BY <2>1, <3>2 DEF Settled, Deleting
      <4> QED  BY <2>1, <2>2, <3>2, <4>1 DEF Settled, Current, Deleting, Reverting
    <3> QED  BY <2>6, <3>1, <3>2 DEF SourceInv, EntriesSettled
  <2> QED  BY <2>1, <2>3, <2>4, <2>5, <2>6 DEF SourceInv, EntriesSettled, Unhindered
<1> QED
  BY <1>1, <1>2, <1>3, <1>4, <1>5, <1>6, <1>7, <1>8, <1>9, <1>10 DEF Administrator

LEMMA NextSettles ==
  ASSUME Typed, SourceInv, [Next]_vars
  PROVE  SourceInv'
<1>1. CASE ClearAll \/ SwitchCache \/ (\E p \in Paths : Forget(p)) \/ UNCHANGED vars
  <2>1. UNCHANGED <<links, lastId, adm>> /\ \A p \in Paths : cache'[p] \in {cache[p], None}
    BY <1>1 DEF ClearAll, SwitchCache, Forget, vars, Typed, TypeOK
  <2> QED  BY <2>1, CacheStepSettles
<1> QED
  BY <1>1, VisitorSettles, AdministratorSettles DEF Next

(* OutdatedEntriesHaveASource: for any numbers of links, paths, visitors   *)
(* and administrators, what is cached is the content of the link as it is  *)
(* now, unless a clear is still to come or its fill ran into a change, a   *)
(* deletion past its clear or an enable that takes an update back.         *)
THEOREM OutdatedEntriesHaveASource == Spec => []OutdatedHasSource
<1>1. Init => SourceInv
  BY DEF Init, SourceInv, IdsGivenOut, PathsFixed, HoldsRow, SaveOps, EntriesSettled, Unhindered,
    IdleAdm
<1>2. Typed /\ SourceInv /\ [Next]_vars => SourceInv'
  BY NextSettles
<1>3. SourceInv => OutdatedHasSource
  BY DEF SourceInv, EntriesSettled, Unhindered, Settled, OutdatedHasSource
<1> QED
  BY <1>1, <1>2, <1>3, AlwaysTyped, PTL DEF Spec
=============================================================================
