-------------------------- MODULE AdminListsProofs --------------------------
(***************************************************************************)
(* Proofs about AdminLists for any items, filters, page sizes and number   *)
(* of requests in flight: what a page waits for, and what it shows once    *)
(* all is answered.                                                        *)
(***************************************************************************)
EXTENDS AdminLists, FiniteSetTheorems, TLAPS

Row == [id : Ids, tag : Tags]
Query == [tag : Filters, page : Nat \ {0}]
Phases == {"sent", "ok", "refused"}
FetchCall == [op : {"fetch"}, query : Query, phase : Phases, rows : SUBSET Row,
              total : 0..Cardinality(Ids), fresh : BOOLEAN]
ChangeCall == [op : {"toggle", "delete", "clear"}, query : Query, phase : Phases,
               row : [id : Nat, tag : Tags \cup {"gone"}], kept : SUBSET Row, fresh : BOOLEAN]
CallSet == FetchCall \cup ChangeCall

Elems(s) == {s[i] : i \in 1..Len(s)}
InFlight == Elems(calls)

(* A fetch that nothing has happened since carries what the server holds;  *)
(* a toggle that was served and that nothing has happened since is what    *)
(* the server holds of its link.  The screens differ in what they change.  *)
Right(c) ==
  /\ c.op = "fetch" /\ c.fresh =>
       c.rows = Listed(c.query) /\ c.total = Cardinality(Matching(c.query))
  /\ c.op \in {"toggle", "delete"} => screen = "links" /\ c.row.id \in Ids
  /\ c.op = "toggle" => c.row.tag \in Tags
  /\ c.op = "delete" => c.row.tag = "gone"
  /\ c.op = "clear" => screen = "cache"
  /\ c.op = "toggle" /\ c.phase = "ok" /\ c.fresh => store[c.row.id] = c.row.tag

Typed ==
  /\ screen \in Screens /\ store \in [Ids -> StoredTags(screen)]
  /\ query \in Query /\ rows \subseteq Row /\ total \in 0..Cardinality(Ids)
  /\ loading \in BOOLEAN /\ failed \in BOOLEAN /\ clearing \in BOOLEAN
  /\ disordered \in BOOLEAN /\ outdated \in BOOLEAN
  /\ calls \in Seq(CallSet) /\ Len(calls) <= MaxCalls

(* Once a fetch was answered, the page shows what the server holds but for *)
(* the toggles, deletions and clearings whose answers are on their way.    *)
Pending(ops) == {c \in InFlight : c.op \in ops /\ c.phase = "ok"}
Synced ==
  ~disordered /\ ~outdated /\ ~failed /\ ~loading /\ Pending({"delete", "clear"}) = {} =>
    /\ \A r \in rows : store[r.id] = r.tag \/ \E c \in Pending({"toggle"}) : c.row.id = r.id
    /\ query.tag = "all" => {r.id : r \in rows} = {r.id : r \in Listed(query)}
    /\ query.tag = "all" /\ screen # "dashboard" => total = Cardinality(Matching(query))

Waits ==
  /\ loading => \E c \in InFlight : c.op = "fetch"
  /\ clearing => \E c \in InFlight : c.op = "clear"

Inv == Typed /\ (\A c \in InFlight : Right(c)) /\ Waits /\ Synced

-----------------------------------------------------------------------------
(* Lists of requests. *)

(* r has the elements of s but the one at p. *)
Rest(r, s, p) ==
  /\ Len(r) = Len(s) - 1
  /\ \A i \in 1..Len(r) : \E j \in 1..Len(s) : j # p /\ r[i] = s[j]
  /\ \A j \in 1..Len(s) : j # p => \E i \in 1..Len(r) : r[i] = s[j]

LEMMA RemoveIs ==
  ASSUME NEW S, NEW s \in Seq(S), NEW p \in 1..Len(s), NEW r, r = RemoveAt(s, p)
  PROVE  r \in Seq(S) /\ Rest(r, s, p)
<1> DEFINE u == SubSeq(s, 1, p - 1)
           v == SubSeq(s, p + 1, Len(s))
           At(i) == IF i < p THEN i ELSE i + 1
           Of(j) == IF j < p THEN j ELSE j - 1
<1>1. Len(s) \in Nat /\ p \in Nat
  OBVIOUS
<1>2. /\ u \in Seq(S) /\ Len(u) = p - 1 /\ v \in Seq(S) /\ Len(v) = Len(s) - p
      /\ \A n \in 1..(p - 1) : u[n] = s[n]
      /\ \A n \in 1..(Len(s) - p) : v[n] = s[p + n]
  BY <1>1
<1>3. r = u \o v
  BY DEF RemoveAt
<1> HIDE DEF u, v
<1>4. /\ r \in Seq(S) /\ Len(r) = Len(u) + Len(v)
      /\ \A n \in 1..Len(r) : r[n] = IF n <= Len(u) THEN u[n] ELSE v[n - Len(u)]
  <2>1. u \in Seq(S) /\ v \in Seq(S)
    BY <1>2
  <2> QED BY <1>3, <2>1
<1>5. Len(r) = Len(s) - 1
  BY <1>1, <1>2, <1>4
<1>6. ASSUME NEW n \in 1..Len(r) PROVE At(n) \in 1..Len(s) /\ At(n) # p /\ r[n] = s[At(n)]
  <2>1. CASE n < p
    <3>1. n \in 1..(p - 1) /\ n <= Len(u)
      BY <1>1, <1>2, <2>1
    <3> QED BY <1>1, <1>2, <1>4, <2>1, <3>1
  <2>2. CASE ~(n < p)
    <3>1. ~(n <= Len(u)) /\ n - Len(u) \in 1..(Len(s) - p) /\ p + (n - Len(u)) = n + 1
      BY <1>1, <1>2, <1>5, <2>2
    <3>2. r[n] = s[n + 1]
      BY <1>2, <1>4, <3>1
    <3> QED BY <1>1, <1>5, <2>2, <3>2
  <2> QED BY <2>1, <2>2
<1>7. ASSUME NEW j \in 1..Len(s), j # p PROVE Of(j) \in 1..Len(r) /\ At(Of(j)) = j
  BY <1>1, <1>5, <1>7
<1> HIDE DEF At, Of
<1>8. ASSUME NEW j \in 1..Len(s), j # p PROVE \E i \in 1..Len(r) : r[i] = s[j]
  BY <1>6, <1>7, <1>8
<1> QED
  BY <1>4, <1>5, <1>6, <1>8 DEF Rest

(* What an answer takes away, and what a request adds. *)
Leaves(r, c) ==
  /\ r \in Seq(CallSet) /\ Len(r) < MaxCalls
  /\ Elems(r) \subseteq InFlight /\ InFlight \subseteq Elems(r) \cup {c}

LEMMA Answering ==
  ASSUME Typed, NEW i \in 1..Len(calls), NEW r, r = RemoveAt(calls, i)
  PROVE  Leaves(r, calls[i])
<1>1. calls \in Seq(CallSet) /\ Len(calls) <= MaxCalls /\ MaxCalls \in Nat /\ Len(calls) \in Nat
  BY ListsAssumption DEF Typed
<1>2. r \in Seq(CallSet) /\ Rest(r, calls, i)
  BY <1>1, RemoveIs
<1>3. Len(r) < MaxCalls
  BY <1>1, <1>2 DEF Rest
<1>4. ASSUME NEW x \in Elems(r) PROVE x \in InFlight
  <2>1. PICK j \in 1..Len(r) : x = r[j]
    BY DEF Elems
  <2>2. PICK k \in 1..Len(calls) : r[j] = calls[k]
    BY <1>2, <2>1 DEF Rest
  <2> QED BY <2>1, <2>2 DEF InFlight, Elems
<1>5. ASSUME NEW x \in InFlight, x # calls[i] PROVE x \in Elems(r)
  <2>1. PICK k \in 1..Len(calls) : x = calls[k]
    BY DEF InFlight, Elems
  <2>2. PICK j \in 1..Len(r) : r[j] = calls[k]
    BY <1>2, <1>5, <2>1 DEF Rest
  <2> QED BY <2>1, <2>2 DEF Elems
<1> QED
  BY <1>2, <1>3, <1>4, <1>5 DEF Leaves

LEMMA Asking ==
  ASSUME NEW s \in Seq(CallSet), NEW c \in CallSet
  PROVE  /\ Append(s, c) \in Seq(CallSet) /\ Len(Append(s, c)) = Len(s) + 1
         /\ Elems(Append(s, c)) = Elems(s) \cup {c}
<1> DEFINE r == Append(s, c)
<1>1. /\ r \in Seq(CallSet) /\ Len(r) = Len(s) + 1 /\ Len(s) \in Nat /\ r[Len(s) + 1] = c
      /\ \A j \in 1..Len(s) : r[j] = s[j]
      /\ \A j \in 1..(Len(s) + 1) : j \in 1..Len(s) \/ j = Len(s) + 1
      /\ \A j \in 1..Len(s) : j \in 1..(Len(s) + 1)
      /\ Len(s) + 1 \in 1..(Len(s) + 1)
  OBVIOUS
<1> HIDE DEF r
<1>2. {r[j] : j \in 1..Len(r)} = {s[j] : j \in 1..Len(s)} \cup {c}
  <2>1. ASSUME NEW x \in {r[j] : j \in 1..Len(r)} PROVE x \in {s[j] : j \in 1..Len(s)} \cup {c}
    BY <1>1
  <2>2. ASSUME NEW x \in {s[j] : j \in 1..Len(s)} PROVE x \in {r[j] : j \in 1..Len(r)}
    BY <1>1
  <2>3. c \in {r[j] : j \in 1..Len(r)}
    BY <1>1
  <2> QED BY <2>1, <2>2, <2>3
<1> QED
  BY <1>1, <1>2 DEF r, Elems

-----------------------------------------------------------------------------
(* What the server answers. *)

LEMMA ListedTyped ==
  ASSUME Typed, NEW q
  PROVE  /\ Listed(q) \subseteq Row
         /\ Matching(q) \subseteq Ids
         /\ Cardinality(Matching(q)) \in 0..Cardinality(Ids)
<1>1. Matching(q) \subseteq Ids /\ \A i \in Matching(q) : store[i] # "gone"
  BY DEF Matching
<1>2. Cardinality(Matching(q)) \in 0..Cardinality(Ids)
  <2>1. IsFiniteSet(Ids)
    BY ListsAssumption
  <2>2. IsFiniteSet(Matching(q)) /\ Cardinality(Matching(q)) <= Cardinality(Ids)
    BY <1>1, <2>1, FS_Subset
  <2>3. Cardinality(Matching(q)) \in Nat /\ Cardinality(Ids) \in Nat
    BY <2>1, <2>2, FS_CardinalityType
  <2> QED BY <2>2, <2>3
<1>3. store \in [Ids -> Tags \cup {"gone"}] /\ (screen = "dashboard" => store \in [Ids -> Tags])
  BY DEF Typed, StoredTags, Tags, Screens
<1>4. ASSUME screen = "dashboard" PROVE Listed(q) \subseteq Row
  BY <1>3, <1>4 DEF Listed, Row
<1>5. ASSUME screen \notin {"cache", "dashboard"} PROVE Listed(q) \subseteq Row
  <2>1. Listed(q) = LinksListed(q)
    BY <1>5 DEF Listed
  <2>2. \A r \in LinksListed(q) : \E i \in Matching(q) : r = [id |-> i, tag |-> store[i]]
    BY DEF LinksListed
  <2> QED BY <1>1, <1>3, <2>1, <2>2 DEF Row
<1>6. ASSUME screen = "cache" PROVE Listed(q) \subseteq Row
  BY <1>6 DEF Listed
<1> QED
  BY <1>1, <1>2, <1>4, <1>5, <1>6

LEMMA ListedSame ==
  ASSUME UNCHANGED <<screen, store>>, NEW q
  PROVE  Listed(q)' = Listed(q) /\ Matching(q)' = Matching(q)
  BY DEF Listed, LinksListed, Matching, PageSize

LEMMA RightStays ==
  ASSUME UNCHANGED <<screen, store>>, NEW c, Right(c)
  PROVE  Right(c)'
  BY ListedSame DEF Right

LEMMA FetchTyped == \A q \in Query : Fetch(q) \in CallSet /\ Right(Fetch(q))
<1> SUFFICES ASSUME NEW q \in Query PROVE Fetch(q) \in CallSet /\ Right(Fetch(q))
  OBVIOUS
<1>1. Cardinality(Ids) \in Nat
  BY ListsAssumption, FS_CardinalityType
<1>2. Fetch(q) \in FetchCall
  BY <1>1 DEF Fetch, FetchCall, Phases
<1>3. Right(Fetch(q))
  BY DEF Fetch, Right
<1> QED
  BY <1>2, <1>3 DEF CallSet

-----------------------------------------------------------------------------
LEMMA InitInv == Init => Inv
<1> SUFFICES ASSUME Init PROVE Inv
  OBVIOUS
<1> DEFINE c == Fetch(AllItems)
<1>1. AllItems \in Query /\ AllItems.tag = "all"
  BY ListsAssumption DEF AllItems, Query
<1>2. c \in CallSet /\ Right(c) /\ c.op = "fetch"
  BY <1>1, FetchTyped DEF Fetch
<1> HIDE DEF c
<1>3. calls = <<c>>
  BY DEF Init, c
<1>4. calls \in Seq(CallSet) /\ Len(calls) = 1 /\ InFlight = {c}
  BY <1>2, <1>3 DEF InFlight, Elems
<1>5. 1 <= MaxCalls /\ Cardinality(Ids) \in Nat
  BY ListsAssumption, FS_CardinalityType
<1>6. Typed
  <2>1. 0 \in 0..Cardinality(Ids) /\ Len(calls) <= MaxCalls
    BY <1>4, <1>5
  <2>2. screen \in Screens /\ store \in [Ids -> StoredTags(screen)] /\ query \in Query
        /\ rows \subseteq Row /\ total \in 0..Cardinality(Ids)
    BY <1>1, <2>1 DEF Init
  <2>3. loading \in BOOLEAN /\ failed \in BOOLEAN /\ clearing \in BOOLEAN
        /\ disordered \in BOOLEAN /\ outdated \in BOOLEAN
    BY DEF Init
  <2> QED BY <1>4, <2>1, <2>2, <2>3 DEF Typed
<1>7. Waits /\ Synced
  BY <1>2, <1>4 DEF Init, Waits, Synced
<1> QED
  BY <1>2, <1>4, <1>6, <1>7 DEF Inv

(* A page that starts a fetch shows what the answer will bring. *)
LEMMA StartFetchKeeps ==
  ASSUME Inv, NEW q \in Query, NEW others \in Seq(CallSet), Len(others) < MaxCalls,
         Elems(others) \subseteq InFlight, StartFetch(q, others),
         UNCHANGED <<screen, store>>, query' \in Query, rows' \subseteq Row,
         total' \in 0..Cardinality(Ids), clearing' \in BOOLEAN,
         clearing' => \E c \in Elems(others) : c.op = "clear"
  PROVE  Inv'
<1> DEFINE f == Fetch(q)
<1>1. f \in CallSet /\ Right(f) /\ f.op = "fetch"
  BY FetchTyped DEF Fetch
<1>2. calls' = Append(others, f) /\ loading' = TRUE /\ failed' = FALSE
      /\ disordered' = FALSE /\ outdated' = FALSE
  BY DEF StartFetch
<1> HIDE DEF f
<1>3. /\ calls' \in Seq(CallSet) /\ Len(calls') = Len(others) + 1
      /\ InFlight' = Elems(others) \cup {f}
  BY <1>1, <1>2, Asking DEF InFlight
<1>4. Len(calls') <= MaxCalls
  <2>1. Len(others) \in Nat /\ MaxCalls \in Nat
    BY ListsAssumption
  <2> QED BY <1>3, <2>1
<1>5. Typed'
  BY <1>2, <1>3, <1>4 DEF Inv, Typed
<1>6. ASSUME NEW c \in InFlight' PROVE Right(c)'
  <2>1. Right(c)
    BY <1>1, <1>3 DEF Inv
  <2> QED BY <2>1, RightStays
<1>7. Waits'
  BY <1>1, <1>2, <1>3 DEF Waits
<1>8. Synced'
  BY <1>2 DEF Synced
<1> QED
  BY <1>5, <1>6, <1>7, <1>8 DEF Inv

LEMMA RefetchKeeps ==
  ASSUME Inv, HasRoom, NEW q \in Query, StartFetch(q, calls), query' = q,
         UNCHANGED <<screen, store, rows, total, clearing>>
  PROVE  Inv'
<1>1. calls \in Seq(CallSet) /\ Len(calls) < MaxCalls /\ Elems(calls) \subseteq InFlight
      /\ rows \subseteq Row /\ total \in 0..Cardinality(Ids) /\ clearing \in BOOLEAN
  BY DEF Inv, Typed, HasRoom, InFlight
<1>2. clearing' => \E c \in Elems(calls) : c.op = "clear"
  BY DEF Inv, Waits, InFlight
<1> QED
  BY <1>1, <1>2, StartFetchKeeps

LEMMA RemountKeeps ==
  ASSUME Inv, Remount
  PROVE  Inv'
<1>1. AllItems \in Query
  BY ListsAssumption DEF AllItems, Query
<1>2. << >> \in Seq(CallSet) /\ Len(<< >>) = 0 /\ Elems(<< >>) = {}
  BY DEF Elems
<1>3. 0 < MaxCalls /\ 0 \in 0..Cardinality(Ids)
  BY ListsAssumption, FS_CardinalityType
<1> QED
  BY <1>1, <1>2, <1>3, StartFetchKeeps DEF Remount

(* A filter or a page number that the page can ask for. *)
LEMMA RequeryKeeps ==
  ASSUME Inv, NEW q \in Query, Requery(q)
  PROVE  Inv'
  BY RefetchKeeps DEF Requery

LEMMA TurnKeeps ==
  ASSUME Inv, NEW p \in Nat, p \in 1..TotalPages \/ (p = query.page - 1 /\ p >= 1),
         Requery([query EXCEPT !.page = p])
  PROVE  Inv'
<1>1. p \in Nat \ {0}
  OBVIOUS
<1>2. [query EXCEPT !.page = p] \in Query
  BY <1>1 DEF Inv, Typed, Query
<1> QED
  BY <1>2, RequeryKeeps

LEMMA FilterKeeps ==
  ASSUME Inv, NEW t \in Filters, Requery([tag |-> t, page |-> 1])
  PROVE  Inv'
<1>1. [tag |-> t, page |-> 1] \in Query
  BY DEF Query
<1> QED
  BY <1>1, RequeryKeeps

LEMMA ResetKeeps == Inv /\ LogsReset => Inv'
<1>1. AllItems \in Query
  BY ListsAssumption DEF AllItems, Query
<1> QED
  BY <1>1, RequeryKeeps DEF LogsReset

LEMMA RefreshKeeps == Inv /\ Refetch => Inv'
  BY RefetchKeeps DEF Refetch, Inv, Typed

(* A change that is asked for disturbs nothing yet. *)
LEMMA SendKeeps ==
  ASSUME Inv, NEW c \in CallSet, Right(c), c.phase = "sent", Send(c),
         clearing' \in BOOLEAN, clearing' => clearing \/ c.op = "clear"
  PROVE  Inv'
<1>1. /\ calls \in Seq(CallSet) /\ Len(calls) < MaxCalls /\ calls' = Append(calls, c)
      /\ UNCHANGED <<screen, store, query, rows, total, loading, failed, disordered, outdated>>
  BY DEF Inv, Typed, Send, HasRoom, history
<1>2. /\ calls' \in Seq(CallSet) /\ Len(calls') = Len(calls) + 1
      /\ InFlight' = InFlight \cup {c}
  BY <1>1, Asking DEF InFlight
<1>3. Len(calls') <= MaxCalls
  <2>1. Len(calls) \in Nat /\ MaxCalls \in Nat
    BY <1>1, ListsAssumption
  <2> QED BY <1>1, <1>2, <2>1
<1>4. Typed'
  BY <1>1, <1>2, <1>3 DEF Inv, Typed
<1>5. ASSUME NEW d \in InFlight' PROVE Right(d)'
  <2>1. Right(d)
    BY <1>2 DEF Inv
  <2> QED BY <1>1, <2>1, RightStays
<1>6. Waits'
  BY <1>1, <1>2 DEF Inv, Waits
<1>7. Synced'
  <2>1. \A ops : Pending(ops)' = Pending(ops)
    BY <1>2 DEF Pending
  <2>2. Listed(query)' = Listed(query) /\ Matching(query)' = Matching(query)
    BY <1>1, ListedSame
  <2> QED BY <1>1, <2>1, <2>2 DEF Inv, Synced
<1> QED
  BY <1>4, <1>5, <1>6, <1>7 DEF Inv

LEMMA ToggleKeeps ==
  ASSUME Inv, NEW r \in rows, ToggleEnable(r)
  PROVE  Inv'
<1> DEFINE x == [r EXCEPT !.tag = Flip(r.tag)]
           c == Change("toggle", x, rows)
<1>1. r \in Row /\ rows \subseteq Row /\ query \in Query /\ clearing \in BOOLEAN
  BY DEF Inv, Typed
<1>2. x \in [id : Ids, tag : Tags]
  BY <1>1 DEF Row, Tags, Flip
<1>3. x.id \in Nat /\ x.id \in Ids /\ x.tag \in Tags /\ x \in [id : Nat, tag : Tags \cup {"gone"}]
  BY <1>2, ListsAssumption
<1> HIDE DEF x
<1>4. c \in ChangeCall
  BY <1>1, <1>3 DEF Change, ChangeCall, Phases
<1>5. Right(c) /\ c.phase = "sent" /\ c.op = "toggle"
  BY <1>3 DEF Change, Right, ToggleEnable
<1>6. Send(c) /\ clearing' = clearing
  BY DEF ToggleEnable, x
<1> HIDE DEF c
<1> QED
  BY <1>1, <1>4, <1>5, <1>6, SendKeeps DEF CallSet

LEMMA DeleteKeeps ==
  ASSUME Inv, NEW r \in rows, Delete(r)
  PROVE  Inv'
<1> DEFINE x == [r EXCEPT !.tag = "gone"]
           c == Change("delete", x, {})
<1>1. r \in Row /\ query \in Query /\ clearing \in BOOLEAN
  BY DEF Inv, Typed
<1>2. x \in [id : Ids, tag : {"gone"}]
  BY <1>1 DEF Row
<1>3. x.id \in Nat /\ x.id \in Ids /\ x.tag = "gone" /\ x \in [id : Nat, tag : Tags \cup {"gone"}]
  BY <1>2, ListsAssumption
<1> HIDE DEF x
<1>4. c \in ChangeCall
  BY <1>1, <1>3 DEF Change, ChangeCall, Phases
<1>5. Right(c) /\ c.phase = "sent" /\ c.op = "delete"
  BY <1>3 DEF Change, Right, Delete
<1>6. Send(c) /\ clearing' = clearing
  BY DEF Delete, x
<1> HIDE DEF c
<1> QED
  BY <1>1, <1>4, <1>5, <1>6, SendKeeps DEF CallSet

LEMMA ClearAllKeeps ==
  ASSUME Inv, ClearAll
  PROVE  Inv'
<1> DEFINE c == Change("clear", [id |-> 0, tag |-> "gone"], {})
<1>1. query \in Query
  BY DEF Inv, Typed
<1>2. c \in ChangeCall
  BY <1>1 DEF Change, ChangeCall, Phases
<1>3. Right(c) /\ c.phase = "sent" /\ c.op = "clear"
  BY DEF Change, Right, ClearAll, CacheShown
<1>4. Send(c) /\ clearing' = TRUE
  BY DEF ClearAll
<1> HIDE DEF c
<1> QED
  BY <1>2, <1>3, <1>4, SendKeeps DEF CallSet

-----------------------------------------------------------------------------
(* The server handles one request: c becomes f. *)
Replaces(f, c) ==
  /\ calls' \in Seq(CallSet) /\ Len(calls') = Len(calls)
  /\ InFlight' \subseteq InFlight \cup {f}
  /\ InFlight \subseteq InFlight' \cup {c}
  /\ f \in InFlight'

LEMMA Replacing ==
  ASSUME Typed, NEW i \in 1..Len(calls), NEW f \in CallSet, calls' = [calls EXCEPT ![i] = f]
  PROVE  Replaces(f, calls[i])
<1>1. /\ calls' \in Seq(CallSet) /\ Len(calls') = Len(calls) /\ calls'[i] = f
      /\ \A j \in 1..Len(calls) : j # i => calls'[j] = calls[j]
  BY DEF Typed
<1>2. ASSUME NEW x \in InFlight' PROVE x \in InFlight \cup {f}
  <2>1. PICK j \in 1..Len(calls) : x = calls'[j]
    BY <1>1 DEF InFlight, Elems
  <2> QED BY <1>1, <2>1 DEF InFlight, Elems
<1>3. ASSUME NEW x \in InFlight, x # calls[i] PROVE x \in InFlight'
  <2>1. PICK j \in 1..Len(calls) : x = calls[j]
    BY DEF InFlight, Elems
  <2>2. j # i
    BY <1>3, <2>1
  <2> QED BY <1>1, <2>1, <2>2 DEF InFlight, Elems
<1>4. f \in InFlight'
  BY <1>1 DEF InFlight, Elems
<1> QED
  BY <1>1, <1>2, <1>3, <1>4 DEF Replaces

(* Handling a request that changes nothing at the server. *)
LEMMA ServedKeeps ==
  ASSUME Inv, NEW i \in 1..Len(calls), NEW f \in CallSet, calls' = [calls EXCEPT ![i] = f],
         UNCHANGED <<screen, store, state, history>>, Right(f), f.op = calls[i].op,
         f.op = "fetch" \/ (f.phase # "ok" /\ calls[i].phase # "ok")
  PROVE  Inv'
<1>1. Replaces(f, calls[i])
  BY Replacing DEF Inv
<1>2. UNCHANGED <<screen, store, query, rows, total, loading, failed, clearing,
                  disordered, outdated>>
  BY DEF state, history
<1>3. Typed'
  BY <1>1, <1>2 DEF Inv, Typed, Replaces
<1>4. ASSUME NEW c \in InFlight' PROVE Right(c)'
  <2>1. Right(c)
    BY <1>1 DEF Inv, Replaces
  <2> QED BY <1>2, <2>1, RightStays
<1>5. Waits'
  BY <1>1, <1>2 DEF Inv, Waits, Replaces
<1>6. Synced'
  <2>1. \A ops : "fetch" \notin ops => Pending(ops)' = Pending(ops)
    <3> SUFFICES ASSUME NEW ops, "fetch" \notin ops PROVE Pending(ops)' = Pending(ops)
      OBVIOUS
    <3>1. ASSUME NEW c, c.op \in ops, c.phase = "ok" PROVE c # f /\ c # calls[i]
      BY <3>1
    <3>2. ASSUME NEW c \in Pending(ops)' PROVE c \in Pending(ops)
      BY <1>1, <3>1, <3>2 DEF Pending, Replaces
    <3>3. ASSUME NEW c \in Pending(ops) PROVE c \in Pending(ops)'
      BY <1>1, <3>1, <3>3 DEF Pending, Replaces
    <3> QED BY <3>2, <3>3
  <2>2. Pending({"toggle"})' = Pending({"toggle"})
        /\ Pending({"delete", "clear"})' = Pending({"delete", "clear"})
    BY <2>1
  <2>3. Listed(query)' = Listed(query) /\ Matching(query)' = Matching(query)
    BY <1>2, ListedSame
  <2> QED BY <1>2, <2>2, <2>3 DEF Inv, Synced
<1> QED
  BY <1>3, <1>4, <1>5, <1>6 DEF Inv

LEMMA ServeFetchKeeps ==
  ASSUME Inv, NEW i \in 1..Len(calls), ServeFetch(i), UNCHANGED <<screen, state, history>>
  PROVE  Inv'
<1> DEFINE c == calls[i]
           q == c.query
           f == [c EXCEPT !.phase = "ok", !.rows = Listed(q),
                          !.total = Cardinality(Matching(q)), !.fresh = TRUE]
<1>1. c \in CallSet /\ c.op = "fetch"
  BY DEF Inv, Typed, ServeFetch, IsFetch
<1>2. c \in FetchCall
  BY <1>1 DEF CallSet, ChangeCall
<1>3. Listed(q) \subseteq Row /\ Cardinality(Matching(q)) \in 0..Cardinality(Ids)
  BY ListedTyped DEF Inv
<1>4. calls' = [calls EXCEPT ![i] = f] /\ store' = store
  BY DEF ServeFetch
<1>5. f \in FetchCall /\ f.op = "fetch" /\ f.query = q /\ f.rows = Listed(q)
      /\ f.total = Cardinality(Matching(q))
  BY <1>2, <1>3 DEF FetchCall, Phases
<1> HIDE DEF f
<1>6. Right(f)
  BY <1>5 DEF Right
<1>7. f \in CallSet
  BY <1>5 DEF CallSet
<1> QED
  BY <1>1, <1>4, <1>5, <1>6, <1>7, ServedKeeps

LEMMA RefuseKeeps ==
  ASSUME Inv, NEW i \in 1..Len(calls), calls[i].phase = "sent", Refuse(i),
         UNCHANGED <<screen, state, history>>
  PROVE  Inv'
<1> DEFINE c == calls[i]
           f == [c EXCEPT !.phase = "refused"]
<1>1. c \in CallSet /\ c.op \in {"toggle", "delete"} /\ Right(c)
  BY DEF Inv, Typed, Refuse, InFlight, Elems
<1>2. c \in ChangeCall
  BY <1>1 DEF CallSet, FetchCall
<1>3. calls' = [calls EXCEPT ![i] = f] /\ store' = store
  BY DEF Refuse
<1>4. f \in ChangeCall /\ f.op = c.op /\ f.row = c.row /\ f.phase = "refused"
  BY <1>2 DEF ChangeCall, Phases
<1> HIDE DEF f
<1>5. Right(f)
  BY <1>1, <1>4 DEF Right
<1>6. f \in CallSet
  BY <1>4 DEF CallSet
<1> QED
  BY <1>3, <1>4, <1>5, <1>6, ServedKeeps

(* What a change leaves of a request that it makes out of date. *)
Outdated(x, c, id) ==
  /\ x \in CallSet /\ x.op = c.op /\ x.phase = c.phase
  /\ c.op # "fetch" => x.row = c.row
  /\ x.fresh => x = c /\ c.op # "fetch" /\ c.row.id # id

LEMMA Outdating ==
  ASSUME Typed, NEW id
  PROVE  /\ Outdate(calls, id) \in Seq(CallSet) /\ Len(Outdate(calls, id)) = Len(calls)
         /\ \A i \in 1..Len(calls) : Outdated(Outdate(calls, id)[i], calls[i], id)
<1> DEFINE o == Outdate(calls, id)
<1>1. calls \in Seq(CallSet) /\ DOMAIN calls = 1..Len(calls) /\ Len(calls) \in Nat
  BY DEF Typed
<1>2. ASSUME NEW i \in 1..Len(calls) PROVE Outdated(o[i], calls[i], id)
  <2> DEFINE c == calls[i]
             d == [c EXCEPT !.fresh = FALSE]
  <2>1. c \in CallSet
    BY <1>1
  <2>2. o[i] = IF c.op = "fetch" \/ c.row.id = id THEN d ELSE c
    BY <1>1 DEF Outdate, IsFetch
  <2> HIDE DEF o, c
  <2>3. CASE c \in FetchCall
    <3>1. d \in FetchCall /\ d.op = c.op /\ d.phase = c.phase /\ d.fresh = FALSE /\ c.op = "fetch"
      BY <2>3 DEF FetchCall
    <3> QED BY <2>2, <3>1 DEF Outdated, CallSet, c
  <2>4. CASE c \in ChangeCall
    <3>1. /\ d \in ChangeCall /\ d.op = c.op /\ d.phase = c.phase /\ d.fresh = FALSE
          /\ d.row = c.row /\ c.op # "fetch"
      BY <2>4 DEF ChangeCall
    <3> HIDE DEF d
    <3>2. CASE c.row.id = id
      BY <2>2, <3>1, <3>2 DEF Outdated, CallSet, c
    <3>3. CASE c.row.id # id
      BY <2>1, <2>2, <3>1, <3>3 DEF Outdated, c
    <3> QED BY <3>2, <3>3
  <2> QED BY <2>1, <2>3, <2>4 DEF CallSet
<1>3. o = [i \in 1..Len(calls) |-> o[i]] /\ \A i \in 1..Len(calls) : o[i] \in CallSet
  BY <1>1, <1>2 DEF Outdate, Outdated
<1> HIDE DEF o
<1>4. o \in Seq(CallSet) /\ Len(o) = Len(calls)
  BY <1>1, <1>3
<1> QED
  BY <1>2, <1>4 DEF o

LEMMA OutdatedRight ==
  ASSUME NEW c, Right(c), NEW id, NEW x, Outdated(x, c, id), screen' = screen,
         screen = "links" => \A j \in Ids : j # id => store'[j] = store[j]
  PROVE  Right(x)'
<1>1. ~(x.op = "fetch" /\ x.fresh)
  BY DEF Outdated
<1>2. x.op = c.op /\ (c.op # "fetch" => x.row = c.row)
  BY DEF Outdated
<1>3. ASSUME x.op = "toggle", x.phase = "ok", x.fresh PROVE store'[x.row.id] = x.row.tag
  <2>1. x = c /\ c.row.id # id
    BY <1>3 DEF Outdated
  <2>2. screen = "links" /\ c.row.id \in Ids /\ store[c.row.id] = c.row.tag
    BY <1>3, <2>1 DEF Right
  <2> QED BY <2>1, <2>2
<1> QED
  BY <1>1, <1>2, <1>3 DEF Right

LEMMA OtherChangeKeeps ==
  ASSUME Inv, NEW i \in Ids, NEW t \in Tags \cup {"gone"}, OtherChange(i, t)
  PROVE  Inv'
<1>1. /\ calls' = Outdate(calls, i) /\ outdated' = TRUE /\ store' = [store EXCEPT ![i] = t]
      /\ t \in StoredTags(screen)
      /\ UNCHANGED <<screen, query, rows, total, loading, failed, clearing, disordered>>
  BY DEF OtherChange, state
<1>2. /\ calls' \in Seq(CallSet) /\ Len(calls') = Len(calls)
      /\ \A j \in 1..Len(calls) : Outdated(calls'[j], calls[j], i)
  BY <1>1, Outdating DEF Inv
<1>3. store' \in [Ids -> StoredTags(screen)] /\ \A j \in Ids : j # i => store'[j] = store[j]
  BY <1>1 DEF Inv, Typed
<1>4. Typed'
  BY <1>1, <1>2, <1>3 DEF Inv, Typed, StoredTags
<1>5. ASSUME NEW x \in InFlight' PROVE Right(x)'
  <2>1. PICK j \in 1..Len(calls) : x = calls'[j]
    BY <1>2 DEF InFlight, Elems
  <2>2. Right(calls[j]) /\ Outdated(x, calls[j], i)
    BY <1>2, <2>1 DEF Inv, InFlight, Elems
  <2> QED BY <1>1, <1>3, <2>2, OutdatedRight
<1>6. Waits'
  <2>1. ASSUME NEW c \in InFlight PROVE \E x \in InFlight' : x.op = c.op
    BY <1>2 DEF InFlight, Elems, Outdated
  <2> QED BY <1>1, <2>1 DEF Inv, Waits
<1>7. Synced'
  BY <1>1 DEF Synced
<1> QED
  BY <1>4, <1>5, <1>6, <1>7 DEF Inv

(* What the i-th request is once it was handled, and what the others are. *)
LEMMA ServeChangeCalls ==
  ASSUME Inv, NEW i \in 1..Len(calls), calls[i].phase = "sent", ServeChange(i), screen' = screen
  PROVE  /\ calls' \in Seq(CallSet) /\ Len(calls') = Len(calls)
         /\ \A j \in 1..Len(calls) : j # i => Outdated(calls'[j], calls[j], calls[i].row.id)
         /\ calls'[i].op = calls[i].op /\ calls'[i].row = calls[i].row /\ calls'[i].phase = "ok"
<1> DEFINE c == calls[i]
           id == c.row.id
           o == Outdate(calls, id)
           f == [o[i] EXCEPT !.phase = "ok", !.fresh = TRUE]
<1>1. /\ o \in Seq(CallSet) /\ Len(o) = Len(calls)
      /\ \A j \in 1..Len(calls) : Outdated(o[j], calls[j], id)
  BY Outdating DEF Inv
<1>2. calls' = [o EXCEPT ![i].phase = "ok", ![i].fresh = TRUE] /\ c.op # "fetch"
  BY DEF ServeChange, IsFetch
<1> HIDE DEF o
<1>3. o[i] \in CallSet /\ o[i].op = c.op /\ o[i].row = c.row
  BY <1>1, <1>2 DEF Outdated
<1>4. o[i] \in ChangeCall
  BY <1>2, <1>3 DEF CallSet, FetchCall
<1>5. f \in ChangeCall /\ f.op = o[i].op /\ f.row = o[i].row /\ f.phase = "ok"
  BY <1>4 DEF ChangeCall, Phases
<1>6. calls' = [o EXCEPT ![i] = f]
  BY <1>1, <1>2
<1> HIDE DEF f
<1>7. f \in CallSet
  BY <1>5 DEF CallSet
<1>8. /\ calls' \in Seq(CallSet) /\ Len(calls') = Len(calls) /\ calls'[i] = f
      /\ \A j \in 1..Len(calls) : j # i => calls'[j] = o[j]
  BY <1>1, <1>6, <1>7
<1> QED
  BY <1>1, <1>3, <1>5, <1>8

LEMMA ServeChangeStore ==
  ASSUME Inv, NEW i \in 1..Len(calls), ServeChange(i)
  PROVE  LET c == calls[i] IN
         /\ store' \in [Ids -> StoredTags(screen)]
         /\ screen = "links" =>
              /\ c.op \in {"toggle", "delete"} /\ c.row.id \in Ids
              /\ store[c.row.id] # "gone" /\ store'[c.row.id] = c.row.tag
              /\ \A j \in Ids : j # c.row.id => store'[j] = store[j]
<1> DEFINE c == calls[i]
<1>1. c \in CallSet /\ Right(c) /\ c.op # "fetch"
  BY DEF Inv, Typed, InFlight, Elems, ServeChange, IsFetch
<1>2. c.op \in {"toggle", "delete", "clear"}
  BY <1>1 DEF CallSet, FetchCall, ChangeCall
<1>3. /\ c.op \in {"toggle", "delete"} => store[c.row.id] # "gone"
      /\ store' = IF c.op = "clear" THEN [j \in Ids |-> "gone"]
                  ELSE [store EXCEPT ![c.row.id] = c.row.tag]
  BY DEF ServeChange
<1>4. store \in [Ids -> StoredTags(screen)]
  BY DEF Inv, Typed
<1> HIDE DEF c
<1>5. CASE c.op = "clear"
  BY <1>1, <1>3, <1>5 DEF Right, StoredTags, c
<1>6. CASE c.op \in {"toggle", "delete"}
  <2>1. screen = "links" /\ c.row.id \in Ids /\ c.row.tag \in Tags \cup {"gone"}
    BY <1>1, <1>6 DEF Right
  <2>2. StoredTags(screen) = Tags \cup {"gone"}
    BY <2>1 DEF StoredTags
  <2>3. store' = [store EXCEPT ![c.row.id] = c.row.tag] /\ store[c.row.id] # "gone"
    BY <1>3, <1>6
  <2> QED BY <1>4, <1>6, <2>1, <2>2, <2>3 DEF c
<1> QED
  BY <1>2, <1>5, <1>6

(* What is asked for without a filter: the links that exist, by their ids. *)
There == {i \in Ids : store[i] # "gone"}
OnPage(m, q) ==
  {i \in m : (Cardinality({j \in m : j >= i}) + PageSize - 1) \div PageSize = q.page}
AllById(q) == Matching(q) = There /\ {r.id : r \in Listed(q)} = OnPage(There, q)

ListedById == \A q : q.tag = "all" /\ screen = "links" => AllById(q)

LEMMA AllIdsListed == ListedById
<1> SUFFICES ASSUME NEW q, q.tag = "all", screen = "links" PROVE AllById(q)
  BY DEF ListedById
<1> DEFINE F == OnPage(Matching(q), q)
<1>1. Matching(q) = There
  BY DEF Matching, There
<1>2. Listed(q) = {[id |-> i, tag |-> store[i]] : i \in F}
  BY DEF Listed, LinksListed, OnPage
<1> HIDE DEF F
<1>3. ASSUME NEW n \in F PROVE n \in {r.id : r \in Listed(q)}
  <2>1. [id |-> n, tag |-> store[n]] \in Listed(q)
    BY <1>2, <1>3
  <2> QED BY <2>1
<1>4. ASSUME NEW r \in Listed(q) PROVE r.id \in F
  BY <1>2, <1>4
<1>5. {r.id : r \in Listed(q)} = F
  BY <1>3, <1>4
<1> QED
  BY <1>1, <1>5 DEF AllById, F

LEMMA ToggleServed ==
  ASSUME screen = "links", screen' = screen, NEW id, NEW q, q.tag = "all",
         store[id] # "gone", store'[id] # "gone",
         \A j \in Ids : j # id => store'[j] = store[j]
  PROVE  /\ Matching(q)' = Matching(q)
         /\ {r.id : r \in Listed(q)'} = {r.id : r \in Listed(q)}
<1>1. AllById(q)
  BY AllIdsListed DEF ListedById
<1>3. ListedById'
  BY AllIdsListed, PTL
<1>4. AllById(q)'
  BY <1>3 DEF ListedById
<1>5. There' = There
  BY DEF There
<1>6. OnPage(There, q)' = OnPage(There, q)
  BY <1>5 DEF OnPage, PageSize
<1> QED
  BY <1>1, <1>4, <1>5, <1>6 DEF AllById

LEMMA ServeChangeKeeps ==
  ASSUME Inv, NEW i \in 1..Len(calls), calls[i].phase = "sent", ServeChange(i),
         UNCHANGED <<screen, state, history>>
  PROVE  Inv'
<1> DEFINE c == calls[i]
           id == c.row.id
<1>1. UNCHANGED <<screen, query, rows, total, loading, failed, clearing, disordered, outdated>>
  BY DEF state, history
<1>2. /\ calls' \in Seq(CallSet) /\ Len(calls') = Len(calls)
      /\ \A j \in 1..Len(calls) : j # i => Outdated(calls'[j], calls[j], id)
      /\ calls'[i].op = c.op /\ calls'[i].row = c.row /\ calls'[i].phase = "ok"
  BY ServeChangeCalls
<1>3. /\ store' \in [Ids -> StoredTags(screen)]
      /\ screen = "links" =>
           /\ c.op \in {"toggle", "delete"} /\ id \in Ids
           /\ store[id] # "gone" /\ store'[id] = c.row.tag
           /\ \A j \in Ids : j # id => store'[j] = store[j]
  BY ServeChangeStore
<1>4. c \in InFlight /\ Right(c) /\ c.op # "fetch" /\ c.phase = "sent" /\ c \in CallSet
  BY DEF Inv, Typed, InFlight, Elems, ServeChange, IsFetch
<1> HIDE DEF c, id
<1>5. Typed'
  BY <1>1, <1>2, <1>3 DEF Inv, Typed, StoredTags
<1>6. ASSUME NEW x, NEW j \in 1..Len(calls), x = calls'[j] PROVE Right(x)'
  <2>1. CASE j = i
    <3>1. x.op = c.op /\ x.row = c.row /\ screen' = screen
      BY <1>1, <1>2, <1>6, <2>1
    <3>2. c.op = "toggle" => screen = "links" /\ store'[x.row.id] = x.row.tag
      BY <1>3, <1>4, <3>1 DEF Right, id
    <3> QED BY <1>4, <3>1, <3>2 DEF Right
  <2>2. CASE j # i
    <3> DEFINE d == calls[j]
    <3>1. Right(d) /\ Outdated(x, d, id)
      BY <1>2, <1>6, <2>2 DEF Inv, InFlight, Elems
    <3>2. screen = "links" => \A k \in Ids : k # id => store'[k] = store[k]
      BY <1>3
    <3> HIDE DEF d
    <3> QED BY <1>1, <3>1, <3>2, OutdatedRight
  <2> QED BY <2>1, <2>2
<1>7. ASSUME NEW x \in InFlight' PROVE Right(x)'
  <2>1. PICK j \in 1..Len(calls) : x = calls'[j]
    BY <1>2 DEF InFlight, Elems
  <2> QED BY <1>6, <2>1
<1>8. Waits'
  <2>1. ASSUME NEW j \in 1..Len(calls) PROVE calls'[j].op = calls[j].op
    BY <1>2 DEF Outdated, c
  <2>2. ASSUME NEW d \in InFlight PROVE \E x \in InFlight' : x.op = d.op
    BY <1>2, <2>1 DEF InFlight, Elems
  <2> QED BY <1>1, <2>2 DEF Inv, Waits
<1>9. ASSUME NEW ops, NEW d \in Pending(ops), c.op # "fetch", "fetch" \notin ops
      PROVE  \E x \in Pending(ops)' : x.row = d.row
  <2>1. PICK j \in 1..Len(calls) : d = calls[j] /\ d.op \in ops /\ d.phase = "ok"
    BY DEF Pending, InFlight, Elems
  <2>2. j # i
    BY <1>4, <2>1 DEF c
  <2>3. Outdated(calls'[j], d, id)
    BY <1>2, <2>1, <2>2
  <2>4. calls'[j].op \in ops /\ calls'[j].phase = "ok" /\ calls'[j].row = d.row
    BY <1>9, <2>1, <2>3 DEF Outdated
  <2> QED BY <1>2, <2>4 DEF Pending, InFlight, Elems
<1>10. c.op \notin {"toggle"} => Pending({"delete", "clear"})' # {}
  <2>1. c.op \in {"toggle", "delete", "clear"}
    BY <1>4 DEF CallSet, FetchCall, ChangeCall
  <2> QED BY <1>2, <2>1 DEF Pending, InFlight, Elems
<1>11. ASSUME c.op = "toggle" PROVE Synced'
  <2>1. screen = "links" /\ store'[id] # "gone" /\ store[id] # "gone" /\ id = c.row.id
        /\ \A j \in Ids : j # id => store'[j] = store[j]
    BY <1>3, <1>4, <1>11 DEF Right, Tags, id
  <2>2. SUFFICES ASSUME ~disordered', ~outdated', ~failed', ~loading',
                        Pending({"delete", "clear"})' = {}
                 PROVE  Synced'
    BY DEF Synced
  <2>3. Pending({"delete", "clear"}) = {}
    BY <1>4, <1>9, <2>2
  <2>4. /\ \A r \in rows : store[r.id] = r.tag \/ \E d \in Pending({"toggle"}) : d.row.id = r.id
        /\ query.tag = "all" => {r.id : r \in rows} = {r.id : r \in Listed(query)}
        /\ query.tag = "all" /\ screen # "dashboard" => total = Cardinality(Matching(query))
    BY <1>1, <2>2, <2>3 DEF Inv, Synced
  <2>5. ASSUME NEW r \in rows
        PROVE  store'[r.id] = r.tag \/ \E d \in Pending({"toggle"})' : d.row.id = r.id
    <3>1. r.id \in Ids
      BY DEF Inv, Typed, Row
    <3>2. CASE r.id = id
      <4>1. calls'[i] \in Pending({"toggle"})' /\ calls'[i].row.id = r.id
        BY <1>2, <1>11, <2>1, <3>2 DEF Pending, InFlight, Elems
      <4> QED BY <4>1
    <3>3. CASE r.id # id /\ store[r.id] = r.tag
      BY <2>1, <3>1, <3>3
    <3>4. CASE \E d \in Pending({"toggle"}) : d.row.id = r.id
      BY <1>4, <1>9, <3>4
    <3> QED BY <2>4, <3>2, <3>3, <3>4
  <2>6. query.tag = "all" => /\ Matching(query)' = Matching(query)
                             /\ {r.id : r \in Listed(query)'} = {r.id : r \in Listed(query)}
    <3>1. ASSUME NEW q, q = query, q.tag = "all"
          PROVE  /\ Matching(q)' = Matching(q)
                 /\ {r.id : r \in Listed(q)'} = {r.id : r \in Listed(q)}
      BY <1>1, <2>1, <3>1, ToggleServed
    <3> QED BY <1>1, <3>1
  <2> QED BY <1>1, <2>4, <2>5, <2>6 DEF Synced
<1>12. ASSUME c.op # "toggle" PROVE Synced'
  BY <1>10, <1>12 DEF Synced
<1> QED
  BY <1>5, <1>7, <1>8, <1>11, <1>12 DEF Inv
-----------------------------------------------------------------------------
(* The page goes on with the answer to its i-th request, or with its error. *)

Flags == {loading, failed, clearing, disordered, outdated} \subseteq BOOLEAN

LEMMA LeavingKeeps ==
  ASSUME Inv, NEW i \in 1..Len(calls), calls' = RemoveAt(calls, i),
         UNCHANGED <<screen, store, query>>, Flags',
         rows' \subseteq Row, total' \in 0..Cardinality(Ids),
         loading' => loading /\ calls[i].op # "fetch",
         clearing' => clearing /\ calls[i].op # "clear",
         Leaves(calls', calls[i]) => Synced'
  PROVE  Inv'
<1> DEFINE c == calls[i]
<1>1. Leaves(calls', c)
  BY Answering DEF Inv
<1> HIDE DEF c
<1>2. /\ calls' \in Seq(CallSet) /\ Len(calls') <= MaxCalls
      /\ InFlight' \subseteq InFlight /\ InFlight \subseteq InFlight' \cup {c}
  <2>1. \A n \in Nat : n < MaxCalls => n <= MaxCalls
    BY ListsAssumption
  <2> QED BY <1>1, <2>1 DEF Leaves, InFlight
<1>3. Typed'
  BY <1>2 DEF Inv, Typed, Flags
<1>4. ASSUME NEW d \in InFlight' PROVE Right(d)'
  BY <1>2, RightStays DEF Inv
<1>5. Waits'
  BY <1>2 DEF Inv, Waits, c
<1>6. Synced'
  BY <1>1 DEF c
<1> QED
  BY <1>3, <1>4, <1>5, <1>6 DEF Inv

(* The i-th request is of the screen that it was made on. *)
LEMMA AnsweredRight ==
  ASSUME Inv, NEW i \in 1..Len(calls)
  PROVE  /\ calls[i] \in CallSet /\ calls[i] \in InFlight /\ Right(calls[i])
         /\ calls[i].op = "fetch" => calls[i] \in FetchCall
         /\ calls[i].op # "fetch" => calls[i] \in ChangeCall
<1>1. calls[i] \in CallSet /\ calls[i] \in InFlight /\ Right(calls[i])
  BY DEF Inv, Typed, InFlight, Elems
<1> QED
  BY <1>1 DEF CallSet, FetchCall, ChangeCall

LEMMA ListedStored ==
  ASSUME NEW q, NEW r \in Listed(q)
  PROVE  store[r.id] = r.tag
<1>1. CASE screen = "cache"
  BY <1>1 DEF Listed
<1>2. CASE screen = "dashboard"
  BY <1>2 DEF Listed
<1>3. CASE screen \notin {"cache", "dashboard"}
  <2>1. r \in LinksListed(q)
    BY <1>3 DEF Listed
  <2>2. \E i \in Matching(q) : r = [id |-> i, tag |-> store[i]]
    BY <2>1 DEF LinksListed
  <2> QED BY <2>2
<1> QED
  BY <1>1, <1>2, <1>3

LEMMA FlagsTyped == Typed => Flags
  BY DEF Typed, Flags

(* Rows that were just read need no change that is on its way. *)
LEMMA ReadIsSynced ==
  ASSUME UNCHANGED <<screen, store, query>>,
         ~disordered' /\ ~outdated' => rows' = Listed(query),
         ~disordered' /\ ~outdated' /\ screen # "dashboard" =>
            total' = Cardinality(Matching(query))
  PROVE  Synced'
<1>1. Listed(query)' = Listed(query) /\ Matching(query)' = Matching(query)
  BY ListedSame
<1>2. \A r \in Listed(query) : store'[r.id] = r.tag
  BY ListedStored
<1> QED
  BY <1>1, <1>2 DEF Synced

LEMMA FetchedKeeps ==
  ASSUME Inv, NEW i \in 1..Len(calls), Fetched(i), UNCHANGED <<screen, store, query>>
  PROVE  Inv'
<1> DEFINE c == calls[i]
<1>1. c \in FetchCall /\ c.op = "fetch" /\ Right(c)
  BY AnsweredRight DEF Fetched, IsFetch
<1>2. /\ rows' = c.rows /\ total' = c.total /\ loading' = FALSE /\ calls' = RemoveAt(calls, i)
      /\ outdated' = ~c.fresh /\ disordered' = ~(Newest(i) /\ c.query = query)
      /\ failed' = failed /\ clearing' = clearing
  BY DEF Fetched
<1> HIDE DEF c
<1>3. rows' \subseteq Row /\ total' \in 0..Cardinality(Ids)
  BY <1>1, <1>2 DEF FetchCall
<1>4. Flags'
  <2>1. disordered' \in BOOLEAN /\ outdated' \in BOOLEAN
    BY <1>2
  <2> QED BY <1>2, <2>1 DEF Inv, Typed, Flags
<1>5. Synced'
  <2>1. ~disordered' /\ ~outdated' =>
          rows' = Listed(query) /\ total' = Cardinality(Matching(query))
    BY <1>1, <1>2 DEF Right
  <2> QED BY <2>1, ReadIsSynced
<1> QED
  BY <1>1, <1>2, <1>3, <1>4, <1>5, LeavingKeeps DEF c

LEMMA DashboardFetchedKeeps ==
  ASSUME Inv, NEW i \in 1..Len(calls), NEW answered \in SUBSET Ids \ {{}},
         DashboardFetched(i, answered), UNCHANGED <<screen, store, query>>
  PROVE  Inv'
<1> DEFINE c == calls[i]
<1>1. c \in FetchCall /\ c.op = "fetch" /\ Right(c) /\ screen = "dashboard"
  BY AnsweredRight DEF DashboardFetched, IsFetch
<1>2. /\ rows' = {r \in c.rows : r.id \in answered} \cup {r \in rows : r.id \notin answered}
      /\ loading' = FALSE /\ calls' = RemoveAt(calls, i)
      /\ outdated' = (~c.fresh \/ answered # Ids) /\ disordered' = ~Newest(i)
      /\ total' = total /\ failed' = failed /\ clearing' = clearing
  BY DEF DashboardFetched
<1> HIDE DEF c
<1>3. rows \subseteq Row /\ c.rows \subseteq Row
  BY <1>1 DEF FetchCall, Inv, Typed
<1>4. rows' \subseteq Row /\ total' \in 0..Cardinality(Ids)
  BY <1>2, <1>3 DEF Inv, Typed
<1>5. Flags'
  <2>1. disordered' \in BOOLEAN /\ outdated' \in BOOLEAN
    BY <1>2
  <2> QED BY <1>2, <2>1 DEF Inv, Typed, Flags
<1>6. Synced'
  <2>1. \A r \in Row : r.id \in Ids
    BY DEF Row
  <2>2. answered = Ids => rows' = c.rows
    BY <1>2, <1>3, <2>1
  <2>3. Listed(c.query) = Listed(query)
    BY <1>1 DEF Listed
  <2>4. ~disordered' /\ ~outdated' => rows' = Listed(query)
    BY <1>1, <1>2, <2>2, <2>3 DEF Right
  <2> QED BY <1>1, <2>4, ReadIsSynced
<1> QED
  BY <1>1, <1>2, <1>4, <1>5, <1>6, LeavingKeeps DEF c

(* A switched row takes the tag that was asked for, and keeps its place. *)
LEMMA ToggledKeeps ==
  ASSUME Inv, NEW i \in 1..Len(calls), calls[i].phase = "ok", Toggled(i),
         UNCHANGED <<screen, store, query>>
  PROVE  Inv'
<1> DEFINE c == calls[i]
           New(r) == IF r.id = c.row.id THEN c.row ELSE r
<1>1. c \in ChangeCall /\ c.op = "toggle" /\ c.phase = "ok" /\ Right(c)
  BY AnsweredRight DEF Toggled
<1>2. /\ rows' = {New(r) : r \in c.kept} /\ calls' = RemoveAt(calls, i)
      /\ disordered' = (disordered \/ rows # c.kept)
      /\ outdated' = (outdated \/ ~c.fresh)
      /\ UNCHANGED <<total, loading, failed, clearing>>
  BY DEF Toggled
<1>3. c.kept \subseteq Row /\ c.row.id \in Ids /\ c.row.tag \in Tags
  BY <1>1 DEF ChangeCall, Right
<1>4. c.row \in Row
  <2>1. c.row \in [id : Nat, tag : Tags \cup {"gone"}]
    BY <1>1 DEF ChangeCall
  <2> QED BY <1>3, <2>1 DEF Row
<1> HIDE DEF c
<1>5. rows' \subseteq Row
  BY <1>2, <1>3, <1>4
<1>6. Flags' /\ total' \in 0..Cardinality(Ids)
  <2>1. disordered' \in BOOLEAN /\ outdated' \in BOOLEAN
    BY <1>2
  <2> QED BY <1>2, <2>1 DEF Inv, Typed, Flags
<1>7. ASSUME Leaves(calls', c) PROVE Synced'
  <2>1. InFlight' \subseteq InFlight /\ InFlight \subseteq InFlight' \cup {c}
    BY <1>7 DEF Leaves, InFlight
  <2>2. SUFFICES ASSUME ~disordered', ~outdated', ~failed', ~loading',
                        Pending({"delete", "clear"})' = {}
                 PROVE  Synced'
    BY DEF Synced
  <2>3. Pending({"delete", "clear"}) = {}
    BY <1>1, <2>1, <2>2 DEF Pending
  <2>4. ~disordered /\ ~outdated /\ ~failed /\ ~loading /\ rows = c.kept /\ c.fresh
    BY <1>2, <2>2
  <2>5. /\ \A r \in rows : store[r.id] = r.tag \/ \E d \in Pending({"toggle"}) : d.row.id = r.id
        /\ query.tag = "all" => {r.id : r \in rows} = {r.id : r \in Listed(query)}
        /\ query.tag = "all" /\ screen # "dashboard" => total = Cardinality(Matching(query))
    BY <2>3, <2>4 DEF Inv, Synced
  <2>6. ASSUME NEW x \in rows'
        PROVE  store[x.id] = x.tag \/ \E d \in Pending({"toggle"})' : d.row.id = x.id
    <3>1. PICK r \in rows : x = New(r)
      BY <1>2, <2>4
    <3>2. CASE r.id = c.row.id
      BY <1>1, <2>4, <3>1, <3>2 DEF Right
    <3>3. CASE r.id # c.row.id /\ store[r.id] = r.tag
      BY <3>1, <3>3
    <3>4. CASE r.id # c.row.id /\ \E d \in Pending({"toggle"}) : d.row.id = r.id
      <4>1. PICK d \in Pending({"toggle"}) : d.row.id = r.id
        BY <3>4
      <4>2. d # c /\ d \in InFlight'
        BY <2>1, <3>4, <4>1 DEF Pending
      <4>3. d \in Pending({"toggle"})'
        BY <4>1, <4>2 DEF Pending
      <4> QED BY <3>1, <3>4, <4>1, <4>3
    <3> QED BY <2>5, <3>2, <3>3, <3>4
  <2>7. {x.id : x \in rows'} = {r.id : r \in rows}
    <3>1. \A r \in rows : New(r).id = r.id
      OBVIOUS
    <3>2. rows' = {New(r) : r \in rows}
      BY <1>2, <2>4
    <3> HIDE DEF New
    <3> QED BY <3>1, <3>2
  <2>8. Listed(query)' = Listed(query) /\ Matching(query)' = Matching(query)
    BY ListedSame
  <2> QED BY <1>2, <2>5, <2>6, <2>7, <2>8 DEF Synced
<1> QED
  BY <1>1, <1>2, <1>5, <1>6, <1>7, LeavingKeeps DEF c

LEMMA DeletedKeeps ==
  ASSUME Inv, NEW i \in 1..Len(calls), Deleted(i), UNCHANGED <<screen, store, query>>
  PROVE  Inv'
<1> DEFINE c == calls[i]
           r == RemoveAt(calls, i)
<1>1. c \in ChangeCall /\ c.op = "delete"
  BY AnsweredRight DEF Deleted
<1>2. Leaves(r, c)
  BY Answering DEF Inv
<1>3. StartFetch(c.query, r) /\ UNCHANGED <<rows, total, clearing>>
  BY DEF Deleted
<1> HIDE DEF c, r
<1>4. c.query \in Query
  BY <1>1 DEF ChangeCall
<1>5. clearing' => \E d \in Elems(r) : d.op = "clear"
  BY <1>1, <1>2, <1>3 DEF Inv, Waits, Leaves
<1>6. query' \in Query /\ rows' \subseteq Row /\ total' \in 0..Cardinality(Ids)
      /\ clearing' \in BOOLEAN
  BY <1>3 DEF Inv, Typed
<1> QED
  BY <1>2, <1>3, <1>4, <1>5, <1>6, StartFetchKeeps DEF Leaves

LEMMA ClearedKeeps ==
  ASSUME Inv, NEW i \in 1..Len(calls), Cleared(i), UNCHANGED <<screen, store, query>>
  PROVE  Inv'
<1> DEFINE r == RemoveAt(calls, i)
<1>1. Leaves(r, calls[i])
  BY Answering DEF Inv
<1>2. StartFetch(query, r) /\ UNCHANGED <<rows, total>> /\ clearing' = FALSE
  BY DEF Cleared
<1> HIDE DEF r
<1>3. query \in Query /\ query' \in Query /\ rows' \subseteq Row /\ total' \in 0..Cardinality(Ids)
  BY <1>2 DEF Inv, Typed
<1> QED
  BY <1>1, <1>2, <1>3, StartFetchKeeps DEF Leaves

LEMMA FailsKeeps ==
  ASSUME Inv, NEW i \in 1..Len(calls), Fails(i)
  PROVE  Inv'
<1> DEFINE c == calls[i]
<1>1. /\ calls' = RemoveAt(calls, i)
      /\ UNCHANGED <<screen, store, query, rows, total, disordered>>
      /\ FetchFails(i) \/ ChangeFails(i)
  BY DEF Fails
<1>2. rows' \subseteq Row /\ total' \in 0..Cardinality(Ids)
  BY <1>1 DEF Inv, Typed
<1>3. CASE FetchFails(i)
  <2>1. c.op = "fetch" /\ failed' = TRUE /\ loading' = FALSE /\ clearing' = clearing
        /\ outdated' = outdated
    BY <1>3 DEF FetchFails, IsFetch
  <2>2. Flags' /\ Synced'
    BY <1>1, <2>1 DEF Inv, Typed, Flags, Synced
  <2> QED BY <1>1, <1>2, <2>1, <2>2, LeavingKeeps
<1>4. CASE ChangeFails(i)
  <2>1. /\ c.op # "fetch" /\ clearing' = (clearing /\ c.op # "clear")
        /\ outdated' = (outdated \/ c.phase = "ok") /\ UNCHANGED <<loading, failed>>
    BY <1>4 DEF ChangeFails, IsFetch
  <2> HIDE DEF c
  <2>2. Flags'
    <3>1. clearing' \in BOOLEAN /\ outdated' \in BOOLEAN
      BY <2>1
    <3> QED BY <1>1, <2>1, <3>1 DEF Inv, Typed, Flags
  <2>3. ASSUME Leaves(calls', c) PROVE Synced'
    <3>1. InFlight' \subseteq InFlight /\ InFlight \subseteq InFlight' \cup {c}
      BY <2>3 DEF Leaves, InFlight
    <3>2. c.phase # "ok" => \A ops : Pending(ops)' = Pending(ops)
      BY <3>1 DEF Pending
    <3>3. Listed(query)' = Listed(query) /\ Matching(query)' = Matching(query)
      BY <1>1, ListedSame
    <3> QED BY <1>1, <2>1, <3>2, <3>3 DEF Inv, Synced
  <2> QED BY <1>1, <1>2, <2>1, <2>2, <2>3, LeavingKeeps DEF c
<1> QED
  BY <1>1, <1>3, <1>4

LEMMA AnsweredKeeps ==
  ASSUME Inv, NEW i \in 1..Len(calls), Answered(i)
  PROVE  Inv'
<1>1. calls[i].phase = "ok" /\ UNCHANGED <<screen, store, query>>
  BY DEF Answered
<1>2. ASSUME NEW answered \in SUBSET Ids \ {{}}, DashboardFetched(i, answered) PROVE Inv'
  BY <1>1, <1>2, DashboardFetchedKeeps
<1> QED
  BY <1>1, <1>2, FetchedKeeps, ToggledKeeps, DeletedKeeps, ClearedKeeps DEF Answered

LEMMA ServeKeeps ==
  ASSUME Inv, NEW i \in 1..Len(calls), Serve(i)
  PROVE  Inv'
  BY ServeFetchKeeps, RefuseKeeps, ServeChangeKeeps DEF Serve

LEMMA NextInv == Inv /\ [Next]_vars => Inv'
<1> SUFFICES ASSUME Inv, [Next]_vars PROVE Inv'
  OBVIOUS
<1>1. CASE Remount
  BY <1>1, RemountKeeps
<1>2. ASSUME NEW t \in Filters, LinksFilter(t) \/ LogsFilter(t) PROVE Inv'
  BY <1>2, FilterKeeps DEF LinksFilter, LogsFilter
<1>3. CASE LogsReset
  BY <1>3, ResetKeeps
<1>4. ASSUME NEW p \in 0..Cardinality(Ids), LinksTurn(p) \/ LogsTurn(p) PROVE Inv'
  <2>1. p \in Nat
    OBVIOUS
  <2>2. p \in 1..TotalPages \/ (p = query.page - 1 /\ p >= 1)
    BY <1>4 DEF LinksTurn, LogsTurn
  <2>3. Requery([query EXCEPT !.page = p])
    BY <1>4 DEF LinksTurn, LogsTurn
  <2> QED BY <2>1, <2>2, <2>3, TurnKeeps
<1>5. CASE Retry \/ RefreshMetrics \/ SwitchLanguage
  BY <1>5, RefreshKeeps DEF Retry, RefreshMetrics, SwitchLanguage
<1>6. ASSUME NEW r \in rows, ToggleEnable(r) \/ Delete(r) PROVE Inv'
  BY <1>6, ToggleKeeps, DeleteKeeps
<1>7. CASE ClearAll
  BY <1>7, ClearAllKeeps
<1>8. ASSUME NEW i \in 1..Len(calls), Serve(i) \/ Answered(i) \/ Fails(i) PROVE Inv'
  BY <1>8, ServeKeeps, AnsweredKeeps, FailsKeeps
<1>9. ASSUME NEW i \in Ids, NEW t \in Tags \cup {"gone"}, OtherChange(i, t) PROVE Inv'
  BY <1>9, OtherChangeKeeps
<1>10. CASE UNCHANGED vars
  <2>1. UNCHANGED <<screen, store, query, rows, total, loading, failed, clearing, calls,
                    disordered, outdated>>
    BY <1>10 DEF vars, state, history
  <2>2. InFlight' = InFlight /\ \A ops : Pending(ops)' = Pending(ops)
    BY <2>1 DEF InFlight, Elems, Pending
  <2>3. Typed' /\ Waits'
    BY <2>1, <2>2 DEF Inv, Typed, Waits
  <2>4. ASSUME NEW c \in InFlight' PROVE Right(c)'
    BY <2>1, <2>2, RightStays DEF Inv
  <2>5. Listed(query)' = Listed(query) /\ Matching(query)' = Matching(query)
    BY <2>1, ListedSame
  <2>6. Synced'
    BY <2>1, <2>2, <2>5 DEF Inv, Synced
  <2> QED BY <2>3, <2>4, <2>6 DEF Inv
<1> QED
  BY <1>1, <1>2, <1>3, <1>4, <1>5, <1>6, <1>7, <1>8, <1>9, <1>10 DEF Next

LEMMA AlwaysInv == Spec => []Inv
  BY InitInv, NextInv, PTL DEF Spec

-----------------------------------------------------------------------------
(* Every variable of a page has the type of what it models: an answer that *)
(* comes late brings no page number, no total and no row that could not be *)
(* there, and no more requests are in flight than the bound.               *)
THEOREM TypeCorrect == Spec => []TypeOK
<1>1. Inv => TypeOK
  <2> SUFFICES ASSUME Inv PROVE TypeOK
    OBVIOUS
  <2>1. ASSUME NEW i \in 1..Len(calls) PROVE calls[i].op \in {"fetch", "toggle", "delete", "clear"}
    <3>1. calls[i] \in CallSet
      BY DEF Inv, Typed
    <3> QED BY <3>1 DEF CallSet, FetchCall, ChangeCall
  <2> QED BY <2>1 DEF Inv, Typed, TypeOK, Row, Query
<1> QED
  BY <1>1, AlwaysInv, PTL

(* Neither the loading dots nor a disabled Clear button is left behind by  *)
(* the requests it waits for, in whatever order they are answered or fail. *)
THEOREM WaitersHaveCalls == Spec => []WaitingHasCall
<1>1. Inv => WaitingHasCall
  BY DEF Inv, Waits, WaitingHasCall, InFlight, Elems, IsFetch
<1> QED
  BY <1>1, AlwaysInv, PTL

(* Once all is answered, and no older answer came after a newer one, the   *)
(* page shows what the server holds, whatever number of its own toggles,   *)
(* deletions and clearings were under way at once.                         *)
THEOREM PageShowsStore == Spec => []ShownIsStored
<1>1. Inv => ShownIsStored
  <2> SUFFICES ASSUME Inv, Quiet, ~failed, ~disordered, ~outdated PROVE
         /\ \A r \in rows : store[r.id] = r.tag
         /\ query.tag = "all" => rows = Listed(query)
         /\ query.tag = "all" /\ screen # "dashboard" => total = Cardinality(Matching(query))
    BY DEF ShownIsStored
  <2>1. InFlight = {} /\ \A ops : Pending(ops) = {}
    BY DEF Quiet, InFlight, Elems, Pending
  <2>2. ~loading
    BY <2>1 DEF Inv, Waits
  <2>3. /\ \A r \in rows : store[r.id] = r.tag
        /\ query.tag = "all" => {r.id : r \in rows} = {r.id : r \in Listed(query)}
        /\ query.tag = "all" /\ screen # "dashboard" => total = Cardinality(Matching(query))
    BY <2>1, <2>2 DEF Inv, Synced
  <2>4. rows \subseteq Row /\ Listed(query) \subseteq Row
    BY ListedTyped DEF Inv, Typed
  <2>5. \A r \in Listed(query) : store[r.id] = r.tag
    BY ListedStored
  <2>6. \A r, x \in Row : r.id = x.id /\ r.tag = x.tag => r = x
    BY DEF Row
  <2>7. ASSUME {r.id : r \in rows} = {r.id : r \in Listed(query)} PROVE rows = Listed(query)
    <3>1. ASSUME NEW r \in rows PROVE r \in Listed(query)
      <4>1. PICK x \in Listed(query) : x.id = r.id
        BY <2>7
      <4> QED BY <2>3, <2>4, <2>5, <2>6, <4>1
    <3>2. ASSUME NEW r \in Listed(query) PROVE r \in rows
      <4>1. PICK x \in rows : x.id = r.id
        BY <2>7
      <4> QED BY <2>3, <2>4, <2>5, <2>6, <4>1
    <3> QED BY <3>1, <3>2
  <2> QED BY <2>3, <2>7
<1> QED
  BY <1>1, AlwaysInv, PTL
=============================================================================
