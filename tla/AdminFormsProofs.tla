-------------------------- MODULE AdminFormsProofs --------------------------
(***************************************************************************)
(* Proofs about AdminForms for any links, policies and number of requests  *)
(* in flight: what the forms wait for, and what they save.                 *)
(***************************************************************************)
EXTENDS AdminForms, SequenceTheorems, WellFoundedInduction, TLAPS

FormOps == {"load", "slug", "saveLink"}
PolicyOps == {"list", "savePolicy", "delete", "test"}
LoadOps == {"load", "saveLink", "list", "settings"}
Records == Links \cup Policies \cup {"new", "settings", None}
CallSet == [op : Ops, on : Records, holds : Records, choice : Policies \cup {None},
            mine : BOOLEAN]

Elems(s) == {s[i] : i \in 1..Len(s)}
Sent == Elems(calls)

(* The page that makes a request.                                          *)
Home(op, r) ==
  /\ op \in FormOps => OnLinkForm(r)
  /\ op \in PolicyOps => r = "policies"
  /\ op \notin FormOps \cup PolicyOps => r = "settings"

(* What every request in flight carries, given where the tab is.           *)
Fits(c) ==
  /\ c.mine => Home(c.op, route)
  /\ ~c.mine => c.op = "saveLink" /\ strayed
  /\ c.op = "load" => c.on \in Links /\ (~strayed => c.on = route)
  /\ c.op = "test" => c.on \in Policies
  /\ c.op = "saveLink" /\ ~strayed => c.holds \in {c.on, None} /\ c.on = route
  /\ c.op = "savePolicy" /\ ~strayed => c.on = editing
  /\ c.op \in {"savePolicy", "saveSettings"} => c.holds = c.on
AllFit == \A c \in Sent : Fits(c)

(* What the form was filled with, given where the tab is.                  *)
Filled ==
  /\ OnLinkForm(route) /\ holds # None => holds \in Links /\ (~strayed => holds = route)
  /\ route = "policies" => /\ holds \in Policies \cup {None}
                           /\ showForm => holds = editing
  /\ route = "settings" => /\ holds \in {"settings", None}
                           /\ ~loading /\ ~failed => holds = "settings"
  /\ route \in {"login", "elsewhere"} => holds = None

Has(s, ops) == \E c \in Elems(s) : c.mine /\ c.op \in ops
Waits ==
  /\ loading => Has(calls, LoadOps)
  /\ saving => Has(calls, {"saveSettings"})
  /\ passLoading => Has(calls, {"password"})
  /\ testing => Has(calls, {"test"})

(* A flag that keeps a second request of its kind from being sent.         *)
Alone(s, ops) ==
  \A i, j \in 1..Len(s) :
    s[i].mine /\ s[j].mine /\ s[i].op \in ops /\ s[j].op \in ops => i = j
Guarded(s, ops, flag) == Alone(s, ops) /\ (Has(s, ops) => flag)
Guards ==
  /\ Guarded(calls, {"saveSettings"}, saving)
  /\ Guarded(calls, {"password"}, passLoading)
  /\ Guarded(calls, {"test"}, testing)
  /\ ~strayed => Guarded(calls, {"load", "saveLink"}, loading)

Flags == {loading, failed, strayed, showForm, testing, saving, passLoading} \subseteq BOOLEAN
PageTyped ==
  /\ route \in Routes /\ typed \in {None, "early", "kept"} /\ Flags
  /\ listed \subseteq Policies
  /\ {editing, selected, verdict} \subseteq Policies \cup {None}
CallsTyped == calls \in Seq(CallSet) /\ Len(calls) <= MaxCalls

Inv == PageTyped /\ CallsTyped /\ AllFit /\ Filled /\ Waits /\ Guards

-----------------------------------------------------------------------------
(* Lists of requests. *)

LEMMA Appending ==
  ASSUME NEW s \in Seq(CallSet), NEW c \in CallSet, NEW r, r = Append(s, c)
  PROVE  /\ r \in Seq(CallSet) /\ Len(r) = Len(s) + 1 /\ Len(s) \in Nat
         /\ r[Len(s) + 1] = c /\ \A j \in 1..Len(s) : r[j] = s[j]
         /\ \A j \in 1..Len(r) : j \in 1..Len(s) \/ j = Len(s) + 1
         /\ Elems(r) = Elems(s) \cup {c}
<1>1. /\ r \in Seq(CallSet) /\ Len(r) = Len(s) + 1 /\ Len(s) \in Nat /\ r[Len(s) + 1] = c
      /\ \A j \in 1..Len(s) : r[j] = s[j]
      /\ \A j \in 1..(Len(s) + 1) : j \in 1..Len(s) \/ j = Len(s) + 1
      /\ \A j \in 1..Len(s) : j \in 1..(Len(s) + 1)
      /\ Len(s) + 1 \in 1..(Len(s) + 1)
  OBVIOUS
<1>2. ASSUME NEW x \in Elems(r) PROVE x \in Elems(s) \cup {c}
  BY <1>1 DEF Elems
<1>3. ASSUME NEW x \in Elems(s) PROVE x \in Elems(r)
  BY <1>1 DEF Elems
<1>4. c \in Elems(r)
  BY <1>1 DEF Elems
<1> QED
  BY <1>1, <1>2, <1>3, <1>4

(* r has the elements of s but the one at p, each at a place of its own.   *)
Origin(i, p) == IF i < p THEN i ELSE i + 1
Rest(r, s, p) ==
  /\ r \in Seq(CallSet) /\ Len(r) = Len(s) - 1
  /\ \A i \in 1..Len(r) : /\ Origin(i, p) \in 1..Len(s) /\ Origin(i, p) # p
                          /\ r[i] = s[Origin(i, p)]
  /\ \A j \in 1..Len(s) : j # p => \E i \in 1..Len(r) : Origin(i, p) = j

LEMMA RemoveIs ==
  ASSUME NEW s \in Seq(CallSet), NEW p \in 1..Len(s)
  PROVE  Rest(RemoveAt(s, p), s, p)
<1> DEFINE u == SubSeq(s, 1, p - 1)
           v == SubSeq(s, p + 1, Len(s))
           r == RemoveAt(s, p)
<1>1. Len(s) \in Nat /\ p \in Nat
  OBVIOUS
<1>2. /\ u \in Seq(CallSet) /\ Len(u) = p - 1 /\ v \in Seq(CallSet) /\ Len(v) = Len(s) - p
      /\ \A n \in 1..(p - 1) : u[n] = s[n]
      /\ \A n \in 1..(Len(s) - p) : v[n] = s[p + n]
  BY <1>1
<1>3. r = u \o v
  BY DEF RemoveAt
<1> HIDE DEF u, v, r
<1>4. /\ r \in Seq(CallSet) /\ Len(r) = Len(u) + Len(v)
      /\ \A n \in 1..Len(r) : r[n] = IF n <= Len(u) THEN u[n] ELSE v[n - Len(u)]
  <2>1. u \in Seq(CallSet) /\ v \in Seq(CallSet)
    BY <1>2
  <2> QED BY <1>3, <2>1
<1>5. Len(r) = Len(s) - 1
  BY <1>1, <1>2, <1>4
<1>6. ASSUME NEW n \in 1..Len(r)
      PROVE  Origin(n, p) \in 1..Len(s) /\ Origin(n, p) # p /\ r[n] = s[Origin(n, p)]
  <2>1. CASE n < p
    <3>1. n \in 1..(p - 1) /\ n <= Len(u)
      BY <1>1, <1>2, <2>1
    <3> QED BY <1>1, <1>2, <1>4, <2>1, <3>1 DEF Origin
  <2>2. CASE ~(n < p)
    <3>1. ~(n <= Len(u)) /\ n - Len(u) \in 1..(Len(s) - p) /\ p + (n - Len(u)) = n + 1
      BY <1>1, <1>2, <1>5, <2>2
    <3>2. r[n] = s[n + 1]
      BY <1>2, <1>4, <3>1
    <3> QED BY <1>1, <1>5, <2>2, <3>2 DEF Origin
  <2> QED BY <2>1, <2>2
<1>7. ASSUME NEW j \in 1..Len(s), j # p PROVE \E i \in 1..Len(r) : Origin(i, p) = j
  <2> DEFINE i == IF j < p THEN j ELSE j - 1
  <2>1. i \in 1..Len(r) /\ Origin(i, p) = j
    BY <1>1, <1>5, <1>7 DEF Origin
  <2> QED BY <2>1
<1> QED
  BY <1>4, <1>5, <1>6, <1>7 DEF Rest, r

(* What an answered request leaves.                                        *)
LEMMA Removing ==
  ASSUME NEW s \in Seq(CallSet), NEW p \in 1..Len(s), NEW r, r = RemoveAt(s, p)
  PROVE  /\ r \in Seq(CallSet) /\ Len(r) = Len(s) - 1 /\ Len(s) \in Nat
         /\ Elems(r) \subseteq Elems(s) /\ Elems(s) \subseteq Elems(r) \cup {s[p]}
<1>1. Rest(r, s, p)
  BY RemoveIs
<1>2. ASSUME NEW x \in Elems(r) PROVE x \in Elems(s)
  <2>1. PICK i \in 1..Len(r) : x = r[i]
    BY DEF Elems
  <2> QED BY <1>1, <2>1 DEF Rest, Elems
<1>3. ASSUME NEW x \in Elems(s), x # s[p] PROVE x \in Elems(r)
  <2>1. PICK j \in 1..Len(s) : x = s[j]
    BY DEF Elems
  <2>2. PICK i \in 1..Len(r) : Origin(i, p) = j
    BY <1>1, <1>3, <2>1 DEF Rest
  <2> QED BY <1>1, <2>1, <2>2 DEF Rest, Elems
<1> QED
  BY <1>1, <1>2, <1>3 DEF Rest

LEMMA AddOther ==
  ASSUME NEW s \in Seq(CallSet), NEW c \in CallSet, NEW ops, NEW flag,
         Guarded(s, ops, flag), ~(c.mine /\ c.op \in ops)
  PROVE  Guarded(Append(s, c), ops, flag)
<1> DEFINE r == Append(s, c)
<1>1. /\ Len(r) = Len(s) + 1 /\ Len(s) \in Nat
      /\ r[Len(s) + 1] = c /\ \A j \in 1..Len(s) : r[j] = s[j]
      /\ \A j \in 1..Len(r) : j \in 1..Len(s) \/ j = Len(s) + 1
      /\ Elems(r) = Elems(s) \cup {c}
  BY Appending
<1> HIDE DEF r
<1>2. Alone(r, ops)
  BY <1>1 DEF Guarded, Alone
<1>3. Has(r, ops) => flag
  BY <1>1 DEF Guarded, Has
<1> QED
  BY <1>2, <1>3 DEF Guarded, r

(* The first request of its kind: nothing was guarded yet.                 *)
LEMMA AddFirst ==
  ASSUME NEW s \in Seq(CallSet), NEW c \in CallSet, NEW ops, NEW flag, flag, ~Has(s, ops)
  PROVE  Guarded(Append(s, c), ops, flag)
<1> DEFINE r == Append(s, c)
<1>1. /\ Len(r) = Len(s) + 1 /\ Len(s) \in Nat
      /\ r[Len(s) + 1] = c /\ \A j \in 1..Len(s) : r[j] = s[j]
      /\ \A j \in 1..Len(r) : j \in 1..Len(s) \/ j = Len(s) + 1
  BY Appending
<1> HIDE DEF r
<1>2. \A j \in 1..Len(s) : ~(s[j].mine /\ s[j].op \in ops)
  BY DEF Has, Elems
<1>3. Alone(r, ops)
  BY <1>1, <1>2 DEF Alone
<1> QED
  BY <1>3 DEF Guarded, r

LEMMA DropAny ==
  ASSUME NEW s \in Seq(CallSet), NEW p \in 1..Len(s), NEW ops, Alone(s, ops)
  PROVE  Alone(RemoveAt(s, p), ops)
<1> DEFINE r == RemoveAt(s, p)
<1>1. Rest(r, s, p)
  BY RemoveIs
<1> HIDE DEF r
<1>2. ASSUME NEW i \in 1..Len(r), NEW j \in 1..Len(r), r[i].mine, r[j].mine,
             r[i].op \in ops, r[j].op \in ops
      PROVE  i = j
  <2>1. Origin(i, p) \in 1..Len(s) /\ r[i] = s[Origin(i, p)]
        /\ Origin(j, p) \in 1..Len(s) /\ r[j] = s[Origin(j, p)]
    BY <1>1 DEF Rest
  <2>2. Origin(i, p) = Origin(j, p)
    BY <1>2, <2>1 DEF Alone
  <2>3. i \in Nat /\ j \in Nat /\ p \in Nat
    BY <1>1 DEF Rest
  <2> QED BY <2>2, <2>3 DEF Origin
<1> QED
  BY <1>2 DEF Alone, r

LEMMA DropOther ==
  ASSUME NEW s \in Seq(CallSet), NEW p \in 1..Len(s), NEW ops, NEW flag, Guarded(s, ops, flag)
  PROVE  Guarded(RemoveAt(s, p), ops, flag)
<1> DEFINE r == RemoveAt(s, p)
<1>1. Elems(r) \subseteq Elems(s) /\ Alone(r, ops)
  BY Removing, DropAny DEF Guarded
<1> HIDE DEF r
<1> QED
  BY <1>1 DEF Guarded, Has, r

(* The answer to the one request that was waited for.                      *)
LEMMA DropOwn ==
  ASSUME NEW s \in Seq(CallSet), NEW p \in 1..Len(s), NEW ops, NEW flag, NEW old,
         Guarded(s, ops, old), s[p].mine, s[p].op \in ops
  PROVE  Guarded(RemoveAt(s, p), ops, flag)
<1> DEFINE r == RemoveAt(s, p)
<1>1. Rest(r, s, p) /\ Alone(r, ops)
  BY RemoveIs, DropAny DEF Guarded
<1> HIDE DEF r
<1>2. ~Has(r, ops)
  <2>1. SUFFICES ASSUME NEW i \in 1..Len(r), r[i].mine, r[i].op \in ops PROVE FALSE
    BY DEF Has, Elems
  <2>2. Origin(i, p) \in 1..Len(s) /\ Origin(i, p) # p /\ r[i] = s[Origin(i, p)]
    BY <1>1 DEF Rest
  <2> QED BY <2>1, <2>2 DEF Guarded, Alone
<1> QED
  BY <1>1, <1>2 DEF Guarded, r

LEMMA NoneGuards ==
  ASSUME NEW s, NEW ops, NEW flag, ~Has(s, ops)
  PROVE  Guarded(s, ops, flag)
  BY DEF Guarded, Alone, Has, Elems

LEMMA GuardsMore ==
  ASSUME NEW s, NEW ops, NEW flag, NEW more, Guarded(s, ops, flag), flag => more
  PROVE  Guarded(s, ops, more)
  BY DEF Guarded

-----------------------------------------------------------------------------
(* What a page that is left leaves in flight.  A fact about every position *)
(* of a list is proved from the least position that would refute it.       *)

LEMMA Upward ==
  ASSUME NEW N \in Nat, NEW T, 0 \in T, \A n \in 0..(N - 1) : n \in T => n + 1 \in T
  PROVE  \A n \in 0..N : n \in T
<1> DEFINE R == OpToRel(<, Nat)
           Bad == {n \in 0..N : n \notin T}
<1>1. \A m, n \in Nat : <<m, n>> \in R <=> m < n
  BY DEF OpToRel
<1>2. IsWellFoundedOn(R, Nat)
  BY NatLessThanWellFounded
<1>3. Bad \subseteq Nat
  OBVIOUS
<1> HIDE DEF R
<1>4. SUFFICES ASSUME Bad # {} PROVE FALSE
  OBVIOUS
<1>5. PICK n \in Bad : \A m \in Bad : ~(<<m, n>> \in R)
  BY <1>2, <1>3, <1>4, WFMin
<1>6. n \in 0..N /\ n \notin T /\ n # 0 /\ n - 1 \in 0..(N - 1)
  BY <1>5
<1>7. n - 1 \notin Bad
  <2>1. <<n - 1, n>> \in R
    BY <1>1, <1>6
  <2> HIDE DEF Bad
  <2> QED BY <1>5, <2>1
<1>8. n - 1 \in T
  BY <1>6, <1>7
<1> QED
  BY <1>6, <1>8

LEMMA OrphanedUpToDef ==
  ASSUME NEW s, Len(s) \in Nat
  PROVE  OrphanedUpTo(s) = [n \in 0..Len(s) |->
           IF n = 0 THEN << >>
           ELSE IF s[n].op = "saveLink"
                THEN Append(OrphanedUpTo(s)[n - 1], [s[n] EXCEPT !.mine = FALSE])
                ELSE OrphanedUpTo(s)[n - 1]]
<1> DEFINE Step(f, n) == IF n = 0 THEN << >>
                         ELSE IF s[n].op = "saveLink"
                              THEN Append(f[n - 1], [s[n] EXCEPT !.mine = FALSE])
                              ELSE f[n - 1]
           Leaves(f, m) == f = [n \in 0..m |-> Step(f, n)]
           T == {m \in 0..Len(s) : \E f : Leaves(f, m)}
<1>1. Leaves([n \in 0..0 |-> << >>], 0)
  OBVIOUS
<1>2. ASSUME NEW m \in 0..(Len(s) - 1), NEW f, Leaves(f, m) PROVE \E g : Leaves(g, m + 1)
  <2> DEFINE g == [n \in 0..(m + 1) |-> Step(f, n)]
  <2>1. ASSUME NEW n \in 0..m PROVE g[n] = f[n]
    <3>1. g[n] = Step(f, n)
      <4> HIDE DEF Step
      <4> QED OBVIOUS
    <3>2. f[n] = Step(f, n)
      <4> HIDE DEF Step
      <4> QED BY <1>2, Zenon
    <3> QED BY <3>1, <3>2, Zenon
  <2>2. ASSUME NEW n \in 0..(m + 1) PROVE g[n] = Step(g, n)
    <3>1. n # 0 => n - 1 \in 0..m
      BY <2>2
    <3>2. g[n] = Step(f, n)
      <4> HIDE DEF Step
      <4> QED OBVIOUS
    <3> HIDE DEF g
    <3>3. n # 0 => g[n - 1] = f[n - 1]
      BY <2>1, <3>1
    <3> QED BY <3>2, <3>3
  <2>3. g = [n \in 0..(m + 1) |-> g[n]]
    OBVIOUS
  <2> HIDE DEF g, Step
  <2>4. Leaves(g, m + 1)
    BY <2>2, <2>3, Zenon
  <2> QED BY <2>4
<1>3. \E f : Leaves(f, Len(s))
  <2> HIDE DEF Leaves
  <2>1. 0 \in T /\ \A m \in 0..(Len(s) - 1) : m \in T => m + 1 \in T
    BY <1>1, <1>2
  <2> HIDE DEF T
  <2>2. \A m \in 0..Len(s) : m \in T
    BY <2>1, Upward
  <2> QED BY <2>2 DEF T
<1> QED
  BY <1>3 DEF OrphanedUpTo

Orphan == {c \in CallSet : c.op = "saveLink" /\ ~c.mine}

LEMMA OrphanedTyped ==
  ASSUME NEW s \in Seq(CallSet)
  PROVE  Orphaned(s) \in Seq(Orphan) /\ Len(Orphaned(s)) <= Len(s)
<1> DEFINE w == OrphanedUpTo(s)
           Good(n) == w[n] \in Seq(Orphan) /\ Len(w[n]) <= n
           T == {n \in 0..Len(s) : Good(n)}
<1>1. Len(s) \in Nat /\ \A n \in 1..Len(s) : s[n] \in CallSet
  OBVIOUS
<1>2. w = [n \in 0..Len(s) |->
             IF n = 0 THEN << >>
             ELSE IF s[n].op = "saveLink"
                  THEN Append(w[n - 1], [s[n] EXCEPT !.mine = FALSE])
                  ELSE w[n - 1]]
  BY <1>1, OrphanedUpToDef
<1> HIDE DEF w
<1>3. w[0] = << >>
  BY <1>1, <1>2
<1>4. \A n \in 1..Len(s) : w[n] = IF s[n].op = "saveLink"
                                  THEN Append(w[n - 1], [s[n] EXCEPT !.mine = FALSE])
                                  ELSE w[n - 1]
  <2>1. \A n \in 1..Len(s) : n \in 0..Len(s) /\ n # 0
    BY <1>1
  <2> QED BY <1>2, <2>1
<1>5. 0 \in T
  <2>1. << >> \in Seq(Orphan) /\ Len(<< >>) = 0 /\ 0 \in 0..Len(s)
    BY <1>1
  <2>2. w[0] \in Seq(Orphan) /\ Len(w[0]) = 0
    BY <1>3, <2>1, Zenon
  <2>3. Good(0)
    BY <2>2
  <2> HIDE DEF Good
  <2> QED BY <2>1, <2>3
<1>6. ASSUME NEW n \in 0..(Len(s) - 1), Good(n) PROVE Good(n + 1)
  <2> DEFINE m == n + 1
             u == w[n]
             c == s[m]
             o == [c EXCEPT !.mine = FALSE]
  <2>1. m \in 1..Len(s) /\ m - 1 = n /\ n \in Nat
    BY <1>1
  <2> HIDE DEF m
  <2>2. c \in CallSet
    BY <1>1, <2>1
  <2>3. c.op = "saveLink" => o \in Orphan
    BY <2>2 DEF CallSet, Orphan
  <2>4. w[m] = IF c.op = "saveLink" THEN Append(u, o) ELSE u
    BY <1>4, <2>1
  <2>5. u \in Seq(Orphan) /\ Len(u) <= n
    BY <1>6
  <2> HIDE DEF u, c, o
  <2>6. c.op = "saveLink" => Append(u, o) \in Seq(Orphan) /\ Len(Append(u, o)) = Len(u) + 1
    BY <2>3, <2>5
  <2>7. Len(u) \in Nat
    BY <2>5
  <2>8. w[m] \in Seq(Orphan) /\ Len(w[m]) <= m
    BY <2>1, <2>4, <2>5, <2>6, <2>7 DEF m
  <2> QED BY <2>8 DEF m
<1> HIDE DEF Good
<1>7. \A n \in 0..(Len(s) - 1) : n \in T => n + 1 \in T
  <2>1. \A n \in 0..(Len(s) - 1) : n + 1 \in 0..Len(s)
    BY <1>1
  <2> QED BY <1>6, <2>1
<1> HIDE DEF T
<1>8. \A n \in 0..Len(s) : n \in T
  BY <1>1, <1>5, <1>7, Upward
<1>9. Len(s) \in 0..Len(s)
  BY <1>1
<1> QED
  BY <1>8, <1>9 DEF T, Good, Orphaned, w

-----------------------------------------------------------------------------
(* A page that is mounted.  *)

FirstOf(c, r) ==
  /\ c \in CallSet /\ c.mine /\ Home(c.op, r)
  /\ c.op \in {"load", "slug", "list", "settings"}
  /\ c.op = "load" => c.on = r /\ r \in Links
  /\ r \in Links \cup {"policies", "settings"} => c.op \in LoadOps
  /\ c.op = "load" => r \in Links

LEMMA NamesApart ==
  /\ ~OnLinkForm("policies") /\ ~OnLinkForm("settings")
  /\ ~OnLinkForm("login") /\ ~OnLinkForm("elsewhere")
  /\ OnLinkForm("new") /\ "new" \notin Links
  /\ \A l \in Links : OnLinkForm(l) /\ l # None
  /\ \A p \in Policies : p # None
  BY FormsAssumption DEF OnLinkForm, None

LEMMA FirstIs ==
  ASSUME NEW r \in Routes
  PROVE  \/ r \in {"login", "elsewhere"} /\ FirstCalls(r) = << >>
         \/ \E c : FirstCalls(r) = <<c>> /\ FirstOf(c, r)
<1>1. ASSUME NEW op \in Ops, NEW on \in Records
      PROVE  /\ Call(op, on, None) \in CallSet /\ Call(op, on, None).mine
             /\ Call(op, on, None).op = op /\ Call(op, on, None).on = on
  BY DEF Call, CallSet, Records
<1>2. CASE r \in Links
  <2> DEFINE c == Call("load", r, None)
  <2>1. c \in CallSet /\ c.mine /\ c.op = "load" /\ c.on = r
    BY <1>1, <1>2 DEF Ops, Records
  <2>2. FirstCalls(r) = <<c>>
    <3>1. r # "new" /\ r # "policies" /\ r # "settings"
      BY <1>2, FormsAssumption
    <3> QED BY <1>2, <3>1 DEF FirstCalls
  <2> HIDE DEF c
  <2>3. FirstOf(c, r)
    BY <1>2, <2>1, NamesApart DEF FirstOf, Home, FormOps, PolicyOps, LoadOps
  <2> QED BY <2>2, <2>3
<1>3. CASE r = "new"
  <2> DEFINE c == Call("slug", None, None)
  <2>1. c \in CallSet /\ c.mine /\ c.op = "slug"
    BY <1>1 DEF Ops, Records
  <2>2. FirstCalls(r) = <<c>>
    BY <1>3, NamesApart DEF FirstCalls
  <2> HIDE DEF c
  <2>3. FirstOf(c, r)
    BY <1>3, <2>1, NamesApart DEF FirstOf, Home, FormOps, PolicyOps, LoadOps
  <2> QED BY <2>2, <2>3
<1>4. CASE r = "policies"
  <2> DEFINE c == Call("list", None, None)
  <2>1. c \in CallSet /\ c.mine /\ c.op = "list"
    BY <1>1 DEF Ops, Records
  <2>2. FirstCalls(r) = <<c>>
    BY <1>4, NamesApart DEF FirstCalls, OnLinkForm
  <2> HIDE DEF c
  <2>3. FirstOf(c, r)
    BY <1>4, <2>1 DEF FirstOf, Home, FormOps, PolicyOps, LoadOps
  <2> QED BY <2>2, <2>3
<1>5. CASE r = "settings"
  <2> DEFINE c == Call("settings", None, None)
  <2>1. c \in CallSet /\ c.mine /\ c.op = "settings"
    BY <1>1 DEF Ops, Records
  <2>2. FirstCalls(r) = <<c>>
    BY <1>5, NamesApart DEF FirstCalls, OnLinkForm
  <2> HIDE DEF c
  <2>3. FirstOf(c, r)
    BY <1>5, <2>1 DEF FirstOf, Home, FormOps, PolicyOps, LoadOps
  <2> QED BY <2>2, <2>3
<1>6. CASE r \in {"login", "elsewhere"}
  BY <1>6, NamesApart DEF FirstCalls, OnLinkForm
<1> QED
  BY <1>2, <1>3, <1>4, <1>5, <1>6 DEF Routes

(* Nothing that a page left behind is anyone's to wait for.                *)
LEMMA OrphansFree ==
  ASSUME NEW o \in Seq(Orphan)
  PROVE  /\ o \in Seq(CallSet) /\ Len(o) \in Nat
         /\ \A c \in Elems(o) : c \in CallSet /\ c.op = "saveLink" /\ ~c.mine
<1>1. \A n \in 1..Len(o) : o[n] \in Orphan
  OBVIOUS
<1>2. Orphan \subseteq CallSet
  BY DEF Orphan
<1>3. o \in Seq(CallSet)
  BY <1>2
<1> QED
  BY <1>1, <1>3 DEF Orphan, Elems

(* What a page starts with, alone or besides what others left.             *)
Starts(r) ==
  /\ route = r /\ holds = None /\ typed = None /\ ~failed /\ showForm = FALSE
  /\ loading \in BOOLEAN /\ (loading <=> r \in Links \cup {"policies", "settings"})
  /\ strayed \in BOOLEAN /\ failed = FALSE
  /\ listed = {} /\ editing = None /\ selected = None /\ verdict = None
  /\ testing = FALSE /\ saving = FALSE /\ passLoading = FALSE

LEMMA StartsFine == \A x \in Routes : Starts(x) => PageTyped /\ Filled
<1> SUFFICES ASSUME NEW r \in Routes, Starts(r) PROVE PageTyped /\ Filled
  OBVIOUS
<1>1. loading \in BOOLEAN
  BY DEF Starts
<1>2. PageTyped
  BY <1>1 DEF Starts, PageTyped, Flags
<1>3. Filled
  BY DEF Starts, Filled
<1> QED
  BY <1>2, <1>3

LEMMA MountedKeeps ==
  ASSUME NEW r \in Routes, NEW others \in Seq(CallSet), Mounted(r, others),
         PolicyPageMounted, SettingsPageMounted,
         \/ Len(Orphaned(others)) < MaxCalls
         \/ r \in {"login", "elsewhere"} /\ Len(Orphaned(others)) <= MaxCalls
  PROVE  Inv'
<1> DEFINE o == Orphaned(others)
<1>1. /\ calls' = o \o FirstCalls(r) /\ strayed' = (o # << >>) /\ route' = r
      /\ loading' = (r \in Links \cup {"policies", "settings"})
      /\ testing' = FALSE /\ saving' = FALSE /\ passLoading' = FALSE
  BY DEF Mounted, PolicyPageMounted, SettingsPageMounted
<1>2. Starts(r)'
  <2>1. loading' \in BOOLEAN /\ strayed' \in BOOLEAN
    BY <1>1
  <2>2. loading' <=> r \in Links \cup {"policies", "settings"}
    BY <1>1
  <2> QED BY <2>1, <2>2 DEF Mounted, PolicyPageMounted, SettingsPageMounted, Starts
<1>3. PageTyped' /\ Filled'
  <2>1. (\A x \in Routes : Starts(x) => PageTyped /\ Filled)'
    BY StartsFine, PTL
  <2> QED BY <1>2, <2>1
<1>4. o \in Seq(Orphan)
  BY OrphanedTyped
<1>5. Len(o) < MaxCalls \/ (r \in {"login", "elsewhere"} /\ Len(o) <= MaxCalls)
  OBVIOUS
<1> HIDE DEF o
<1>6. /\ o \in Seq(CallSet) /\ Len(o) \in Nat
      /\ \A c \in Elems(o) : c \in CallSet /\ c.op = "saveLink" /\ ~c.mine
  BY <1>4, OrphansFree
<1>7. \A ops : ~Has(o, ops)
  BY <1>6 DEF Has
<1>8. MaxCalls \in Nat
  BY FormsAssumption
<1>9. ASSUME NEW c \in Elems(o) PROVE Fits(c)' /\ o # << >>
  <2>1. o # << >>
    BY <1>9 DEF Elems
  <2> QED BY <1>1, <1>6, <1>9, <2>1 DEF Fits
<1>10. ASSUME r \in {"login", "elsewhere"}, FirstCalls(r) = << >> PROVE Inv'
  <2>1. calls' = o
    BY <1>1, <1>6, <1>10, ConcatEmptySeq
  <2>2. CallsTyped'
    BY <1>5, <1>6, <1>8, <2>1 DEF CallsTyped
  <2>3. AllFit'
    BY <1>9, <2>1 DEF AllFit, Sent
  <2>4. ~loading'
    <3>1. r \notin Links \cup {"policies", "settings"}
      BY <1>10, FormsAssumption
    <3> QED BY <1>1, <3>1
  <2>5. Waits'
    BY <1>1, <2>4 DEF Waits
  <2>6. \A ops : ~Has(calls', ops)
    BY <1>7, <2>1
  <2>7. Guards'
    BY <2>6, NoneGuards DEF Guards
  <2> QED BY <1>3, <2>2, <2>3, <2>5, <2>7 DEF Inv
<1>11. ASSUME NEW c, FirstCalls(r) = <<c>>, FirstOf(c, r) PROVE Inv'
  <2>1. c \in CallSet /\ c.mine /\ c.op \in {"load", "slug", "list", "settings"}
    BY <1>11 DEF FirstOf
  <2>2. calls' = Append(o, c)
    BY <1>1, <1>6, <1>11, <2>1, AppendIsConcat
  <2>3. /\ calls' \in Seq(CallSet) /\ Len(calls') = Len(o) + 1 /\ Sent' = Elems(o) \cup {c}
    BY <1>6, <2>1, <2>2, Appending DEF Sent
  <2>4. r \notin {"login", "elsewhere"}
    BY <1>11, NamesApart DEF FirstOf, Home, FormOps, PolicyOps
  <2>5. CallsTyped'
    BY <1>5, <1>6, <1>8, <2>3, <2>4 DEF CallsTyped
  <2>6. Fits(c)'
    BY <1>1, <1>11, <2>1 DEF FirstOf, Fits
  <2>7. AllFit'
    BY <1>9, <2>3, <2>6 DEF AllFit
  <2>8. Waits'
    <3>1. loading' => c.op \in LoadOps /\ c \in Elems(calls')
      BY <1>1, <1>11, <2>3 DEF FirstOf, Sent
    <3> QED BY <1>1, <2>1, <3>1 DEF Waits, Has
  <2>9. \A flag : /\ Guarded(calls', {"saveSettings"}, flag)
                  /\ Guarded(calls', {"password"}, flag)
                  /\ Guarded(calls', {"test"}, flag)
    <3>1. ASSUME NEW ops, c.op \notin ops, NEW flag PROVE Guarded(calls', ops, flag)
      BY <1>6, <1>7, <2>1, <2>2, <3>1, AddOther, NoneGuards
    <3> QED BY <2>1, <3>1
  <2>10. Guarded(calls', {"load", "saveLink"}, loading')
    <3>1. CASE c.op = "load"
      <4>1. loading'
        BY <1>1, <1>11, <3>1 DEF FirstOf
      <4> QED BY <1>6, <1>7, <2>1, <2>2, <4>1, AddFirst
    <3>2. CASE c.op # "load"
      BY <1>6, <1>7, <2>1, <2>2, <3>2, AddOther, NoneGuards
    <3> QED BY <3>1, <3>2
  <2>11. Guards'
    BY <2>9, <2>10 DEF Guards
  <2> QED BY <1>3, <2>5, <2>7, <2>8, <2>11 DEF Inv
<1> QED
  BY <1>10, <1>11, FirstIs

LEMMA InitInv == Init => Inv
<1> SUFFICES ASSUME Init PROVE Inv
  OBVIOUS
<1>1. calls = << >> /\ Sent = {} /\ calls \in Seq(CallSet) /\ Len(calls) = 0
  BY DEF Init, Sent, Elems
<1>2. 0 <= MaxCalls
  BY FormsAssumption
<1>3. Starts("elsewhere")
  <2>1. "elsewhere" \notin Links \cup {"policies", "settings"}
    BY FormsAssumption
  <2>2. loading \in BOOLEAN /\ ~loading
    BY DEF Init
  <2> QED BY <2>1, <2>2 DEF Init, Starts
<1>4. PageTyped /\ Filled
  BY <1>3, StartsFine DEF Routes
<1>5. \A ops : ~Has(calls, ops)
  BY <1>1 DEF Has, Sent
<1>6. Guards
  BY <1>5, NoneGuards DEF Guards
<1>7. Waits
  BY DEF Init, Waits
<1> QED
  BY <1>1, <1>2, <1>4, <1>6, <1>7 DEF Inv, CallsTyped, AllFit

-----------------------------------------------------------------------------
(* The kinds of steps.  *)

(* The page stays, or one link's form becomes another's.                   *)
Stays ==
  /\ (strayed => strayed') /\ editing' = editing
  /\ route' = route \/ (OnLinkForm(route) /\ OnLinkForm(route') /\ strayed')

LEMMA FitsStays ==
  ASSUME Stays, NEW c, Fits(c)
  PROVE  Fits(c)'
<1>1. CASE route' = route
  BY <1>1 DEF Stays, Fits
<1>2. CASE OnLinkForm(route) /\ OnLinkForm(route') /\ strayed'
  <2>1. route # "policies" /\ route # "settings"
    BY <1>2, NamesApart
  <2>2. c.mine => Home(c.op, route')
    BY <1>2, <2>1 DEF Fits, Home
  <2> QED BY <1>2, <2>2 DEF Stays, Fits
<1> QED
  BY <1>1, <1>2 DEF Stays

LEMMA CallRight ==
  ASSUME Inv, NEW i \in 1..Len(calls)
  PROVE  calls[i] \in CallSet /\ calls[i] \in Sent /\ Fits(calls[i])
  BY DEF Inv, CallsTyped, AllFit, Sent, Elems

(* No request is sent or answered.                                         *)
LEMMA SameCalls ==
  ASSUME Inv, strayed => strayed', UNCHANGED <<calls, loading, saving, passLoading, testing>>,
         PageTyped', Filled', AllFit'
  PROVE  Inv'
<1>1. CallsTyped'
  BY DEF Inv, CallsTyped
<1>2. Waits'
  BY DEF Inv, Waits
<1>3. Guards'
  BY DEF Inv, Guards
<1> QED
  BY <1>1, <1>2, <1>3 DEF Inv

LEMMA SameKeeps ==
  ASSUME Inv, Stays, UNCHANGED <<calls, loading, saving, passLoading, testing>>,
         PageTyped', Filled'
  PROVE  Inv'
<1>1. Sent' = Sent
  BY DEF Sent, Elems
<1>2. AllFit'
  BY <1>1, FitsStays DEF Inv, AllFit
<1> QED
  BY <1>2, SameCalls DEF Stays

(* What a request does to the flag of its button, and what its answer does. *)
Raised(old, new, c, op) ==
  /\ c.op = op => ~old /\ new
  /\ c.op # op => (new <=> old)
Lowered(old, new, c, op) ==
  /\ c.op = op => ~new
  /\ c.op # op => (new <=> old)

LEMMA RaisedGuards ==
  ASSUME NEW s \in Seq(CallSet), NEW c \in CallSet, NEW op, NEW old, NEW new,
         Guarded(s, {op}, old), Raised(old, new, c, op)
  PROVE  Guarded(Append(s, c), {op}, new)
<1>1. CASE c.op = op
  <2>1. ~Has(s, {op}) /\ new
    BY <1>1 DEF Raised, Guarded
  <2> QED BY <2>1, AddFirst
<1>2. CASE c.op # op
  <2>1. Guarded(Append(s, c), {op}, old)
    BY <1>2, AddOther
  <2>2. old => new
    BY <1>2 DEF Raised
  <2> QED BY <2>1, <2>2, GuardsMore
<1> QED
  BY <1>1, <1>2

LEMMA LoweredGuards ==
  ASSUME NEW s \in Seq(CallSet), NEW p \in 1..Len(s), NEW op, NEW old, NEW new,
         Guarded(s, {op}, old), Lowered(old, new, s[p], op), s[p].op = op => s[p].mine
  PROVE  Guarded(RemoveAt(s, p), {op}, new)
<1>1. CASE s[p].op = op
  <2>1. s[p].op \in {op} /\ s[p].mine
    BY <1>1
  <2> QED BY <2>1, DropOwn
<1>2. CASE s[p].op # op
  <2>1. Guarded(RemoveAt(s, p), {op}, old)
    BY DropOther
  <2>2. old => new
    BY <1>2 DEF Lowered
  <2> QED BY <2>1, <2>2, GuardsMore
<1> QED
  BY <1>1, <1>2

(* A request is sent.                                                      *)
Asks(c) ==
  /\ c \in CallSet /\ c.mine /\ Send(c) /\ Stays /\ Fits(c)'
  /\ Raised(saving, saving', c, "saveSettings")
  /\ Raised(passLoading, passLoading', c, "password")
  /\ Raised(testing, testing', c, "test")
  /\ loading' => loading \/ c.op \in LoadOps
  /\ ~strayed' /\ loading => loading' /\ c.op \notin {"load", "saveLink"}
  /\ ~strayed' /\ c.op \in {"load", "saveLink"} => loading'

LEMMA SendKeeps ==
  ASSUME Inv, NEW c, Asks(c), PageTyped', Filled'
  PROVE  Inv'
<1>1. c \in CallSet /\ c.mine /\ Stays /\ Fits(c)'
  BY DEF Asks
<1>2. calls \in Seq(CallSet) /\ Len(calls) < MaxCalls /\ calls' = Append(calls, c)
  BY DEF Inv, CallsTyped, Asks, Send, HasRoom
<1>3. /\ calls' \in Seq(CallSet) /\ Len(calls') = Len(calls) + 1 /\ Len(calls) \in Nat
      /\ Sent' = Sent \cup {c}
  BY <1>1, <1>2, Appending DEF Sent
<1>4. CallsTyped'
  <2>1. MaxCalls \in Nat
    BY FormsAssumption
  <2> QED BY <1>2, <1>3, <2>1 DEF CallsTyped
<1>5. AllFit'
  BY <1>1, <1>3, FitsStays DEF Inv, AllFit
<1>6. \A ops : Has(calls, ops) \/ c.op \in ops => Has(calls', ops)
  BY <1>1, <1>3 DEF Has, Sent
<1>7. Waits'
  <2>1. loading' => Has(calls', LoadOps)
    BY <1>6 DEF Asks, Inv, Waits
  <2>2. saving' => Has(calls', {"saveSettings"})
    <3>1. saving' => saving \/ c.op \in {"saveSettings"}
      BY DEF Asks, Raised
    <3> QED BY <1>6, <3>1 DEF Inv, Waits
  <2>3. passLoading' => Has(calls', {"password"})
    <3>1. passLoading' => passLoading \/ c.op \in {"password"}
      BY DEF Asks, Raised
    <3> QED BY <1>6, <3>1 DEF Inv, Waits
  <2>4. testing' => Has(calls', {"test"})
    <3>1. testing' => testing \/ c.op \in {"test"}
      BY DEF Asks, Raised
    <3> QED BY <1>6, <3>1 DEF Inv, Waits
  <2> QED BY <2>1, <2>2, <2>3, <2>4 DEF Waits
<1>8. Guards'
  <2>1. Guarded(calls', {"saveSettings"}, saving')
    BY <1>1, <1>2, RaisedGuards DEF Asks, Inv, Guards
  <2>2. Guarded(calls', {"password"}, passLoading')
    BY <1>1, <1>2, RaisedGuards DEF Asks, Inv, Guards
  <2>3. Guarded(calls', {"test"}, testing')
    BY <1>1, <1>2, RaisedGuards DEF Asks, Inv, Guards
  <2>4. ASSUME ~strayed' PROVE Guarded(calls', {"load", "saveLink"}, loading')
    <3>1. Guarded(calls, {"load", "saveLink"}, loading)
      BY <1>1, <2>4 DEF Inv, Guards, Stays
    <3>2. CASE c.op \in {"load", "saveLink"}
      <4>1. ~loading /\ loading'
        BY <2>4, <3>2 DEF Asks
      <4>2. ~Has(calls, {"load", "saveLink"})
        BY <3>1, <4>1 DEF Guarded
      <4> QED BY <1>1, <1>2, <4>1, <4>2, AddFirst
    <3>3. CASE c.op \notin {"load", "saveLink"}
      <4>1. loading => loading'
        BY <2>4 DEF Asks
      <4>2. Guarded(calls', {"load", "saveLink"}, loading)
        BY <1>1, <1>2, <3>1, <3>3, AddOther
      <4> QED BY <4>1, <4>2, GuardsMore
    <3> QED BY <3>2, <3>3
  <2> QED BY <2>1, <2>2, <2>3, <2>4 DEF Guards
<1> QED
  BY <1>4, <1>5, <1>7, <1>8 DEF Inv

(* The i-th request was answered, or failed.                               *)
Hears(c) ==
  /\ Lowered(saving, saving', c, "saveSettings")
  /\ Lowered(passLoading, passLoading', c, "password")
  /\ Lowered(testing, testing', c, "test")
  /\ loading' => loading /\ ~(c.mine /\ c.op \in LoadOps)
  /\ ~strayed' /\ loading /\ OnLinkForm(route) =>
       loading' \/ (c.mine /\ c.op \in {"load", "saveLink"})

LEMMA DoneCalls ==
  ASSUME Inv, NEW i \in 1..Len(calls), NEW r, r = RemoveAt(calls, i)
  PROVE  /\ r \in Seq(CallSet) /\ Len(r) < MaxCalls
         /\ Elems(r) \subseteq Sent /\ Sent \subseteq Elems(r) \cup {calls[i]}
<1>1. calls \in Seq(CallSet) /\ Len(calls) <= MaxCalls /\ MaxCalls \in Nat
  BY FormsAssumption DEF Inv, CallsTyped
<1>2. r \in Seq(CallSet) /\ Len(r) = Len(calls) - 1 /\ Len(calls) \in Nat
      /\ Elems(r) \subseteq Elems(calls) /\ Elems(calls) \subseteq Elems(r) \cup {calls[i]}
  BY <1>1, Removing
<1>3. Len(r) < MaxCalls
  BY <1>1, <1>2
<1> QED
  BY <1>2, <1>3 DEF Sent

LEMMA DoneKeeps ==
  ASSUME Inv, NEW i \in 1..Len(calls), NEW c, c = calls[i], Done(i), Hears(c),
         UNCHANGED <<route, strayed, editing>>, PageTyped', Filled'
  PROVE  Inv'
<1>1. calls \in Seq(CallSet) /\ calls' = RemoveAt(calls, i)
  BY DEF Inv, CallsTyped, Done
<1>2. c \in CallSet /\ Fits(c)
  BY CallRight
<1>3. /\ calls' \in Seq(CallSet) /\ Len(calls') < MaxCalls
      /\ Sent' \subseteq Sent /\ Sent \subseteq Sent' \cup {c}
  BY <1>1, DoneCalls DEF Sent
<1>4. CallsTyped'
  <2>1. \A n \in Nat : n < MaxCalls => n <= MaxCalls
    BY FormsAssumption
  <2> QED BY <1>3, <2>1 DEF CallsTyped
<1>5. AllFit'
  <2>1. Stays
    BY DEF Stays
  <2> QED BY <1>3, <2>1, FitsStays DEF Inv, AllFit
<1>6. \A ops : Has(calls, ops) /\ ~(c.mine /\ c.op \in ops) => Has(calls', ops)
  BY <1>3 DEF Has, Sent
<1>7. Waits'
  <2>1. loading' => Has(calls', LoadOps)
    BY <1>6 DEF Hears, Inv, Waits
  <2>2. saving' => Has(calls', {"saveSettings"})
    <3>1. saving' => saving /\ c.op \notin {"saveSettings"}
      BY DEF Hears, Lowered
    <3> QED BY <1>6, <3>1 DEF Inv, Waits
  <2>3. passLoading' => Has(calls', {"password"})
    <3>1. passLoading' => passLoading /\ c.op \notin {"password"}
      BY DEF Hears, Lowered
    <3> QED BY <1>6, <3>1 DEF Inv, Waits
  <2>4. testing' => Has(calls', {"test"})
    <3>1. testing' => testing /\ c.op \notin {"test"}
      BY DEF Hears, Lowered
    <3> QED BY <1>6, <3>1 DEF Inv, Waits
  <2> QED BY <2>1, <2>2, <2>3, <2>4 DEF Waits
<1>8. Guards'
  <2>1. c.op # "saveLink" => c.mine
    BY <1>2 DEF Fits
  <2>2. Guarded(calls', {"saveSettings"}, saving')
    BY <1>1, <2>1, LoweredGuards DEF Hears, Inv, Guards
  <2>3. Guarded(calls', {"password"}, passLoading')
    BY <1>1, <2>1, LoweredGuards DEF Hears, Inv, Guards
  <2>4. Guarded(calls', {"test"}, testing')
    BY <1>1, <2>1, LoweredGuards DEF Hears, Inv, Guards
  <2>5. ASSUME ~strayed', OnLinkForm(route) PROVE Guarded(calls', {"load", "saveLink"}, loading')
    <3>1. Guarded(calls, {"load", "saveLink"}, loading)
      BY <2>5 DEF Inv, Guards
    <3>2. CASE c.mine /\ c.op \in {"load", "saveLink"}
      BY <1>1, <3>1, <3>2, DropOwn
    <3>3. CASE ~(c.mine /\ c.op \in {"load", "saveLink"})
      <4>1. loading => loading'
        BY <2>5, <3>3 DEF Hears
      <4>2. Guarded(calls', {"load", "saveLink"}, loading)
        BY <1>1, <3>1, DropOther
      <4> QED BY <4>1, <4>2, GuardsMore
    <3> QED BY <3>2, <3>3
  <2>6. ASSUME ~OnLinkForm(route) PROVE Guarded(calls', {"load", "saveLink"}, loading')
    <3>1. ~Has(calls, {"load", "saveLink"})
      BY <2>6 DEF Inv, AllFit, Has, Sent, Fits, Home, FormOps
    <3>2. ~Has(calls', {"load", "saveLink"})
      BY <1>3, <3>1 DEF Has, Sent
    <3> QED BY <3>2, NoneGuards
  <2> QED BY <2>2, <2>3, <2>4, <2>5, <2>6 DEF Guards
<1> QED
  BY <1>4, <1>5, <1>7, <1>8 DEF Inv

(* The list of policies is fetched once more after a change was answered.  *)
LEMMA RefetchKeeps ==
  ASSUME Inv, NEW i \in 1..Len(calls), NEW c, c = calls[i], c.op \in {"savePolicy", "delete"},
         FetchPolicies(RemoveAt(calls, i), c.choice),
         UNCHANGED <<route, strayed, editing, saving, passLoading, testing>>, PageTyped', Filled'
  PROVE  Inv'
<1> DEFINE r == RemoveAt(calls, i)
           f == [Call("list", None, None) EXCEPT !.choice = c.choice]
<1>1. calls \in Seq(CallSet) /\ calls' = Append(r, f) /\ loading' = TRUE
  BY DEF Inv, CallsTyped, FetchPolicies
<1>2. c \in CallSet /\ Fits(c)
  BY CallRight
<1>3. c.mine /\ route = "policies"
  BY <1>2 DEF Fits, Home, FormOps, PolicyOps
<1>4. f \in CallSet /\ f.mine /\ f.op = "list"
  BY <1>2 DEF Call, CallSet, Records, Ops
<1>5. /\ r \in Seq(CallSet) /\ Len(r) < MaxCalls
      /\ Elems(r) \subseteq Sent /\ Sent \subseteq Elems(r) \cup {c}
  BY DoneCalls
<1> HIDE DEF r, f
<1>6. /\ calls' \in Seq(CallSet) /\ Len(calls') = Len(r) + 1 /\ Len(r) \in Nat
      /\ Sent' = Elems(r) \cup {f}
  <2>1. r \in Seq(CallSet) /\ f \in CallSet
    BY <1>4, <1>5
  <2> QED BY <1>1, <2>1, Appending DEF Sent
<1>7. CallsTyped'
  <2>1. MaxCalls \in Nat
    BY FormsAssumption
  <2> QED BY <1>5, <1>6, <2>1 DEF CallsTyped
<1>8. Fits(f)'
  BY <1>3, <1>4 DEF Fits, Home, FormOps, PolicyOps
<1>9. AllFit'
  <2>1. Stays
    BY DEF Stays
  <2> QED BY <1>5, <1>6, <1>8, <2>1, FitsStays DEF Inv, AllFit
<1>10. Waits'
  <2>1. ASSUME NEW ops, Has(calls, ops), c.op \notin ops PROVE Has(calls', ops)
    BY <1>5, <1>6, <2>1 DEF Has, Sent
  <2>2. Has(calls', LoadOps)
    BY <1>4, <1>6 DEF Has, Sent, LoadOps
  <2>3. /\ saving' => Has(calls', {"saveSettings"})
        /\ passLoading' => Has(calls', {"password"})
        /\ testing' => Has(calls', {"test"})
    BY <2>1 DEF Inv, Waits
  <2> QED BY <2>2, <2>3 DEF Waits
<1>11. Guards'
  <2>1. ASSUME NEW ops, NEW flag, Guarded(calls, ops, flag), "list" \notin ops
        PROVE  Guarded(calls', ops, flag)
    <3>1. Guarded(r, ops, flag)
      BY <1>1, <2>1, DropOther DEF r
    <3> QED BY <1>1, <1>4, <1>5, <2>1, <3>1, AddOther
  <2>2. /\ Guarded(calls', {"saveSettings"}, saving')
        /\ Guarded(calls', {"password"}, passLoading')
        /\ Guarded(calls', {"test"}, testing')
    BY <2>1 DEF Inv, Guards
  <2>3. ~strayed' => Guarded(calls', {"load", "saveLink"}, loading')
    <3>1. ASSUME ~strayed' PROVE Guarded(calls', {"load", "saveLink"}, loading)
      BY <2>1, <3>1 DEF Inv, Guards
    <3> QED BY <1>1, <3>1, GuardsMore
  <2> QED BY <2>2, <2>3 DEF Guards
<1> QED
  BY <1>7, <1>9, <1>10, <1>11 DEF Inv

-----------------------------------------------------------------------------
(* The links' forms.  *)

LEMMA CallMade ==
  ASSUME NEW op \in Ops, NEW on \in Records, NEW with \in Records
  PROVE  /\ Call(op, on, with) \in CallSet
         /\ Call(op, on, with).mine /\ Call(op, on, with).op = op
         /\ Call(op, on, with).on = on /\ Call(op, on, with).holds = with
  BY DEF Call, CallSet

LEMMA ChoiceMade ==
  ASSUME NEW op \in Ops, NEW on \in Records, NEW with \in Records,
         NEW chosen \in Policies \cup {None}
  PROVE  /\ [Call(op, on, with) EXCEPT !.choice = chosen] \in CallSet
         /\ [Call(op, on, with) EXCEPT !.choice = chosen].mine
         /\ [Call(op, on, with) EXCEPT !.choice = chosen].op = op
         /\ [Call(op, on, with) EXCEPT !.choice = chosen].on = on
         /\ [Call(op, on, with) EXCEPT !.choice = chosen].holds = with
  BY DEF Call, CallSet

LEMMA TypedKeeps ==
  ASSUME Inv, NEW fills, TypeInto(fills), UNCHANGED <<policyPage, settingsPage>>
  PROVE  Inv'
<1>1. /\ typed' \in {None, "early", "kept"}
      /\ UNCHANGED <<route, holds, loading, failed, calls, strayed, listed, showForm, editing,
                     selected, verdict, testing, saving, passLoading>>
  BY DEF TypeInto, policyPage, settingsPage
<1>2. PageTyped' /\ Filled' /\ Stays
  BY <1>1 DEF Inv, PageTyped, Flags, Filled, Stays
<1> QED
  BY <1>1, <1>2, SameKeeps

LEMMA HopKeeps ==
  ASSUME Inv, NEW r \in Routes, Hop(r), UNCHANGED <<policyPage, settingsPage>>
  PROVE  Inv'
<1>1. /\ OnLinkForm(route) /\ OnLinkForm(r) /\ route' = r /\ strayed' = TRUE
      /\ UNCHANGED <<holds, typed, failed, listed, showForm, editing, selected, verdict,
                     testing, saving, passLoading>>
  BY DEF Hop, policyPage, settingsPage
<1>2. loading \in BOOLEAN
  BY DEF Inv, PageTyped, Flags
<1>3. loading' \in BOOLEAN
  BY <1>2 DEF Hop
<1>4. PageTyped'
  BY <1>1, <1>3 DEF Inv, PageTyped, Flags
<1>5. Filled' /\ Stays
  <2>1. r \notin {"policies", "settings", "login", "elsewhere"}
    BY <1>1, NamesApart
  <2> QED BY <1>1, <2>1 DEF Inv, Filled, Stays
<1>6. CASE (r = "new") # (route = "new")
  <2>1. Send(FirstCalls(r)[1]) /\ loading' = (loading \/ r \in Links)
    BY <1>6 DEF Hop
  <2>2. PICK c : FirstCalls(r) = <<c>> /\ FirstOf(c, r)
    BY <1>1, FirstIs, NamesApart
  <2>3. Send(c)
    BY <2>1, <2>2
  <2>4. Fits(c)'
    BY <1>1, <2>2 DEF FirstOf, Fits
  <2>5. loading' => loading \/ c.op \in LoadOps
    BY <2>1, <2>2 DEF FirstOf
  <2>6. Asks(c)
    BY <1>1, <1>5, <2>2, <2>3, <2>4, <2>5 DEF FirstOf, Asks, Raised
  <2> QED BY <1>4, <1>5, <2>6, SendKeeps
<1>7. CASE ~((r = "new") # (route = "new"))
  <2>1. UNCHANGED <<calls, loading>>
    BY <1>7 DEF Hop
  <2> QED BY <1>1, <1>4, <1>5, <2>1, SameKeeps
<1> QED
  BY <1>6, <1>7

LEMMA RandomSlugKeeps ==
  ASSUME Inv, RandomSlug, UNCHANGED <<policyPage, settingsPage>>
  PROVE  Inv'
<1> DEFINE c == Call("slug", None, None)
<1>1. c \in CallSet /\ c.mine /\ c.op = "slug"
  BY CallMade DEF Ops, Records
<1>2. /\ Send(c) /\ route = "new" /\ typed' \in {typed, "early"}
      /\ UNCHANGED <<route, holds, loading, failed, strayed, listed, showForm, editing,
                     selected, verdict, testing, saving, passLoading>>
  BY DEF RandomSlug, policyPage, settingsPage
<1> HIDE DEF c
<1>3. PageTyped' /\ Filled'
  BY <1>2 DEF Inv, PageTyped, Flags, Filled
<1>4. Stays /\ Fits(c)'
  BY <1>1, <1>2, NamesApart DEF Stays, Fits, Home, FormOps, PolicyOps
<1>5. Asks(c)
  BY <1>1, <1>2, <1>4 DEF Asks, Raised
<1> QED
  BY <1>3, <1>5, SendKeeps

LEMMA SubmitLinkKeeps ==
  ASSUME Inv, SubmitLink, UNCHANGED <<policyPage, settingsPage>>
  PROVE  Inv'
<1>0. PICK c : c = Call("saveLink", route, holds)
  OBVIOUS
<1>1. /\ Send(c) /\ OnLinkForm(route) /\ ~loading /\ loading' = TRUE
      /\ UNCHANGED <<route, holds, typed, failed, strayed, listed, showForm, editing,
                     selected, verdict, testing, saving, passLoading>>
  BY <1>0 DEF SubmitLink, policyPage, settingsPage
<1>2. route \in Links \cup {"new"} /\ holds \in Links \cup {None}
      /\ (~strayed => holds \in {route, None})
  BY <1>1 DEF Inv, Filled, OnLinkForm
<1>3. c \in CallSet /\ c.mine /\ c.op = "saveLink" /\ c.on = route /\ c.holds = holds
  BY <1>0, <1>2, CallMade DEF Ops, Records
<1>4. PageTyped' /\ Filled'
  BY <1>1 DEF Inv, PageTyped, Flags, Filled
<1>5. Stays /\ Fits(c)'
  <2>1. Home(c.op, route)
    BY <1>1, <1>3 DEF Home, FormOps, PolicyOps
  <2>2. route' = route /\ strayed' = strayed /\ editing' = editing
    BY <1>1
  <2>3. ~strayed => c.holds \in {c.on, None}
    BY <1>2, <1>3
  <2>4. Fits(c)
    BY <1>3, <2>1, <2>3 DEF Fits
  <2>5. Stays
    BY <2>2 DEF Stays
  <2> QED BY <2>4, <2>5, FitsStays
<1>6. Asks(c)
  BY <1>1, <1>3, <1>5 DEF Asks, Raised, LoadOps
<1> QED
  BY <1>4, <1>6, SendKeeps

LEMMA LinkAnsweredKeeps ==
  ASSUME Inv, NEW i \in 1..Len(calls), LinkAnswered(i), UNCHANGED <<policyPage, settingsPage>>
  PROVE  Inv'
<1> DEFINE c == calls[i]
<1>1. c \in CallSet /\ Fits(c)
  BY CallRight
<1>2. UNCHANGED <<listed, showForm, editing, selected, verdict, testing, saving, passLoading>>
  BY DEF policyPage, settingsPage
<1>3. CASE LinkLoaded(i)
  <2>1. /\ c.op = "load" /\ holds' = c.on /\ typed' = None /\ loading' = FALSE /\ Done(i)
        /\ UNCHANGED <<route, failed, strayed>>
    BY <1>3 DEF LinkLoaded
  <2> HIDE DEF c
  <2>2. c.mine /\ OnLinkForm(route) /\ c.on \in Links /\ (~strayed => c.on = route)
    BY <1>1, <2>1 DEF Fits, Home, FormOps
  <2>3. PageTyped' /\ Filled'
    <3>1. route \notin {"policies", "settings", "login", "elsewhere"}
      BY <2>2, NamesApart
    <3> QED BY <1>2, <2>1, <2>2, <3>1 DEF Inv, PageTyped, Flags, Filled
  <2>4. Hears(c)
    BY <1>2, <2>1, <2>2 DEF Hears, Lowered
  <2> QED BY <1>2, <2>1, <2>3, <2>4, DoneKeeps DEF c
<1>4. CASE LinkLoadFails(i)
  <2>1. /\ c.op = "load" /\ loading' = FALSE /\ Done(i)
        /\ UNCHANGED <<route, holds, typed, failed, strayed>>
    BY <1>4 DEF LinkLoadFails
  <2> HIDE DEF c
  <2>2. c.mine /\ OnLinkForm(route)
    BY <1>1, <2>1 DEF Fits, Home, FormOps
  <2>3. PageTyped' /\ Filled'
    <3>1. route \notin {"policies", "settings", "login", "elsewhere"}
      BY <2>2, NamesApart
    <3> QED BY <1>2, <2>1, <2>2, <3>1 DEF Inv, PageTyped, Flags, Filled
  <2>4. Hears(c)
    BY <1>2, <2>1, <2>2 DEF Hears, Lowered
  <2> QED BY <1>2, <2>1, <2>3, <2>4, DoneKeeps DEF c
<1>5. CASE SlugAnswered(i)
  <2>1. /\ c.op = "slug" /\ typed' \in {typed, "early"} /\ Done(i)
        /\ UNCHANGED <<route, holds, loading, failed, strayed>>
    BY <1>5 DEF SlugAnswered
  <2> HIDE DEF c
  <2>2. PageTyped' /\ Filled'
    BY <1>2, <2>1 DEF Inv, PageTyped, Flags, Filled
  <2>3. Hears(c)
    BY <1>2, <2>1 DEF Hears, Lowered, LoadOps
  <2> QED BY <1>2, <2>1, <2>2, <2>3, DoneKeeps DEF c
<1>6. CASE LinkSaveFails(i)
  <2>1. /\ c.op = "saveLink" /\ loading' = (loading /\ ~c.mine) /\ Done(i)
        /\ UNCHANGED <<route, holds, typed, failed, strayed>>
    BY <1>6 DEF LinkSaveFails
  <2> HIDE DEF c
  <2>2. loading' \in BOOLEAN /\ (loading' <=> loading /\ ~c.mine)
    BY <2>1
  <2>3. c.mine => OnLinkForm(route)
    BY <1>1, <2>1 DEF Fits, Home, FormOps
  <2>4. PageTyped'
    BY <1>2, <2>1, <2>2 DEF Inv, PageTyped, Flags
  <2>5. Filled'
    <3>1. route = "settings" => ~c.mine
      BY <2>3, NamesApart
    <3> QED BY <1>2, <2>1, <2>2, <3>1 DEF Inv, Filled
  <2>6. Hears(c)
    BY <1>2, <2>1, <2>2 DEF Hears, Lowered
  <2> QED BY <1>2, <2>1, <2>4, <2>5, <2>6, DoneKeeps DEF c
<1> QED
  BY <1>3, <1>4, <1>5, <1>6 DEF LinkAnswered

-----------------------------------------------------------------------------
(* The page of policies.  *)

LEMMA RetryPoliciesKeeps ==
  ASSUME Inv, RetryPolicies, UNCHANGED settingsPage
  PROVE  Inv'
<1>1. PICK c : c = [Call("list", None, None) EXCEPT !.choice = selected]
  OBVIOUS
<1>2. /\ route = "policies" /\ Send(c) /\ loading' = TRUE /\ failed' = FALSE
      /\ UNCHANGED <<route, holds, typed, strayed, listed, showForm, editing, selected,
                     verdict, testing, saving, passLoading>>
  BY <1>1 DEF RetryPolicies, FetchPolicies, Send, policyPage, settingsPage
<1>3. selected \in Policies \cup {None}
  BY DEF Inv, PageTyped
<1>4. c \in CallSet /\ c.mine /\ c.op = "list"
  <2>1. "list" \in Ops /\ None \in Records
    BY DEF Ops, Records
  <2> QED BY <1>1, <1>3, <2>1, ChoiceMade
<1>5. PageTyped' /\ Filled'
  BY <1>2 DEF Inv, PageTyped, Flags, Filled
<1>6. Fits(c) /\ Stays
  BY <1>2, <1>4 DEF Stays, Fits, Home, FormOps, PolicyOps
<1>7. Fits(c)'
  BY <1>6, FitsStays
<1>8. Asks(c)
  BY <1>2, <1>4, <1>6, <1>7 DEF Asks, Raised, LoadOps
<1> QED
  BY <1>5, <1>8, SendKeeps

(* The form is filled for a policy that is shown, or for a new one.        *)
LEMMA ShowFormKeeps ==
  ASSUME Inv, NEW p \in Policies \cup {None}, route = "policies", ShowForm(p),
         UNCHANGED settingsPage
  PROVE  Inv'
<1>1. /\ showForm' = TRUE /\ editing' = p /\ holds' = p /\ typed' = None
      /\ strayed' = (strayed \/ InFlight({"savePolicy"}))
      /\ UNCHANGED <<route, loading, failed, calls, listed, selected, verdict, testing,
                     saving, passLoading>>
  BY DEF ShowForm, settingsPage
<1>2. strayed' \in BOOLEAN /\ (strayed => strayed')
  BY <1>1 DEF Inv, PageTyped, Flags, InFlight
<1>3. PageTyped'
  BY <1>1, <1>2 DEF Inv, PageTyped, Flags
<1>4. Filled'
  <2>1. route' = "policies" /\ ~OnLinkForm(route')
    BY <1>1, NamesApart
  <2> QED BY <1>1, <1>2, <2>1 DEF Filled
<1>5. AllFit'
  <2>1. Sent' = Sent
    BY <1>1 DEF Sent, Elems
  <2>2. ASSUME NEW c \in Sent PROVE Fits(c)'
    <3>1. Fits(c)
      BY <2>2 DEF Inv, AllFit
    <3>2. c.op = "savePolicy" => strayed'
      <4>1. c.op = "savePolicy" => c.mine
        BY <3>1 DEF Fits
      <4>2. c.mine /\ c.op = "savePolicy" => InFlight({"savePolicy"})
        BY <2>2 DEF Sent, Elems, InFlight
      <4> QED BY <1>1, <4>1, <4>2
    <3> QED BY <1>1, <1>2, <3>1, <3>2 DEF Fits
  <2> QED BY <2>1, <2>2 DEF AllFit
<1> QED
  BY <1>1, <1>2, <1>3, <1>4, <1>5, SameCalls

LEMMA CancelKeeps ==
  ASSUME Inv, CancelPolicy, UNCHANGED settingsPage
  PROVE  Inv'
<1>1. /\ showForm' = FALSE /\ typed' = None
      /\ UNCHANGED <<route, holds, loading, failed, calls, strayed, listed, editing, selected,
                     verdict, testing, saving, passLoading>>
  BY DEF CancelPolicy, settingsPage
<1>2. PageTyped' /\ Filled' /\ Stays
  BY <1>1 DEF Inv, PageTyped, Flags, Filled, Stays
<1> QED
  BY <1>1, <1>2, SameKeeps

LEMMA SelectKeeps ==
  ASSUME Inv, NEW p \in Policies \cup {None}, SelectPolicy(p), UNCHANGED settingsPage
  PROVE  Inv'
<1>1. /\ selected' = p
      /\ UNCHANGED <<route, holds, typed, loading, failed, calls, strayed, listed, showForm,
                     editing, verdict, testing, saving, passLoading>>
  BY DEF SelectPolicy, form, settingsPage
<1>2. PageTyped' /\ Filled' /\ Stays
  BY <1>1 DEF Inv, PageTyped, Flags, Filled, Stays
<1> QED
  BY <1>1, <1>2, SameKeeps

(* A policy's save or deletion changes nothing before it is answered.      *)
LEMMA PolicyChangeKeeps ==
  ASSUME Inv, NEW c, c \in CallSet, c.mine, c.op \in {"savePolicy", "delete"}, Fits(c), Send(c),
         UNCHANGED <<route, holds, typed, loading, failed, strayed, policyPage, settingsPage>>
  PROVE  Inv'
<1>1. UNCHANGED <<listed, showForm, editing, selected, verdict, testing, saving, passLoading>>
  BY DEF policyPage, settingsPage
<1>2. PageTyped' /\ Filled'
  BY <1>1 DEF Inv, PageTyped, Flags, Filled
<1>3. Stays
  BY <1>1 DEF Stays
<1>4. Fits(c)'
  BY <1>3, FitsStays
<1>5. Asks(c)
  BY <1>1, <1>3, <1>4 DEF Asks, Raised
<1> QED
  BY <1>2, <1>5, SendKeeps

LEMMA SubmitPolicyKeeps ==
  ASSUME Inv, SubmitPolicy, UNCHANGED settingsPage
  PROVE  Inv'
<1>1. PICK c : c = PolicyCall("savePolicy", editing, holds)
  OBVIOUS
<1>2. /\ route = "policies" /\ showForm /\ Send(c)
      /\ UNCHANGED <<route, holds, typed, loading, failed, strayed, policyPage>>
  BY <1>1 DEF SubmitPolicy
<1>3. /\ selected \in Policies \cup {None} /\ editing \in Policies \cup {None}
      /\ holds = editing
  BY <1>2 DEF Inv, PageTyped, Filled
<1>4. c \in CallSet /\ c.mine /\ c.op = "savePolicy" /\ c.on = editing /\ c.holds = editing
  BY <1>1, <1>3, ChoiceMade DEF PolicyCall, Ops, Records
<1>5. Fits(c)
  BY <1>2, <1>4 DEF Fits, Home, FormOps, PolicyOps
<1> QED
  BY <1>2, <1>4, <1>5, PolicyChangeKeeps

LEMMA DeletePolicyKeeps ==
  ASSUME Inv, NEW p \in Policies, DeletePolicy(p), UNCHANGED settingsPage
  PROVE  Inv'
<1>1. PICK c : c = PolicyCall("delete", p, None)
  OBVIOUS
<1>2. /\ route = "policies" /\ Send(c)
      /\ UNCHANGED <<route, holds, typed, loading, failed, strayed, policyPage>>
  BY <1>1 DEF DeletePolicy, RowsShown
<1>3. selected \in Policies \cup {None}
  BY DEF Inv, PageTyped
<1>4. c \in CallSet /\ c.mine /\ c.op = "delete"
  BY <1>1, <1>3, ChoiceMade DEF PolicyCall, Ops, Records
<1>5. Fits(c)
  BY <1>2, <1>4 DEF Fits, Home, FormOps, PolicyOps
<1> QED
  BY <1>2, <1>4, <1>5, PolicyChangeKeeps

LEMMA RunTestKeeps ==
  ASSUME Inv, RunTest, UNCHANGED settingsPage
  PROVE  Inv'
<1>1. PICK c : c = Call("test", selected, None)
  OBVIOUS
<1>2. /\ route = "policies" /\ selected # None /\ ~testing /\ Send(c)
      /\ testing' = TRUE /\ verdict' = None
      /\ UNCHANGED <<route, holds, typed, loading, failed, strayed, listed, showForm, editing,
                     selected, saving, passLoading>>
  BY <1>1 DEF RunTest, settingsPage
<1>3. selected \in Policies
  BY <1>2 DEF Inv, PageTyped
<1>4. c \in CallSet /\ c.mine /\ c.op = "test" /\ c.on = selected
  BY <1>1, <1>3, CallMade DEF Ops, Records
<1>5. PageTyped' /\ Filled'
  BY <1>2 DEF Inv, PageTyped, Flags, Filled
<1>6. Fits(c) /\ Stays
  BY <1>2, <1>3, <1>4 DEF Stays, Fits, Home, FormOps, PolicyOps
<1>7. Fits(c)'
  BY <1>6, FitsStays
<1>8. Asks(c)
  BY <1>2, <1>4, <1>6, <1>7 DEF Asks, Raised
<1> QED
  BY <1>5, <1>8, SendKeeps

LEMMA PolicyPageKeeps ==
  ASSUME Inv, PolicyPageNext, UNCHANGED settingsPage
  PROVE  Inv'
<1>1. CASE CreatePolicy
  BY <1>1, ShowFormKeeps DEF CreatePolicy
<1>2. CASE TypePolicy
  BY <1>2, TypedKeeps DEF TypePolicy
<1>3. ASSUME NEW p \in Policies, EditPolicy(p) PROVE Inv'
  BY <1>3, ShowFormKeeps DEF EditPolicy, RowsShown
<1>4. ASSUME NEW p \in Policies, DeletePolicy(p) PROVE Inv'
  BY <1>4, DeletePolicyKeeps
<1>5. ASSUME NEW p \in Policies \cup {None}, SelectPolicy(p) PROVE Inv'
  BY <1>5, SelectKeeps
<1> QED
  BY <1>1, <1>2, <1>3, <1>4, <1>5, RetryPoliciesKeeps, CancelKeeps, SubmitPolicyKeeps,
     RunTestKeeps DEF PolicyPageNext

LEMMA PolicyAnsweredKeeps ==
  ASSUME Inv, NEW i \in 1..Len(calls), PolicyAnswered(i), UNCHANGED settingsPage
  PROVE  Inv'
<1> DEFINE c == calls[i]
<1>1. c \in CallSet /\ Fits(c)
  BY CallRight
<1>2. c.op \in PolicyOps => c.mine /\ route = "policies" /\ ~OnLinkForm(route)
  <2>1. c.op \in PolicyOps => c.mine /\ route = "policies"
    BY <1>1 DEF Fits, Home, PolicyOps
  <2> QED BY <2>1, NamesApart
<1>3. UNCHANGED <<saving, passLoading>>
  BY DEF settingsPage
<1>4. ASSUME NEW found \in SUBSET Policies, PoliciesListed(i, found) PROVE Inv'
  <2>1. /\ c.op = "list" /\ listed' = found /\ loading' = FALSE /\ Done(i)
        /\ selected' \in found \cup {selected}
        /\ UNCHANGED <<route, holds, typed, failed, strayed, showForm, editing, verdict, testing>>
    BY <1>4 DEF PoliciesListed
  <2> HIDE DEF c
  <2>2. PageTyped' /\ Filled'
    BY <1>2, <1>3, <2>1 DEF Inv, PageTyped, Flags, Filled, PolicyOps
  <2>3. Hears(c)
    BY <1>2, <1>3, <2>1 DEF Hears, Lowered, PolicyOps
  <2> QED BY <2>1, <2>2, <2>3, DoneKeeps DEF c
<1>5. CASE PoliciesFail(i)
  <2>1. /\ c.op = "list" /\ failed' = TRUE /\ loading' = FALSE /\ Done(i)
        /\ UNCHANGED <<route, holds, typed, strayed, listed, showForm, editing, selected,
                       verdict, testing>>
    BY <1>5 DEF PoliciesFail, policyPage
  <2> HIDE DEF c
  <2>2. PageTyped' /\ Filled'
    BY <1>2, <1>3, <2>1 DEF Inv, PageTyped, Flags, Filled, PolicyOps
  <2>3. Hears(c)
    BY <1>2, <1>3, <2>1 DEF Hears, Lowered, PolicyOps
  <2> QED BY <2>1, <2>2, <2>3, DoneKeeps DEF c
<1>6. CASE PolicySaved(i)
  <2>1. /\ c.op = "savePolicy" /\ showForm' = FALSE /\ typed' = None
        /\ FetchPolicies(RemoveAt(calls, i), c.choice) /\ loading' = TRUE /\ failed' = FALSE
        /\ UNCHANGED <<route, holds, strayed, listed, editing, selected, verdict, testing>>
    BY <1>6 DEF PolicySaved, FetchPolicies
  <2>2. PageTyped' /\ Filled'
    BY <1>2, <1>3, <2>1 DEF Inv, PageTyped, Flags, Filled, PolicyOps
  <2> QED BY <1>3, <2>1, <2>2, RefetchKeeps
<1>7. CASE PolicyDeleted(i)
  <2>1. /\ c.op = "delete"
        /\ FetchPolicies(RemoveAt(calls, i), c.choice) /\ loading' = TRUE /\ failed' = FALSE
        /\ UNCHANGED <<route, holds, typed, strayed, listed, showForm, editing, selected,
                       verdict, testing>>
    BY <1>7 DEF PolicyDeleted, FetchPolicies, policyPage
  <2>2. PageTyped' /\ Filled'
    BY <1>2, <1>3, <2>1 DEF Inv, PageTyped, Flags, Filled, PolicyOps
  <2> QED BY <1>3, <2>1, <2>2, RefetchKeeps
<1>8. CASE PolicyChangeFails(i)
  <2>1. /\ c.op \in {"savePolicy", "delete"} /\ Done(i)
        /\ UNCHANGED <<route, holds, typed, loading, failed, strayed, listed, showForm, editing,
                       selected, verdict, testing>>
    BY <1>8 DEF PolicyChangeFails, policyPage
  <2> HIDE DEF c
  <2>2. PageTyped' /\ Filled'
    BY <1>3, <2>1 DEF Inv, PageTyped, Flags, Filled
  <2>3. Hears(c)
    BY <1>3, <2>1 DEF Hears, Lowered, LoadOps
  <2> QED BY <2>1, <2>2, <2>3, DoneKeeps DEF c
<1>9. CASE TestAnswered(i)
  <2>1. /\ c.op = "test" /\ testing' = FALSE /\ verdict' \in {c.on, None} /\ Done(i)
        /\ UNCHANGED <<route, holds, typed, loading, failed, strayed, listed, showForm, editing,
                       selected>>
    BY <1>9 DEF TestAnswered
  <2> HIDE DEF c
  <2>2. c.on \in Policies
    BY <1>1, <2>1 DEF Fits
  <2>3. PageTyped' /\ Filled'
    BY <1>3, <2>1, <2>2 DEF Inv, PageTyped, Flags, Filled
  <2>4. Hears(c)
    BY <1>3, <2>1 DEF Hears, Lowered, LoadOps
  <2> QED BY <2>1, <2>3, <2>4, DoneKeeps DEF c
<1> QED
  BY <1>4, <1>5, <1>6, <1>7, <1>8, <1>9 DEF PolicyAnswered

-----------------------------------------------------------------------------
(* The page of settings.  *)

LEMMA RetrySettingsKeeps ==
  ASSUME Inv, RetrySettings, UNCHANGED policyPage
  PROVE  Inv'
<1>1. PICK c : c = Call("settings", None, None)
  OBVIOUS
<1>2. /\ route = "settings" /\ Send(c) /\ loading' = TRUE /\ failed' = FALSE
      /\ UNCHANGED <<route, holds, typed, strayed, listed, showForm, editing, selected,
                     verdict, testing, saving, passLoading>>
  BY <1>1 DEF RetrySettings, policyPage, settingsPage
<1>3. c \in CallSet /\ c.mine /\ c.op = "settings"
  BY <1>1, CallMade DEF Ops, Records
<1>4. PageTyped' /\ Filled'
  BY <1>2 DEF Inv, PageTyped, Flags, Filled
<1>5. Fits(c) /\ Stays
  BY <1>2, <1>3 DEF Stays, Fits, Home, FormOps, PolicyOps
<1>6. Fits(c)'
  BY <1>5, FitsStays
<1>7. Asks(c)
  BY <1>2, <1>3, <1>5, <1>6 DEF Asks, Raised, LoadOps
<1> QED
  BY <1>4, <1>7, SendKeeps

LEMMA SubmitSettingsKeeps ==
  ASSUME Inv, SubmitSettings, UNCHANGED policyPage
  PROVE  Inv'
<1>1. PICK c : c = Call("saveSettings", "settings", holds)
  OBVIOUS
<1>2. /\ route = "settings" /\ ~loading /\ ~failed /\ ~saving /\ Send(c) /\ saving' = TRUE
      /\ UNCHANGED <<route, holds, typed, loading, failed, strayed, listed, showForm, editing,
                     selected, verdict, testing, passLoading>>
  BY <1>1 DEF SubmitSettings, SettingsShown, policyPage
<1>3. holds = "settings"
  BY <1>2 DEF Inv, Filled
<1>4. c \in CallSet /\ c.mine /\ c.op = "saveSettings" /\ c.on = c.holds
  BY <1>1, <1>3, CallMade DEF Ops, Records
<1>5. PageTyped' /\ Filled'
  BY <1>2 DEF Inv, PageTyped, Flags, Filled
<1>6. Fits(c) /\ Stays
  BY <1>2, <1>4 DEF Stays, Fits, Home, FormOps, PolicyOps
<1>7. Fits(c)'
  BY <1>6, FitsStays
<1>8. Asks(c)
  BY <1>2, <1>4, <1>6, <1>7 DEF Asks, Raised
<1> QED
  BY <1>5, <1>8, SendKeeps

LEMMA SubmitPasswordKeeps ==
  ASSUME Inv, SubmitPassword, UNCHANGED policyPage
  PROVE  Inv'
<1>1. PICK c : c = Call("password", None, None)
  OBVIOUS
<1>2. /\ route = "settings" /\ ~passLoading /\ Send(c) /\ passLoading' = TRUE
      /\ UNCHANGED <<route, holds, typed, loading, failed, strayed, listed, showForm, editing,
                     selected, verdict, testing, saving>>
  BY <1>1 DEF SubmitPassword, SettingsShown, policyPage
<1>3. c \in CallSet /\ c.mine /\ c.op = "password"
  BY <1>1, CallMade DEF Ops, Records
<1>4. PageTyped' /\ Filled'
  BY <1>2 DEF Inv, PageTyped, Flags, Filled
<1>5. Fits(c) /\ Stays
  BY <1>2, <1>3 DEF Stays, Fits, Home, FormOps, PolicyOps
<1>6. Fits(c)'
  BY <1>5, FitsStays
<1>7. Asks(c)
  BY <1>2, <1>3, <1>5, <1>6 DEF Asks, Raised
<1> QED
  BY <1>4, <1>7, SendKeeps

LEMMA SettingsPageKeeps ==
  ASSUME Inv, SettingsPageNext, UNCHANGED policyPage
  PROVE  Inv'
<1>1. CASE TypeSetting
  BY <1>1, TypedKeeps DEF TypeSetting
<1> QED
  BY <1>1, RetrySettingsKeeps, SubmitSettingsKeeps, SubmitPasswordKeeps DEF SettingsPageNext

LEMMA SettingsPageAnsweredKeeps ==
  ASSUME Inv, NEW i \in 1..Len(calls), SettingsPageAnswered(i), UNCHANGED policyPage
  PROVE  Inv'
<1> DEFINE c == calls[i]
<1>1. c \in CallSet /\ Fits(c)
  BY CallRight
<1>2. c.op = "settings" => c.mine /\ route = "settings" /\ ~OnLinkForm(route)
  <2>1. c.op = "settings" => c.mine /\ route = "settings"
    BY <1>1 DEF Fits, Home, FormOps, PolicyOps
  <2> QED BY <2>1, NamesApart
<1>3. UNCHANGED <<listed, showForm, editing, selected, verdict, testing>>
  BY DEF policyPage
<1>4. CASE SettingsLoaded(i)
  <2>1. /\ c.op = "settings" /\ holds' = "settings" /\ typed' = None /\ loading' = FALSE /\ Done(i)
        /\ UNCHANGED <<route, failed, strayed, saving, passLoading>>
    BY <1>4 DEF SettingsLoaded, settingsPage
  <2> HIDE DEF c
  <2>2. PageTyped' /\ Filled'
    BY <1>2, <1>3, <2>1 DEF Inv, PageTyped, Flags, Filled
  <2>3. Hears(c)
    BY <1>2, <1>3, <2>1 DEF Hears, Lowered
  <2> QED BY <1>3, <2>1, <2>2, <2>3, DoneKeeps DEF c
<1>5. CASE SettingsFail(i)
  <2>1. /\ c.op = "settings" /\ failed' = TRUE /\ loading' = FALSE /\ Done(i)
        /\ UNCHANGED <<route, holds, typed, strayed, saving, passLoading>>
    BY <1>5 DEF SettingsFail, settingsPage
  <2> HIDE DEF c
  <2>2. PageTyped' /\ Filled'
    BY <1>2, <1>3, <2>1 DEF Inv, PageTyped, Flags, Filled
  <2>3. Hears(c)
    BY <1>2, <1>3, <2>1 DEF Hears, Lowered
  <2> QED BY <1>3, <2>1, <2>2, <2>3, DoneKeeps DEF c
<1>6. CASE SettingsAnswered(i)
  <2>1. /\ c.op = "saveSettings" /\ saving' = FALSE /\ Done(i)
        /\ UNCHANGED <<route, holds, typed, loading, failed, strayed, passLoading>>
    BY <1>6 DEF SettingsAnswered
  <2> HIDE DEF c
  <2>2. PageTyped' /\ Filled'
    BY <1>3, <2>1 DEF Inv, PageTyped, Flags, Filled
  <2>3. Hears(c)
    BY <1>3, <2>1 DEF Hears, Lowered, LoadOps
  <2> QED BY <1>3, <2>1, <2>2, <2>3, DoneKeeps DEF c
<1>7. CASE PasswordAnswered(i)
  <2>1. /\ c.op = "password" /\ passLoading' = FALSE /\ Done(i)
        /\ UNCHANGED <<route, holds, typed, loading, failed, strayed, saving>>
    BY <1>7 DEF PasswordAnswered
  <2> HIDE DEF c
  <2>2. PageTyped' /\ Filled'
    BY <1>3, <2>1 DEF Inv, PageTyped, Flags, Filled
  <2>3. Hears(c)
    BY <1>3, <2>1 DEF Hears, Lowered, LoadOps
  <2> QED BY <1>3, <2>1, <2>2, <2>3, DoneKeeps DEF c
<1> QED
  BY <1>4, <1>5, <1>6, <1>7 DEF SettingsPageAnswered

-----------------------------------------------------------------------------
(* All of the console.  *)

LEMMA MovesKeep ==
  ASSUME Inv, Moves
  PROVE  Inv'
<1>1. calls \in Seq(CallSet) /\ route \in Routes
  BY DEF Inv, CallsTyped, PageTyped
<1> QED
  BY <1>1, MountedKeeps DEF Moves, Reconnect, Navigate

(* The session ends, or a link's save sends the tab to the list of links.   *)
LEMMA LeavesKeep ==
  ASSUME Inv, NEW r \in {"login", "elsewhere"}, NEW others \in Seq(CallSet),
         Len(others) <= MaxCalls, Mounted(r, others), PolicyPageMounted, SettingsPageMounted
  PROVE  Inv'
<1>1. Len(Orphaned(others)) <= MaxCalls
  <2>1. Orphaned(others) \in Seq(Orphan) /\ Len(Orphaned(others)) <= Len(others)
    BY OrphanedTyped
  <2>2. Len(Orphaned(others)) \in Nat /\ Len(others) \in Nat /\ MaxCalls \in Nat
    BY <2>1, FormsAssumption
  <2> QED BY <2>1, <2>2
<1>2. r \in Routes
  BY DEF Routes
<1> QED
  BY <1>1, <1>2, MountedKeeps

LEMMA SentAwayKeeps ==
  ASSUME Inv, SentAway
  PROVE  Inv'
  BY LeavesKeep DEF SentAway, Inv, CallsTyped

LEMMA AnsweredAwayKeeps ==
  ASSUME Inv, NEW i \in 1..Len(calls), LinkSaved(i) \/ Refused(i),
         PolicyPageMounted, SettingsPageMounted
  PROVE  Inv'
<1>1. PICK others : others = RemoveAt(calls, i)
  OBVIOUS
<1>2. others \in Seq(CallSet) /\ Len(others) < MaxCalls
  BY <1>1, DoneCalls
<1>3. Len(others) <= MaxCalls
  <2>1. Len(others) \in Nat /\ MaxCalls \in Nat
    BY <1>2, FormsAssumption
  <2> QED BY <1>2, <2>1
<1>4. Mounted("elsewhere", others) \/ Mounted("login", others)
  BY <1>1 DEF LinkSaved, Refused
<1> QED
  BY <1>2, <1>3, <1>4, LeavesKeep

LEMMA LinkFormKeeps ==
  ASSUME Inv, LinkFormNext, UNCHANGED <<policyPage, settingsPage>>
  PROVE  Inv'
<1>1. CASE TypeLink
  BY <1>1, TypedKeeps DEF TypeLink
<1> QED
  BY <1>1, HopKeeps, RandomSlugKeeps, SubmitLinkKeeps DEF LinkFormNext

LEMMA NextInv == Inv /\ [Next]_vars => Inv'
<1> SUFFICES ASSUME Inv, [Next]_vars PROVE Inv'
  OBVIOUS
<1>1. CASE Moves \/ SentAway
  BY <1>1, MovesKeep, SentAwayKeeps
<1>2. CASE LinkFormNext /\ UNCHANGED <<policyPage, settingsPage>>
  BY <1>2, LinkFormKeeps
<1>3. CASE PolicyPageNext /\ UNCHANGED settingsPage
  BY <1>3, PolicyPageKeeps
<1>4. CASE SettingsPageNext /\ UNCHANGED policyPage
  BY <1>4, SettingsPageKeeps
<1>5. ASSUME NEW i \in 1..Len(calls), Answer(i) PROVE Inv'
  BY <1>5, LinkAnsweredKeeps, AnsweredAwayKeeps, PolicyAnsweredKeeps, SettingsPageAnsweredKeeps
     DEF Answer
<1>6. CASE UNCHANGED vars
  <2>1. UNCHANGED <<route, holds, typed, loading, failed, calls, strayed, listed, showForm,
                    editing, selected, verdict, testing, saving, passLoading>>
    BY <1>6 DEF vars, form, policyPage, settingsPage
  <2>2. PageTyped' /\ Filled' /\ Stays
    BY <2>1 DEF Inv, PageTyped, Flags, Filled, Stays
  <2> QED BY <2>1, <2>2, SameKeeps
<1> QED
  BY <1>1, <1>2, <1>3, <1>4, <1>5, <1>6 DEF Next

LEMMA AlwaysInv == Spec => []Inv
  BY InitInv, NextInv, PTL DEF Spec

-----------------------------------------------------------------------------
(* Every variable has the type of what it models: whatever answers come    *)
(* late, what a form holds is a record of its own page.                    *)
THEOREM TypeCorrect == Spec => []TypeOK
<1>1. Inv => TypeOK
  <2> SUFFICES ASSUME Inv PROVE TypeOK
    OBVIOUS
  <2>1. ASSUME NEW i \in 1..Len(calls) PROVE calls[i].op \in Ops
    <3>1. calls[i] \in CallSet
      BY CallRight
    <3> QED BY <3>1 DEF CallSet
  <2>2. ASSUME holds # None
        PROVE  CASE OnLinkForm(route) -> holds \in Links
                 [] route = "policies" -> holds \in Policies
                 [] OTHER -> route = "settings" /\ holds = "settings"
    <3>1. CASE OnLinkForm(route)
      <4>1. route # "policies" /\ holds \in Links
        BY <2>2, <3>1, NamesApart DEF Inv, Filled
      <4> QED BY <3>1, <4>1
    <3>2. CASE route = "policies"
      <4>1. ~OnLinkForm(route) /\ holds \in Policies
        BY <2>2, <3>2, NamesApart DEF Inv, Filled
      <4> QED BY <3>2, <4>1
    <3>3. CASE ~OnLinkForm(route) /\ route # "policies"
      <4>1. route = "settings" /\ holds = "settings"
        BY <2>2, <3>3 DEF Inv, PageTyped, Filled, Routes, OnLinkForm
      <4> QED BY <3>3, <4>1
    <3> QED BY <3>1, <3>2, <3>3
  <2>3. /\ route \in Routes /\ typed \in {None, "early", "kept"}
        /\ {loading, failed, strayed, showForm, testing, saving, passLoading} \subseteq BOOLEAN
        /\ listed \subseteq Policies
        /\ {editing, selected, verdict} \subseteq Policies \cup {None}
        /\ Len(calls) =< MaxCalls
    BY DEF Inv, PageTyped, Flags, CallsTyped
  <2> QED BY <2>1, <2>2, <2>3 DEF TypeOK
<1> QED
  BY <1>1, AlwaysInv, PTL

(* A page that says it is loading, and a button that waits, have a request *)
(* of the mounted page in flight: none waits for an answer that went to a  *)
(* page that is gone.                                                      *)
THEOREM WaitersHaveCalls == Spec => []WaitingHasCall
<1>1. ASSUME NEW ops PROVE Has(calls, ops) => InFlight(ops)
  BY DEF Has, Elems, InFlight
<1>2. Inv => WaitingHasCall
  BY <1>1 DEF Inv, Waits, WaitingHasCall, LoadOps
<1> QED
  BY <1>2, AlwaysInv, PTL

(* The buttons that are disabled while they wait keep the same change from *)
(* being sent twice, however many requests are in flight.                  *)
THEOREM SavesOneAtATime == Spec => []OneSaveInFlight
<1>1. Inv => OneSaveInFlight
  BY DEF Inv, Guards, Guarded, Alone, OneSaveInFlight
<1> QED
  BY <1>1, AlwaysInv, PTL

(* What is saved as a record was not loaded as another one, and settings   *)
(* are saved only after they were loaded.                                  *)
THEOREM SavesWhatWasLoaded == Spec => []SavesOwnRecord
<1>1. Inv => SavesOwnRecord
  BY CallRight DEF SavesOwnRecord, Fits
<1> QED
  BY <1>1, AlwaysInv, PTL

-----------------------------------------------------------------------------
(* What was typed.  *)

(* Nothing that is still to come fills a form that was typed into.         *)
Kept ==
  /\ typed = "kept" /\ ~strayed /\ OnLinkForm(route) => ~Has(calls, {"load"})
  /\ typed = "kept" /\ route = "policies" => showForm
  /\ typed = "kept" /\ route = "settings" => ~loading /\ ~failed
  /\ Guarded(calls, {"settings"}, loading)

(* A page has at most one request for the settings in flight, elsewhere there is none. *)
LEMMA AwayFromSettings ==
  ASSUME AllFit, route # "settings"
  PROVE  \A flag : Guarded(calls, {"settings"}, flag)
<1>1. ~Has(calls, {"settings"})
  BY DEF AllFit, Has, Sent, Fits, Home, FormOps, PolicyOps
<1> QED
  BY <1>1, NoneGuards

SettingsAlone == AllFit /\ route # "settings" => Guarded(calls, {"settings"}, loading)

LEMMA SettingsAloneHolds == SettingsAlone
  BY AwayFromSettings DEF SettingsAlone

LEMMA InvAway ==
  ASSUME Inv', route' # "settings"
  PROVE  Guarded(calls', {"settings"}, loading')
<1>1. SettingsAlone'
  BY SettingsAloneHolds, PTL
<1> QED
  BY <1>1 DEF SettingsAlone, Inv

LEMMA MountedKept ==
  ASSUME Inv', NEW r \in Routes, NEW others \in Seq(CallSet), Mounted(r, others)
  PROVE  Kept'
<1>1. typed' = None /\ route' = r
  BY DEF Mounted
<1>2. Guarded(calls', {"settings"}, loading')
  <2>1. CASE r # "settings"
    BY <1>1, <2>1, InvAway
  <2>2. CASE r = "settings"
    <3> DEFINE o == Orphaned(others)
               c == Call("settings", None, None)
    <3>1. "settings" \notin Links
      BY FormsAssumption
    <3>2. FirstCalls(r) = <<c>>
      BY <2>2, <3>1 DEF FirstCalls
    <3>3. calls' = o \o <<c>> /\ loading'
      BY <2>2, <3>2 DEF Mounted
    <3>4. c \in CallSet
      BY CallMade DEF Ops, Records
    <3>5. o \in Seq(Orphan)
      BY OrphanedTyped
    <3> HIDE DEF o, c
    <3>6. o \in Seq(CallSet) /\ \A x \in Elems(o) : ~x.mine
      BY <3>5, OrphansFree
    <3>7. calls' = Append(o, c)
      BY <3>3, <3>4, <3>6, AppendIsConcat
    <3>8. ~Has(o, {"settings"})
      BY <3>6 DEF Has
    <3> QED BY <3>3, <3>4, <3>6, <3>7, <3>8, AddFirst
  <2> QED BY <2>1, <2>2
<1> QED
  BY <1>1, <1>2 DEF Kept, None

LEMMA LinkFormKept ==
  ASSUME Inv, Inv', Kept, LinkFormNext, UNCHANGED <<policyPage, settingsPage>>
  PROVE  Kept'
<1>1. OnLinkForm(route) /\ OnLinkForm(route')
  BY NamesApart DEF LinkFormNext, Hop, TypeLink, RandomSlug, SubmitLink, TypeInto
<1>2. route' # "settings" /\ route' # "policies"
  BY <1>1, NamesApart
<1>3. typed' = "kept" /\ ~strayed' => ~Has(calls', {"load"})
  <2>1. ASSUME NEW r \in Routes, Hop(r) PROVE strayed'
    BY <2>1 DEF Hop
  <2>2. CASE TypeLink
    <3>1. calls' = calls /\ (typed' = "kept" => ~InFlight({"load", "slug"}))
      BY <2>2 DEF TypeLink, TypeInto
    <3>2. ~InFlight({"load", "slug"}) => ~Has(calls, {"load"})
      BY DEF InFlight, Has, Elems
    <3> QED BY <3>1, <3>2
  <2>3. CASE RandomSlug
    BY <2>3 DEF RandomSlug
  <2>4. CASE SubmitLink
    <3>1. PICK c : c = Call("saveLink", route, holds)
      OBVIOUS
    <3>2. calls' = Append(calls, c) /\ typed' = typed /\ strayed' = strayed
      BY <2>4, <3>1 DEF SubmitLink, Send
    <3>3. route \in Records /\ holds \in Records
      BY <1>1 DEF Inv, Filled, OnLinkForm, Records
    <3>4. c \in CallSet /\ c.op = "saveLink"
      BY <3>1, <3>3, CallMade DEF Ops
    <3>5. Elems(calls') = Elems(calls) \cup {c}
      BY <3>2, <3>4, Appending DEF Inv, CallsTyped
    <3> QED BY <1>1, <3>2, <3>4, <3>5 DEF Kept, Has
  <2> QED BY <2>1, <2>2, <2>3, <2>4 DEF LinkFormNext
<1>4. Guarded(calls', {"settings"}, loading')
  BY <1>2, InvAway
<1> QED
  BY <1>2, <1>3, <1>4 DEF Kept

LEMMA PolicyPageKept ==
  ASSUME Inv', Kept, PolicyPageNext
  PROVE  Kept'
<1>1. route' = "policies" /\ route = "policies" /\ ~OnLinkForm(route')
  BY NamesApart DEF PolicyPageNext, RetryPolicies, CreatePolicy, CancelPolicy, TypePolicy, TypeInto,
     SubmitPolicy, RunTest, EditPolicy, DeletePolicy, SelectPolicy, ShowForm, RowsShown, form
<1>2. typed' = "kept" => showForm'
  <2>1. CASE RetryPolicies \/ SubmitPolicy \/ \E p \in Policies : DeletePolicy(p)
    BY <1>1, <2>1 DEF Kept, RetryPolicies, SubmitPolicy, DeletePolicy, policyPage
  <2>2. CASE CreatePolicy \/ \E p \in Policies : EditPolicy(p)
    BY <2>2 DEF CreatePolicy, EditPolicy, ShowForm
  <2>3. CASE TypePolicy
    BY <2>3 DEF TypePolicy, policyPage
  <2>4. CASE CancelPolicy
    BY <2>4 DEF CancelPolicy, None
  <2>5. CASE RunTest \/ \E p \in Policies \cup {None} : SelectPolicy(p)
    BY <1>1, <2>5 DEF Kept, RunTest, SelectPolicy, form
  <2> QED BY <2>1, <2>2, <2>3, <2>4, <2>5 DEF PolicyPageNext
<1>3. Guarded(calls', {"settings"}, loading')
  BY <1>1, InvAway
<1> QED
  BY <1>1, <1>2, <1>3 DEF Kept

LEMMA SettingsPageKept ==
  ASSUME Inv, Kept, SettingsPageNext
  PROVE  Kept'
<1>1. route' = "settings" /\ route = "settings" /\ ~OnLinkForm(route')
  BY NamesApart DEF SettingsPageNext, RetrySettings, TypeSetting, TypeInto, SettingsShown,
     SubmitSettings, SubmitPassword
<1>2. calls \in Seq(CallSet) /\ holds \in Records
  BY <1>1 DEF Inv, CallsTyped, Filled, Records
<1>3. Guarded(calls, {"settings"}, loading)
  BY DEF Kept
<1>4. CASE RetrySettings
  <2> DEFINE c == Call("settings", None, None)
  <2>1. typed' = typed /\ failed /\ ~loading /\ calls' = Append(calls, c) /\ loading'
    BY <1>4 DEF RetrySettings, Send
  <2>2. c \in CallSet
    BY CallMade DEF Ops, Records
  <2> HIDE DEF c
  <2>3. ~Has(calls, {"settings"})
    BY <1>3, <2>1 DEF Guarded
  <2>4. Guarded(calls', {"settings"}, loading')
    BY <1>2, <2>1, <2>2, <2>3, AddFirst
  <2>5. typed' # "kept"
    BY <1>1, <2>1 DEF Kept
  <2> QED BY <1>1, <2>4, <2>5 DEF Kept
<1>5. CASE TypeSetting
  <2>1. calls' = calls /\ ~loading' /\ ~failed' /\ loading' = loading
    BY <1>5 DEF TypeSetting, TypeInto, SettingsShown
  <2> QED BY <1>1, <1>3, <2>1 DEF Kept
<1>6. CASE SubmitSettings
  <2>1. PICK c : c = Call("saveSettings", "settings", holds)
    OBVIOUS
  <2>2. c \in CallSet /\ c.op = "saveSettings"
    <3>1. "saveSettings" \in Ops /\ "settings" \in Records
      BY DEF Ops, Records
    <3> QED BY <1>2, <2>1, <3>1, CallMade
  <2>3. calls' = Append(calls, c) /\ ~loading' /\ ~failed' /\ loading' = loading
    BY <1>6, <2>1 DEF SubmitSettings, SettingsShown, Send
  <2>4. Guarded(calls', {"settings"}, loading)
    BY <1>2, <1>3, <2>2, <2>3, AddOther
  <2> QED BY <1>1, <2>3, <2>4 DEF Kept
<1>7. CASE SubmitPassword
  <2>1. PICK c : c = Call("password", None, None)
    OBVIOUS
  <2>2. c \in CallSet /\ c.op = "password"
    BY <2>1, CallMade DEF Ops, Records
  <2>3. calls' = Append(calls, c) /\ ~loading' /\ ~failed' /\ loading' = loading
    BY <1>7, <2>1 DEF SubmitPassword, SettingsShown, Send
  <2>4. Guarded(calls', {"settings"}, loading)
    BY <1>2, <1>3, <2>2, <2>3, AddOther
  <2> QED BY <1>1, <2>3, <2>4 DEF Kept
<1> QED
  BY <1>4, <1>5, <1>6, <1>7 DEF SettingsPageNext

(* An answer of the i-th request that fills no form.                       *)
LEMMA DoneKept ==
  ASSUME Inv, Inv', Kept, NEW i \in 1..Len(calls), Done(i), UNCHANGED <<route, strayed>>,
         typed' = typed \/ typed' # "kept",
         route = "policies" => showForm' = showForm,
         route = "settings" => UNCHANGED <<loading, failed>>
  PROVE  Kept'
<1>1. calls \in Seq(CallSet) /\ calls' = RemoveAt(calls, i)
  BY DEF Inv, CallsTyped, Done
<1>2. Elems(calls') \subseteq Elems(calls)
  BY <1>1, Removing
<1>3. Has(calls', {"load"}) => Has(calls, {"load"})
  BY <1>2 DEF Has
<1>4. Guarded(calls', {"settings"}, loading')
  <2>1. CASE route = "settings"
    <3>1. Guarded(calls', {"settings"}, loading)
      BY <1>1, DropOther DEF Kept
    <3> QED BY <2>1, <3>1
  <2>2. CASE route # "settings"
    BY <2>2, InvAway
  <2> QED BY <2>1, <2>2
<1>5. typed' = "kept" /\ ~strayed' /\ OnLinkForm(route') => ~Has(calls', {"load"})
  BY <1>3 DEF Kept
<1>6. typed' = "kept" /\ route' = "policies" => showForm'
  BY DEF Kept
<1>7. typed' = "kept" /\ route' = "settings" => ~loading' /\ ~failed'
  BY DEF Kept
<1> QED
  BY <1>4, <1>5, <1>6, <1>7 DEF Kept

LEMMA LinkAnsweredKept ==
  ASSUME Inv, Inv', Kept, NEW i \in 1..Len(calls), LinkAnswered(i), UNCHANGED policyPage
  PROVE  Kept'
<1> DEFINE c == calls[i]
<1>1. Fits(c) /\ showForm' = showForm
  BY CallRight DEF policyPage
<1>2. Done(i) /\ UNCHANGED <<route, strayed, failed>> /\ (typed' = typed \/ typed' # "kept")
  BY DEF LinkAnswered, LinkLoaded, LinkLoadFails, SlugAnswered, LinkSaveFails, None
<1>3. route = "settings" => ~c.mine /\ c.op = "saveLink"
  <2>1. c.op \in FormOps
    BY DEF LinkAnswered, LinkLoaded, LinkLoadFails, SlugAnswered, LinkSaveFails, FormOps
  <2>2. c.mine => route # "settings"
    BY <1>1, <2>1, NamesApart DEF Fits, Home
  <2> QED BY <1>1, <2>2 DEF Fits
<1>4. route = "settings" => loading' = loading
  <2>1. ASSUME route = "settings" PROVE loading' = loading
    <3>1. loading' = (loading /\ ~c.mine) /\ loading \in BOOLEAN
      BY <1>3, <2>1 DEF LinkAnswered, LinkLoaded, LinkLoadFails, SlugAnswered, LinkSaveFails,
         Inv, PageTyped, Flags
    <3> QED BY <1>3, <2>1, <3>1
  <2> QED BY <2>1
<1> QED
  BY <1>1, <1>2, <1>4, DoneKept

LEMMA PolicyAnsweredKept ==
  ASSUME Inv, Inv', Kept, NEW i \in 1..Len(calls), PolicyAnswered(i)
  PROVE  Kept'
<1> DEFINE c == calls[i]
<1>1. Fits(c) /\ c.op \in PolicyOps
  BY CallRight DEF PolicyAnswered, PoliciesListed, PoliciesFail, PolicySaved, PolicyDeleted,
     PolicyChangeFails, TestAnswered, PolicyOps
<1>2. route = "policies" /\ route' = route
  <2>1. c.op # "saveLink"
    BY <1>1 DEF PolicyOps
  <2>2. route = "policies"
    BY <1>1, <2>1 DEF Fits, Home
  <2>3. route' = route
    BY DEF PolicyAnswered, PoliciesListed, PoliciesFail, PolicySaved, PolicyDeleted,
       PolicyChangeFails, TestAnswered
  <2> QED BY <2>2, <2>3
<1>3. typed' = "kept" => showForm'
  <2>1. CASE PolicySaved(i)
    BY <2>1 DEF PolicySaved, None
  <2>2. CASE ~PolicySaved(i)
    BY <1>2, <2>2 DEF Kept, PolicyAnswered, PoliciesListed, PoliciesFail, PolicyDeleted,
       PolicyChangeFails, TestAnswered, policyPage
  <2> QED BY <2>1, <2>2
<1>4. Guarded(calls', {"settings"}, loading')
  BY <1>2, InvAway
<1> QED
  BY <1>2, <1>3, <1>4, NamesApart DEF Kept

LEMMA SettingsPageAnsweredKept ==
  ASSUME Inv, Inv', Kept, NEW i \in 1..Len(calls), SettingsPageAnswered(i), UNCHANGED policyPage
  PROVE  Kept'
<1> DEFINE c == calls[i]
<1>1. calls \in Seq(CallSet) /\ calls[i] \in CallSet /\ Fits(calls[i])
  BY CallRight DEF Inv, CallsTyped
<1>2. ASSUME c.op = "settings", Done(i), route' = route, typed' = typed \/ typed' = None
      PROVE  Kept'
  <2>1. c.mine /\ route = "settings" /\ c \in Elems(calls)
    BY <1>1, <1>2 DEF Fits, Home, FormOps, PolicyOps, Elems
  <2>2. Guarded(calls, {"settings"}, loading) /\ Has(calls, {"settings"})
    BY <1>2, <2>1 DEF Kept, Has
  <2>3. typed' # "kept"
    BY <1>2, <2>1, <2>2 DEF Kept, Guarded, None
  <2>4. Guarded(calls', {"settings"}, loading')
    <3>1. calls[i].mine /\ calls[i].op \in {"settings"}
      BY <1>2, <2>1
    <3>2. calls' = RemoveAt(calls, i)
      BY <1>2 DEF Done
    <3> QED BY <1>1, <2>2, <3>1, <3>2, DropOwn
  <2> QED BY <2>3, <2>4 DEF Kept
<1>3. CASE SettingsLoaded(i) \/ SettingsFail(i)
  BY <1>2, <1>3 DEF SettingsLoaded, SettingsFail
<1>4. CASE SettingsAnswered(i) \/ PasswordAnswered(i)
  <2>1. Done(i) /\ UNCHANGED <<route, strayed, typed, loading, failed, showForm>>
    BY <1>4 DEF SettingsAnswered, PasswordAnswered, policyPage
  <2> QED BY <2>1, DoneKept
<1> QED
  BY <1>3, <1>4 DEF SettingsPageAnswered

LEMMA InitKept == Init => Kept
<1> SUFFICES ASSUME Init PROVE Kept
  OBVIOUS
<1>1. ~Has(calls, {"settings"})
  BY DEF Init, Has, Elems
<1>2. typed # "kept"
  BY DEF Init, None
<1> QED
  BY <1>1, <1>2, NoneGuards DEF Kept

LEMMA NextKept == Inv /\ Inv' /\ Kept /\ [Next]_vars => Kept'
<1> SUFFICES ASSUME Inv, Inv', Kept, [Next]_vars PROVE Kept'
  OBVIOUS
<1>1. CASE Moves
  <2>1. calls \in Seq(CallSet) /\ route \in Routes
    BY DEF Inv, CallsTyped, PageTyped
  <2> QED BY <1>1, <2>1, MountedKept DEF Moves, Reconnect, Navigate
<1>7. CASE SentAway
  <2>1. calls \in Seq(CallSet) /\ "login" \in Routes /\ "elsewhere" \in Routes
    BY DEF Inv, CallsTyped, Routes
  <2> QED BY <1>7, <2>1, MountedKept DEF SentAway
<1>2. CASE LinkFormNext /\ UNCHANGED <<policyPage, settingsPage>>
  BY <1>2, LinkFormKept
<1>3. CASE PolicyPageNext
  BY <1>3, PolicyPageKept
<1>4. CASE SettingsPageNext
  BY <1>4, SettingsPageKept
<1>5. ASSUME NEW i \in 1..Len(calls), Answer(i) PROVE Kept'
  <2>1. CASE LinkSaved(i) \/ Refused(i)
    <3>1. RemoveAt(calls, i) \in Seq(CallSet) /\ "elsewhere" \in Routes /\ "login" \in Routes
      BY DoneCalls DEF Routes
    <3> QED BY <2>1, <3>1, MountedKept DEF LinkSaved, Refused
  <2>2. CASE ~LinkSaved(i) /\ ~Refused(i)
    BY <1>5, <2>2, LinkAnsweredKept, PolicyAnsweredKept, SettingsPageAnsweredKept DEF Answer
  <2> QED BY <2>1, <2>2
<1>6. CASE UNCHANGED vars
  <2>1. UNCHANGED <<route, typed, loading, failed, calls, strayed, showForm>>
    BY <1>6 DEF vars, form, policyPage
  <2>2. OnLinkForm(route)' = OnLinkForm(route) /\ Has(calls, {"load"})' = Has(calls, {"load"})
    BY <2>1 DEF OnLinkForm, Has, Elems
  <2>3. Guarded(calls', {"settings"}, loading')
    BY <2>1 DEF Kept
  <2> QED BY <2>1, <2>2, <2>3 DEF Kept
<1> QED
  BY <1>1, <1>2, <1>3, <1>4, <1>5, <1>6, <1>7 DEF Next

LEMMA AlwaysKept == Spec => [](Inv /\ Kept)
<1>1. Init => Inv /\ Kept
  BY InitInv, InitKept
<1>2. Inv /\ Kept /\ [Next]_vars => (Inv /\ Kept)'
  BY NextInv, NextKept
<1> QED
  BY <1>1, <1>2, PTL DEF Spec

(* The steps that may lose what was typed.                                 *)
Losing ==
  \/ Moves \/ SentAway \/ CancelPolicy \/ \E p \in Policies : EditPolicy(p)
  \/ \E i \in 1..Len(calls) :
       \/ Refused(i)
       \/ LinkSaved(i) /\ (strayed \/ calls[i].on = route)
       \/ PolicySaved(i) /\ (strayed \/ calls[i].on = editing)
       \/ LinkLoaded(i) /\ strayed

LEMMA KeptLosing ==
  ASSUME Inv, Kept, [Next]_vars, typed = "kept", typed' = None
  PROVE  Losing
<1>0. typed' # typed
  BY DEF None
<1>1. CASE LinkFormNext
  BY <1>0, <1>1 DEF LinkFormNext, Hop, TypeLink, TypeInto, RandomSlug, SubmitLink, None
<1>2. CASE PolicyPageNext
  <2>1. CASE CreatePolicy
    BY <2>1 DEF CreatePolicy, Kept
  <2>2. CASE ~CreatePolicy
    BY <1>0, <1>2, <2>2 DEF PolicyPageNext, RetryPolicies, TypePolicy, TypeInto, SubmitPolicy,
       RunTest, DeletePolicy, SelectPolicy, form, Losing, None
  <2> QED BY <2>1, <2>2
<1>3. CASE SettingsPageNext
  BY <1>0, <1>3 DEF SettingsPageNext, RetrySettings, TypeSetting, TypeInto, SubmitSettings,
     SubmitPassword, None
<1>4. ASSUME NEW i \in 1..Len(calls), Answer(i) PROVE Losing
  <2> DEFINE c == calls[i]
  <2>1. Fits(c) /\ c \in Elems(calls)
    BY CallRight DEF Sent
  <2>2. CASE Refused(i)
    BY <2>2 DEF Losing
  <2>3. CASE LinkSaved(i)
    BY <2>1, <2>3 DEF Losing, LinkSaved, Fits
  <2>4. CASE PolicySaved(i)
    BY <2>1, <2>4 DEF Losing, PolicySaved, Fits
  <2>5. CASE LinkAnswered(i)
    <3>1. LinkLoaded(i)
      BY <1>0, <2>5 DEF LinkAnswered, LinkLoadFails, SlugAnswered, LinkSaveFails, None
    <3>2. c.op = "load"
      BY <3>1 DEF LinkLoaded
    <3>3. c.mine /\ OnLinkForm(route)
      BY <2>1, <3>2 DEF Fits, Home, FormOps
    <3>4. Has(calls, {"load"})
      BY <2>1, <3>2, <3>3 DEF Has
    <3>5. strayed
      BY <3>3, <3>4 DEF Kept
    <3> QED BY <3>1, <3>5 DEF Losing
  <2>6. CASE PolicyAnswered(i) /\ ~PolicySaved(i)
    BY <1>0, <2>6 DEF PolicyAnswered, PoliciesListed, PoliciesFail, PolicyDeleted,
       PolicyChangeFails, TestAnswered
  <2>7. CASE SettingsPageAnswered(i)
    <3>1. SettingsLoaded(i)
      BY <1>0, <2>7 DEF SettingsPageAnswered, SettingsFail, SettingsAnswered, PasswordAnswered
    <3>2. c.op = "settings"
      BY <3>1 DEF SettingsLoaded
    <3>3. c.mine /\ route = "settings"
      BY <2>1, <3>2 DEF Fits, Home, FormOps, PolicyOps
    <3>4. Has(calls, {"settings"})
      BY <2>1, <3>2, <3>3 DEF Has
    <3> QED BY <3>3, <3>4 DEF Kept, Guarded
  <2> QED BY <1>4, <2>2, <2>3, <2>4, <2>5, <2>6, <2>7 DEF Answer
<1>5. CASE UNCHANGED vars
  BY <1>0, <1>5 DEF vars, form
<1>6. CASE Moves \/ SentAway
  BY <1>6 DEF Losing
<1> QED
  BY <1>1, <1>2, <1>3, <1>4, <1>5, <1>6 DEF Next

(* What was typed once the form was filled is lost only to the             *)
(* administrator, to the end of the session, or to the saving of the       *)
(* record that is open: no other answer that comes late overwrites or      *)
(* closes the form.                                                        *)
THEOREM EditsStay == Spec => EditsKept
<1>1. ASSUME Inv /\ Kept, [Next]_vars
      PROVE  [typed = "kept" /\ typed' = None => Losing]_vars
  BY <1>1, KeptLosing
<1>2. [typed = "kept" /\ typed' = None => Losing]_vars =>
        [typed = "kept" /\ typed' = None =>
           \/ Moves \/ SentAway \/ CancelPolicy \/ \E p \in Policies : EditPolicy(p)
           \/ \E i \in 1..Len(calls) :
                \/ Refused(i)
                \/ LinkSaved(i) /\ (strayed \/ calls[i].on = route)
                \/ PolicySaved(i) /\ (strayed \/ calls[i].on = editing)
                \/ LinkLoaded(i) /\ strayed]_vars
  BY DEF Losing
<1> QED
  BY <1>1, <1>2, AlwaysKept, PTL DEF Spec, EditsKept
=============================================================================
