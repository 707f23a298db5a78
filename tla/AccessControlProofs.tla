------------------------- MODULE AccessControlProofs -------------------------
(***************************************************************************)
(* Proofs about AccessControl, for any number of links, administrators,    *)
(* policies and User-Agents, and whatever the policies say.                *)
(***************************************************************************)
EXTENDS AccessControl, TLAPS

VisitStates == [pc : {"idle"}] \cup Flight \cup Outcome

-----------------------------------------------------------------------------
(* Types                                                                   *)

LEMMA InitTyped == Init => TypeOK
<1> SUFFICES ASSUME Init PROVE TypeOK
  OBVIOUS
<1>1. DOMAIN db.policies = {} /\ db.policies \in [{} -> Contents]
  BY DEF Init
<1>2. db \in Tables
  <2>1. db.policies \in UNION {[S -> Contents] : S \in SUBSET Ids}
    <3>1. {} \in SUBSET Ids
      OBVIOUS
    <3> QED BY <1>1, <3>1
  <2>2. db = [policies |-> db.policies, last |-> 0, ref |-> [l \in Links |-> None], globalRef |-> None]
    BY DEF Init
  <2>3. 0 \in 0..MaxPolicies /\ [l \in Links |-> None] \in [Links -> Ids \cup {None}]
    BY AccessAssumption DEF None
  <2> QED BY <2>1, <2>2, <2>3 DEF Tables
<1>3. visit \in [pc : {"idle"}] /\ adm \in [Admins -> Handlers] /\ late \subseteq Links
  BY DEF Init, Handlers
<1>4. \A a \in Admins : adm[a].pc = "idle"
  BY DEF Init
<1> QED
  BY <1>1, <1>2, <1>3, <1>4 DEF Init, TypeOK, None

(* What a visit has seen is kept, and it stays where it is, when the       *)
(* tables change under it.                                                 *)
LEMMA WriteKeepsVisit ==
  ASSUME visit \in VisitStates, NEW a \in Admins, NEW d, NEW last \in BOOLEAN, Write(a, d, last)
  PROVE  visit' \in VisitStates /\ visit'.pc = visit.pc
<1>1. CASE ~UnderWay
  BY <1>1 DEF Write
<1>2. CASE UnderWay
  <2>1. visit \in Flight
    BY <1>2 DEF VisitStates, Outcome, UnderWay
  <2>2. Verdict(d, visit.link, visit.agent) \in BOOLEAN
    BY DEF Verdict, Admits
  <2>3. Exposed(d, visit.agent) \in BOOLEAN /\ (d.globalRef # db.globalRef) \in BOOLEAN
    BY DEF Exposed
  <2>4. PICK w \in Admins \cup {Nobody, Several}, s \in SUBSET BOOLEAN, m \in BOOLEAN, e \in BOOLEAN :
          visit' = [visit EXCEPT !.seen = s, !.writer = w, !.moved = m, !.exposed = e]
    <3> DEFINE s == visit.seen \cup {Verdict(d, visit.link, visit.agent)}
               w == IF visit.writer = Nobody \/ (visit.writer = a /\ last) THEN a ELSE Several
               m == visit.moved \/ d.globalRef # db.globalRef
               e == visit.exposed \/ Exposed(d, visit.agent)
    <3>1. visit' = [visit EXCEPT !.seen = s, !.writer = w, !.moved = m, !.exposed = e]
      BY <1>2 DEF Write
    <3>2. s \in SUBSET BOOLEAN
      BY <2>1, <2>2 DEF Flight
    <3>3. w \in Admins \cup {Nobody, Several} /\ m \in BOOLEAN /\ e \in BOOLEAN
      BY <2>1, <2>3 DEF Flight
    <3> HIDE DEF s, w, m, e
    <3> QED BY <3>1, <3>2, <3>3
  <2>5. visit' \in Flight /\ visit'.pc = visit.pc
    BY <2>1, <2>4 DEF Flight
  <2> QED BY <2>5 DEF VisitStates
<1> QED
  BY <1>1, <1>2

LEMMA VisitorTyped ==
  ASSUME TypeOK, Visitor
  PROVE  TypeOK'
<1>1. db \in Tables /\ UNCHANGED <<db, adm, late>>
  BY DEF TypeOK, Visitor, Lookup, ReadPolicy, ReadPolicyFails, ReadSetting, ReadGlobalPolicy,
         GlobalFails, End, Step
<1>2. SUFFICES visit' \in VisitStates
  BY <1>1 DEF TypeOK, VisitStates
<1>3. \A v \in Flight, r \in BOOLEAN : Decided(v, r) \in Outcome
  BY DEF Flight, Outcome, Decided
<1>4. visit.pc \in {"own", "setting", "global"} => visit \in Flight
  BY DEF TypeOK, Outcome
<1>5. \A d, p, agent : Admits(d, p, agent) \in BOOLEAN
  BY DEF Admits
<1>6. \A agent, policy : ValidateUA(agent, policy) \in BOOLEAN
  BY DEF ValidateUA
<1>7. CASE \E l \in Links, agent \in Agents : Lookup(l, agent)
  <2>1. PICK l \in Links, agent \in Agents : Lookup(l, agent)
    BY <1>7
  <2>2. db.ref[l] \in Ids \cup {None}
    BY <1>1 DEF Tables
  <2>3. Verdict(db, l, agent) \in BOOLEAN /\ Exposed(db, agent) \in BOOLEAN
    BY <1>5 DEF Verdict, Exposed
  <2>4. visit' \in Flight
    BY <2>1, <2>2, <2>3 DEF Lookup, Flight
  <2> QED BY <2>4 DEF VisitStates
<1>8. CASE ReadPolicy
  <2>1. visit \in Flight
    BY <1>4, <1>8 DEF ReadPolicy
  <2>2. CASE Own(visit)
    BY <1>3, <1>6, <1>8, <2>1, <2>2 DEF ReadPolicy, Step, VisitStates
  <2>3. CASE ~Own(visit)
    <3>1. visit' \in Flight
      BY <1>8, <2>1, <2>3 DEF ReadPolicy, Step, Flight
    <3> QED BY <3>1 DEF VisitStates
  <2> QED BY <2>2, <2>3
<1>9. CASE ReadPolicyFails
  <2>1. visit' \in Flight
    BY <1>4, <1>9 DEF ReadPolicyFails, Step, Flight
  <2> QED BY <2>1 DEF VisitStates
<1>10. CASE ReadSetting
  <2>1. visit \in Flight /\ db.globalRef \in Ids \cup {None}
    BY <1>1, <1>4, <1>10 DEF ReadSetting, Tables
  <2>2. CASE db.globalRef = None
    BY <1>3, <1>10, <2>1, <2>2 DEF ReadSetting, Step, VisitStates
  <2>3. CASE db.globalRef # None
    <3>1. visit' \in Flight
      BY <1>10, <2>1, <2>3 DEF ReadSetting, Step, Flight
    <3> QED BY <3>1 DEF VisitStates
  <2> QED BY <2>2, <2>3
<1>11. CASE ReadGlobalPolicy
  BY <1>3, <1>4, <1>5, <1>11 DEF ReadGlobalPolicy, Step, VisitStates
<1>12. CASE GlobalFails
  <2>1. visit \in Flight
    BY <1>4, <1>12 DEF GlobalFails
  <2>2. visit' \in Outcome
    BY <1>12, <2>1 DEF GlobalFails, Step, Decided, Flight, Outcome
  <2> QED BY <2>2 DEF VisitStates
<1>13. CASE End
  BY <1>13 DEF End, Step, VisitStates
<1> QED
  BY <1>7, <1>8, <1>9, <1>10, <1>11, <1>12, <1>13 DEF Visitor

(* The tables after each kind of write.                                    *)
LEMMA WithTyped ==
  ASSUME NEW d \in Tables, NEW p \in Ids, NEW c \in Contents
  PROVE  /\ [d EXCEPT !.policies = With(d, p, c)] \in Tables
         /\ DOMAIN With(d, p, c) = DOMAIN d.policies \cup {p}
<1>1. PICK S \in SUBSET Ids : d.policies \in [S -> Contents]
  BY DEF Tables
<1>2. With(d, p, c) \in [S \cup {p} -> Contents]
  BY <1>1 DEF With
<1>3. With(d, p, c) \in UNION {[T -> Contents] : T \in SUBSET Ids}
  BY <1>2
<1> HIDE DEF Ids
<1> QED
  BY <1>3 DEF Tables, With

LEMMA WithoutTyped ==
  ASSUME NEW d \in Tables, NEW p
  PROVE  /\ [d EXCEPT !.policies = Without(d, p)] \in Tables
         /\ DOMAIN Without(d, p) = DOMAIN d.policies \ {p}
<1>1. PICK S \in SUBSET Ids : d.policies \in [S -> Contents]
  BY DEF Tables
<1>2. Without(d, p) \in [S \ {p} -> Contents]
  BY <1>1 DEF Without
<1>3. Without(d, p) \in UNION {[T -> Contents] : T \in SUBSET Ids}
  BY <1>2
<1> QED
  BY <1>3 DEF Tables, Without

(* Tables a write may leave: no id is in use that was not given out.       *)
WellFormed(d) ==
  /\ d \in Tables
  /\ DOMAIN d.policies \cup {d.globalRef} \subseteq 0..d.last
  /\ \A l \in Links : d.ref[l] =< d.last
  /\ d.last >= db.last

LEMMA AfterWrite ==
  ASSUME TypeOK, NEW a \in Admins, NEW d, NEW last \in BOOLEAN, Write(a, d, last), WellFormed(d),
         \/ adm' = adm
         \/ Return(a)
         \/ adm[a].pc = "detach" /\ Goto(a, [adm[a] EXCEPT !.pc = "erase"]),
         late' \subseteq Links
  PROVE  TypeOK'
<1>1. visit' \in VisitStates /\ db' = d
  BY WriteKeepsVisit DEF TypeOK, VisitStates, Write
<1>2. /\ adm' \in [Admins -> Handlers]
      /\ \A b \in Admins :
           adm'[b].pc # "idle" => adm'[b].id = adm[b].id /\ adm[b].pc # "idle"
  <2>1. CASE adm' = adm
    BY <2>1 DEF TypeOK
  <2>2. CASE Return(a)
    BY <2>2 DEF TypeOK, Return, Goto, Handlers
  <2>3. CASE Goto(a, [adm[a] EXCEPT !.pc = "erase"]) /\ adm[a].pc = "detach"
    <3>1. adm[a] \in [pc : {"detach", "erase"}, id : Ids]
      BY <2>3 DEF TypeOK, Handlers
    <3>2. [adm[a] EXCEPT !.pc = "erase"] \in Handlers /\ [adm[a] EXCEPT !.pc = "erase"].id = adm[a].id
      BY <3>1 DEF Handlers
    <3> QED BY <2>3, <3>2 DEF TypeOK, Goto
  <2> QED BY <2>1, <2>2, <2>3
<1>3. \A b \in Admins : adm'[b].pc # "idle" => adm'[b].id =< d.last
  <2>1. \A b \in Admins : adm[b].pc # "idle" => adm[b].id \in Ids \cup {None}
    BY DEF TypeOK, Handlers
  <2> QED BY <1>2, <2>1 DEF TypeOK, WellFormed, Tables, Ids, None
<1> QED
  BY <1>1, <1>2, <1>3 DEF TypeOK, WellFormed, VisitStates

LEMMA AdministratorTyped ==
  ASSUME TypeOK, NEW a \in Admins, Administrator(a)
  PROVE  TypeOK'
<1> USE DEF Ids, None
<1>1. db \in Tables /\ DOMAIN db.policies \subseteq Ids
  BY DEF TypeOK, Tables
<1>2. db.last \in 0..MaxPolicies /\ db.globalRef \in Ids \cup {None}
  BY <1>1 DEF Tables
<1>3. WellFormed(db)
  BY <1>1, <1>2 DEF TypeOK, WellFormed
<1>4. ASSUME NEW c \in Contents, CreatePolicy(a, c) PROVE TypeOK'
  <2> DEFINE d == [db EXCEPT !.last = NextId(db), !.policies = With(db, NextId(db), c)]
             d1 == [db EXCEPT !.policies = With(db, NextId(db), c)]
  <2>1. NextId(db) \in Ids /\ NextId(db) \in 0..MaxPolicies /\ NextId(db) = db.last + 1
    BY AccessAssumption, <1>2, <1>4 DEF CreatePolicy, NextId
  <2>2. d1 \in Tables /\ DOMAIN With(db, NextId(db), c) = DOMAIN db.policies \cup {NextId(db)}
    BY <1>1, <2>1, WithTyped
  <2>3. d \in Tables /\ d.last = db.last + 1 /\ d.ref = db.ref /\ d.globalRef = db.globalRef
        /\ d.policies = With(db, NextId(db), c)
    BY <1>1, <2>1, <2>2 DEF Tables
  <2>4. WellFormed(d)
    BY <1>2, <1>3, <2>1, <2>2, <2>3 DEF WellFormed, Tables
  <2>5. Write(a, d, FALSE) /\ adm' = adm /\ late' \subseteq Links
    BY <1>4 DEF CreatePolicy, TypeOK
  <2> HIDE DEF d
  <2> QED BY <2>4, <2>5, AfterWrite
<1>5. ASSUME SavePolicy(a) PROVE TypeOK'
  <2>1. adm[a] \in [pc : {"savePolicy"}, id : Ids, content : Contents] /\ adm[a].id =< db.last
    BY <1>5 DEF SavePolicy, TypeOK, Handlers
  <2> DEFINE d == [db EXCEPT !.policies = With(db, adm[a].id, adm[a].content)]
  <2>2. d \in Tables /\ DOMAIN With(db, adm[a].id, adm[a].content) = DOMAIN db.policies \cup {adm[a].id}
    BY <1>1, <2>1, WithTyped
  <2>3. WellFormed(d)
    BY <1>1, <1>2, <1>3, <2>1, <2>2 DEF WellFormed, Tables
  <2>4. Write(a, d, FALSE) /\ Return(a) /\ late' \subseteq Links
    BY <1>5 DEF SavePolicy, TypeOK
  <2> HIDE DEF d
  <2> QED BY <2>3, <2>4, AfterWrite
<1>6. ASSUME Erase(a) PROVE TypeOK'
  <2> DEFINE d == [db EXCEPT !.policies = Without(db, adm[a].id)]
  <2>1. d \in Tables /\ DOMAIN Without(db, adm[a].id) = DOMAIN db.policies \ {adm[a].id}
    BY <1>1, WithoutTyped
  <2>2. WellFormed(d)
    BY <1>1, <1>3, <2>1 DEF WellFormed, Tables
  <2>3. Write(a, d, TRUE) /\ Return(a) /\ late' \subseteq Links
    BY <1>6 DEF Erase, TypeOK
  <2> HIDE DEF d
  <2> QED BY <2>2, <2>3, AfterWrite
<1>7. ASSUME Detach(a) PROVE TypeOK'
  <2> DEFINE d == [db EXCEPT !.ref = Detached(db, adm[a].id)]
  <2>1. Detached(db, adm[a].id) \in [Links -> Ids \cup {None}]
        /\ \A l \in Links : Detached(db, adm[a].id)[l] =< db.last
    BY <1>1, <1>2, <1>3 DEF Detached, Tables, WellFormed
  <2>2. d \in Tables /\ d.last = db.last /\ d.ref = Detached(db, adm[a].id)
        /\ d.policies = db.policies /\ d.globalRef = db.globalRef
    BY <1>1, <2>1 DEF Tables
  <2>3. WellFormed(d)
    BY <1>3, <2>1, <2>2 DEF WellFormed
  <2>4. Write(a, d, FALSE) /\ late' \subseteq Links
        /\ Goto(a, [adm[a] EXCEPT !.pc = "erase"]) /\ adm[a].pc = "detach"
    BY <1>7 DEF Detach, TypeOK
  <2> HIDE DEF d
  <2> QED BY <2>3, <2>4, AfterWrite
<1>8. ASSUME DetachFails(a) PROVE TypeOK'
  <2>1. late' \subseteq Links
    BY <1>8 DEF DetachFails, Naming, TypeOK
  <2> QED BY <1>3, <1>8, <2>1, AfterWrite DEF DetachFails
<1>9. ASSUME SaveLink(a) PROVE TypeOK'
  <2>1. adm[a] \in [pc : {"saveLink"}, link : Links, id : Ids \cup {None}] /\ adm[a].id =< db.last
    BY <1>9 DEF SaveLink, TypeOK, Handlers
  <2> DEFINE d == [db EXCEPT !.ref[adm[a].link] = adm[a].id]
  <2>2. d \in Tables /\ d.last = db.last /\ d.policies = db.policies /\ d.globalRef = db.globalRef
        /\ d.ref = [db.ref EXCEPT ![adm[a].link] = adm[a].id]
    BY <1>1, <2>1 DEF Tables
  <2>3. \A l \in Links : d.ref[l] =< d.last
    BY <1>1, <1>3, <2>1, <2>2 DEF Tables, WellFormed
  <2>4. WellFormed(d)
    BY <1>3, <2>2, <2>3 DEF WellFormed
  <2>5. late' \subseteq Links
    BY <1>9, <2>1 DEF SaveLink, TypeOK
  <2>6. Write(a, d, FALSE) /\ Return(a)
    BY <1>9 DEF SaveLink
  <2> HIDE DEF d
  <2> QED BY <2>4, <2>5, <2>6, AfterWrite
<1>10. ASSUME NEW p \in Ids \cup {None}, UpdateSettings(a, p) PROVE TypeOK'
  <2> DEFINE d == [db EXCEPT !.globalRef = p]
  <2>1. d \in Tables /\ WellFormed(d)
    BY <1>1, <1>2, <1>3, <1>10 DEF UpdateSettings, Tables, WellFormed
  <2>2. Write(a, d, FALSE) /\ adm' = adm /\ late' \subseteq Links
    BY <1>10 DEF UpdateSettings, TypeOK
  <2> HIDE DEF d
  <2> QED BY <2>1, <2>2, AfterWrite
<1>11. ASSUME NEW h \in Handlers, Goto(a, h), h.pc # "idle" => h.id =< db.last,
              UNCHANGED <<db, visit, late>>
       PROVE  TypeOK'
  BY <1>11 DEF TypeOK, Goto
<1>12. ASSUME NEW p \in Ids, NEW c \in Contents, UpdatePolicy(a, p, c) PROVE TypeOK'
  <2> DEFINE h == [pc |-> "savePolicy", id |-> p, content |-> c]
  <2>1. h \in Handlers /\ p =< db.last
    BY <1>2, <1>12 DEF Handlers, UpdatePolicy, Exists, TypeOK
  <2> QED BY <1>11, <1>12, <2>1 DEF UpdatePolicy
<1>13. ASSUME NEW p \in Ids, DeletePolicy(a, p) PROVE TypeOK'
  <2> DEFINE h == [pc |-> "detach", id |-> p]
  <2>1. h \in Handlers /\ p =< db.last
    BY <1>2, <1>13 DEF Handlers, DeletePolicy, Exists, TypeOK
  <2> QED BY <1>11, <1>13, <2>1 DEF DeletePolicy
<1>14. ASSUME NEW p \in Ids \cup {None}, NEW l \in Links, UpdateLink(a, l, p) PROVE TypeOK'
  <2> DEFINE h == [pc |-> "saveLink", link |-> l, id |-> p]
  <2>1. h \in Handlers /\ p =< db.last
    BY <1>2, <1>14 DEF Handlers, UpdateLink
  <2> QED BY <1>11, <1>14, <2>1 DEF UpdateLink
<1>15. ASSUME SaveFails(a) PROVE TypeOK'
  <2>1. [pc |-> "idle"] \in Handlers
    BY DEF Handlers
  <2> QED BY <1>11, <1>15, <2>1 DEF SaveFails, Return
<1> QED
  BY <1>4, <1>5, <1>6, <1>7, <1>8, <1>9, <1>10, <1>12, <1>13, <1>14, <1>15 DEF Administrator

\* Spec => []TypeOK: the tables and the handlers stay well-formed, and no id is
\* in use that was not given out (settings.go, links.go, proxy.go).
THEOREM TypeCorrect == Spec => []TypeOK
<1>1. TypeOK /\ [Next]_vars => TypeOK'
  <2> SUFFICES ASSUME TypeOK, [Next]_vars PROVE TypeOK'
    OBVIOUS
  <2>1. CASE Visitor
    BY <2>1, VisitorTyped
  <2>2. CASE \E a \in Admins : Administrator(a)
    BY <2>2, AdministratorTyped
  <2>3. CASE UNCHANGED vars
    BY <2>3 DEF vars, TypeOK
  <2> QED BY <2>1, <2>2, <2>3 DEF Next
<1> QED
  BY <1>1, InitTyped, PTL DEF Spec

-----------------------------------------------------------------------------
(* Nobody slips through                                                    *)

\* As long as a visit is not exposed, nobody reads a policy that lets its agent
\* in; the policy it looks for is the global one unless the setting moved.
Guarded(v, d) ==
  /\ v.pc \in {"own", "setting", "global"} /\ ~v.exposed => ~Exposed(d, v.agent)
  /\ v.pc = "global" /\ ~v.moved => v.id = d.globalRef
  /\ v.pc = "allowed" => v.exposed \/ v.moved \/ v.failed = "global"

(* Writers note what they open, so a visit under way stays guarded.        *)
LEMMA WriteGuarded ==
  ASSUME TypeOK, Guarded(visit, db), NEW a \in Admins, NEW d, NEW last \in BOOLEAN,
         Write(a, d, last)
  PROVE  Guarded(visit', db')
<1>1. db' = d
  BY DEF Write
<1>2. CASE ~UnderWay
  <2>1. visit' = visit /\ visit.pc \notin {"own", "setting", "global"}
    BY <1>2 DEF Write, UnderWay
  <2> QED BY <2>1 DEF Guarded
<1>3. CASE UnderWay
  <2>1. visit \in Flight
    BY <1>3 DEF TypeOK, Outcome, UnderWay
  <2>2. /\ visit'.exposed = (visit.exposed \/ Exposed(d, visit.agent))
        /\ visit'.moved = (visit.moved \/ d.globalRef # db.globalRef)
        /\ visit'.pc = visit.pc /\ visit'.id = visit.id /\ visit'.agent = visit.agent
    BY <1>3, <2>1 DEF Write, Flight
  <2>3. visit.pc # "allowed"
    BY <2>1 DEF Flight
  <2> QED BY <1>1, <2>2, <2>3 DEF Guarded
<1> QED
  BY <1>2, <1>3

LEMMA VisitorGuarded ==
  ASSUME TypeOK, Guarded(visit, db), Visitor
  PROVE  Guarded(visit', db')
<1>1. db' = db
  BY DEF Visitor, Lookup, ReadPolicy, ReadPolicyFails, ReadSetting, ReadGlobalPolicy,
         GlobalFails, End, Step
<1>2. visit.pc \in {"own", "setting", "global"} => visit \in Flight
  BY DEF TypeOK, Outcome
<1>3. ~Exists(db, None)
  BY DEF TypeOK, Tables, Exists, None, Ids
\* A decision is guarded if whoever is let in was exposed, moved or failed.
<1>4. ASSUME NEW v \in Flight, NEW allowed \in BOOLEAN, visit' = Decided(v, allowed),
             allowed => v.exposed \/ v.moved
      PROVE  Guarded(visit', db')
  BY <1>4 DEF Decided, Guarded
<1>5. CASE \E l \in Links, agent \in Agents : Lookup(l, agent)
  <2>1. PICK l \in Links, agent \in Agents : Lookup(l, agent)
    BY <1>5
  <2>2. visit'.pc = "own" /\ visit'.exposed = Exposed(db, agent) /\ visit'.agent = agent
    BY <2>1 DEF Lookup
  <2> QED BY <1>1, <2>2 DEF Guarded
<1>6. CASE ReadPolicy
  <2>1. visit \in Flight /\ visit.pc = "own"
    BY <1>2, <1>6 DEF ReadPolicy
  <2>2. CASE Own(visit)
    <3> DEFINE valid == ValidateUA(visit.agent, db.policies[visit.id])
    <3>1. visit' = Decided(visit, valid) /\ valid \in BOOLEAN
      BY <1>6, <2>2 DEF ReadPolicy, Step, ValidateUA
    <3>2. valid => Exposed(db, visit.agent)
      BY <2>2 DEF Own, Exists, Exposed
    <3>3. valid => visit.exposed
      BY <2>1, <3>2 DEF Guarded
    <3> HIDE DEF valid
    <3> QED BY <1>4, <2>1, <3>1, <3>3
  <2>3. CASE ~Own(visit)
    <3>1. visit' = [visit EXCEPT !.pc = "setting"]
      BY <1>6, <2>3 DEF ReadPolicy, Step
    <3>2. visit'.pc = "setting" /\ visit'.exposed = visit.exposed /\ visit'.agent = visit.agent
      BY <2>1, <3>1 DEF Flight
    <3> QED BY <1>1, <2>1, <3>2 DEF Guarded
  <2> QED BY <2>2, <2>3
<1>7. CASE ReadPolicyFails
  <2>1. visit \in Flight /\ visit.pc = "own"
    BY <1>2, <1>7 DEF ReadPolicyFails
  <2>2. visit'.pc = "setting" /\ visit'.exposed = visit.exposed /\ visit'.agent = visit.agent
    BY <1>7, <2>1 DEF ReadPolicyFails, Step, Flight
  <2> QED BY <1>1, <2>1, <2>2 DEF Guarded
<1>8. CASE ReadSetting
  <2>1. visit \in Flight /\ visit.pc = "setting"
    BY <1>2, <1>8 DEF ReadSetting
  <2>2. CASE db.globalRef = None
    <3>1. visit.exposed
      BY <1>3, <2>1, <2>2 DEF Guarded, Exposed
    <3>2. visit' = Decided(visit, TRUE)
      BY <1>8, <2>2 DEF ReadSetting, Step
    <3> QED BY <1>4, <2>1, <3>1, <3>2
  <2>3. CASE db.globalRef # None
    <3>1. visit' = [visit EXCEPT !.pc = "global", !.id = db.globalRef]
      BY <1>8, <2>3 DEF ReadSetting, Step
    <3>2. visit'.pc = "global" /\ visit'.id = db.globalRef /\ visit'.exposed = visit.exposed
          /\ visit'.agent = visit.agent
      BY <2>1, <3>1 DEF Flight
    <3> QED BY <1>1, <2>1, <3>2 DEF Guarded
  <2> QED BY <2>2, <2>3
<1>9. CASE ReadGlobalPolicy
  <2> DEFINE admitted == Admits(db, visit.id, visit.agent)
  <2>1. visit \in Flight /\ visit.pc = "global"
    BY <1>2, <1>9 DEF ReadGlobalPolicy
  <2>2. visit' = Decided(visit, admitted) /\ admitted \in BOOLEAN
    BY <1>9 DEF ReadGlobalPolicy, Step, Admits
  <2>3. admitted /\ ~visit.moved => Exposed(db, visit.agent)
    BY <2>1 DEF Admits, Exposed, Exists, Guarded
  <2>4. admitted => visit.exposed \/ visit.moved
    BY <2>1, <2>3 DEF Guarded
  <2> HIDE DEF admitted
  <2> QED BY <1>4, <2>1, <2>2, <2>4
<1>10. CASE GlobalFails
  <2>1. visit \in Flight
    BY <1>2, <1>10 DEF GlobalFails
  <2>2. visit'.pc = "allowed" /\ visit'.failed = "global"
    BY <1>10, <2>1 DEF GlobalFails, Step, Decided, Flight
  <2> QED BY <2>2 DEF Guarded
<1>11. CASE End
  BY <1>11 DEF End, Step, Guarded
<1> QED
  BY <1>5, <1>6, <1>7, <1>8, <1>9, <1>10, <1>11 DEF Visitor

LEMMA AdministratorGuarded ==
  ASSUME TypeOK, Guarded(visit, db), NEW a \in Admins, Administrator(a)
  PROVE  Guarded(visit', db')
<1>1. CASE UNCHANGED <<db, visit>>
  BY <1>1
<1>2. \/ UNCHANGED <<db, visit>>
      \/ \E d : Write(a, d, TRUE) \/ Write(a, d, FALSE)
  BY DEF Administrator, CreatePolicy, UpdatePolicy, DeletePolicy, UpdateSettings, UpdateLink,
         SavePolicy, Detach, DetachFails, Erase, SaveLink, SaveFails
<1> QED
  BY <1>1, <1>2, WriteGuarded

\* Spec => []NobodySlipsThrough: no order of the visitor's reads (proxy.go:72-92,
\* ua.go:95-113) among the administrators' writes lets in an agent that every
\* policy keeps out while the global setting stays on one that exists.
THEOREM AgentsKeptOut == Spec => []NobodySlipsThrough
<1>1. Init => Guarded(visit, db)
  BY DEF Init, Guarded
<1>2. TypeOK /\ Guarded(visit, db) /\ [Next]_vars => Guarded(visit, db)'
  <2> SUFFICES ASSUME TypeOK, Guarded(visit, db), [Next]_vars PROVE Guarded(visit', db')
    OBVIOUS
  <2>1. CASE Visitor
    BY <2>1, VisitorGuarded
  <2>2. CASE \E a \in Admins : Administrator(a)
    BY <2>2, AdministratorGuarded
  <2>3. CASE UNCHANGED vars
    BY <2>3 DEF vars
  <2> QED BY <2>1, <2>2, <2>3 DEF Next
<1>3. Guarded(visit, db) => NobodySlipsThrough
  BY DEF Guarded, NobodySlipsThrough
<1> QED
  BY <1>1, <1>2, <1>3, TypeCorrect, PTL DEF Spec

-----------------------------------------------------------------------------
(* Deletions detach                                                        *)

\* While a deletion is between its statements, only late links name its policy.
DetachedInv ==
  /\ DeletionDetaches
  /\ \A a \in Admins, l \in Links : adm[a].pc = "erase" /\ db.ref[l] = adm[a].id => l \in late

LEMMA AdministratorDetaches ==
  ASSUME TypeOK, DetachedInv, NEW a \in Admins, Administrator(a)
  PROVE  DetachedInv'
<1>1. db \in Tables /\ db.ref \in [Links -> Ids \cup {None}]
  BY DEF TypeOK, Tables
<1>2. \A b \in Admins :
        adm[b].pc \in {"detach", "erase", "savePolicy"} => adm[b].id \in Ids /\ adm[b].id # None
  BY DEF TypeOK, Handlers, Ids, None
<1>3. adm \in [Admins -> Handlers]
  BY DEF TypeOK
\* Handlers other than a's stay, and a's does not go to its second statement.
<1>4. ASSUME db'.ref = db.ref, late' = late, DOMAIN db.policies \subseteq DOMAIN db'.policies,
             \A b \in Admins : adm'[b].pc = "erase" => adm'[b] = adm[b]
      PROVE  DetachedInv'
  BY <1>4 DEF DetachedInv, DeletionDetaches, Exists
<1>5. ASSUME NEW c \in Contents, CreatePolicy(a, c) PROVE DetachedInv'
  <2>1. db'.ref = db.ref /\ db'.policies = With(db, NextId(db), c)
    BY <1>1, <1>5 DEF CreatePolicy, Write, Tables
  <2> QED BY <1>4, <1>5, <2>1 DEF CreatePolicy, With
<1>6. ASSUME SavePolicy(a) PROVE DetachedInv'
  <2>1. db'.ref = db.ref /\ db'.policies = With(db, adm[a].id, adm[a].content)
    BY <1>1, <1>6 DEF SavePolicy, Write, Tables
  <2> QED BY <1>3, <1>4, <1>6, <2>1 DEF SavePolicy, With, Return, Goto
<1>7. ASSUME NEW h, h.pc # "erase", Goto(a, h), UNCHANGED <<db, late>> PROVE DetachedInv'
  BY <1>3, <1>4, <1>7 DEF Goto
<1>8. ASSUME NEW p, UpdateSettings(a, p) PROVE DetachedInv'
  <2>1. db'.ref = db.ref /\ db'.policies = db.policies
    BY <1>1, <1>8 DEF UpdateSettings, Write, Tables
  <2> QED BY <1>4, <1>8, <2>1 DEF UpdateSettings
<1>9. ASSUME Detach(a) PROVE DetachedInv'
  <2>1. db'.ref = Detached(db, adm[a].id) /\ db'.policies = db.policies /\ adm[a].pc = "detach"
    BY <1>1, <1>9 DEF Detach, Write, Tables
  <2>2. late' = {l \in late : db.ref[l] # adm[a].id} \cup (late \ Links)
    BY <1>9 DEF Detach, Naming
  <2>3. \A l \in Links : db'.ref[l] # None => db'.ref[l] = db.ref[l] /\ db.ref[l] # adm[a].id
    BY <2>1 DEF Detached
  <2>4. \A b \in Admins : adm'[b].pc = "erase" => b = a \/ adm'[b] = adm[b]
    BY <1>3, <1>9 DEF Detach, Goto
  <2>5. adm'[a].id = adm[a].id
    BY <1>3, <1>9, <2>1 DEF Detach, Goto, Handlers
  <2>6. \A b \in Admins : adm'[b].pc = "erase" => adm'[b].id # None
    BY <1>2, <2>1, <2>4, <2>5
  <2> QED BY <2>1, <2>2, <2>3, <2>4, <2>5, <2>6 DEF DetachedInv, DeletionDetaches, Exists
<1>10. ASSUME DetachFails(a) PROVE DetachedInv'
  <2>1. db' = db /\ late' = late \cup Naming(adm[a].id) /\ adm[a].pc = "detach"
    BY <1>10 DEF DetachFails, Write
  <2>2. \A b \in Admins : adm'[b].pc = "erase" => b = a \/ adm'[b] = adm[b]
    BY <1>3, <1>10 DEF DetachFails, Goto
  <2>3. adm'[a].id = adm[a].id
    BY <1>3, <1>10, <2>1 DEF DetachFails, Goto, Handlers
  <2> QED BY <2>1, <2>2, <2>3 DEF DetachedInv, DeletionDetaches, Naming
<1>11. ASSUME Erase(a) PROVE DetachedInv'
  <2>1. db'.ref = db.ref /\ db'.policies = Without(db, adm[a].id) /\ late' = late /\ adm[a].pc = "erase"
    BY <1>1, <1>11 DEF Erase, Write, Tables
  <2>2. \A b \in Admins : adm'[b].pc = "erase" => adm'[b] = adm[b]
    BY <1>3, <1>11 DEF Erase, Return, Goto
  <2>3. DOMAIN db'.policies = DOMAIN db.policies \ {adm[a].id}
    BY <2>1 DEF Without
  <2> QED BY <2>1, <2>2, <2>3 DEF DetachedInv, DeletionDetaches, Exists
<1>12. ASSUME SaveLink(a) PROVE DetachedInv'
  <2> DEFINE l0 == adm[a].link
             p == adm[a].id
  <2>1. l0 \in Links
    BY <1>3, <1>12 DEF SaveLink, Handlers
  <2>2. db'.ref = [db.ref EXCEPT ![l0] = p] /\ db'.policies = db.policies
    BY <1>1, <1>12 DEF SaveLink, Write, Tables
  <2>3. \A b \in Admins : adm'[b].pc = "erase" => adm'[b] = adm[b]
    BY <1>3, <1>12 DEF SaveLink, Return, Goto
  <2>4. late' = IF GoingOrGone(p) THEN late \cup {l0} ELSE late \ {l0}
    BY <1>12 DEF SaveLink
  <2>5. \A l \in Links \ {l0} : db'.ref[l] = db.ref[l] /\ (l \in late' <=> l \in late)
    BY <1>1, <2>2, <2>4
  <2>6. db'.ref[l0] = p
    BY <1>1, <2>1, <2>2
  <2>7. \/ p # None /\ ~Exists(db, p)
        \/ \E b \in Admins : adm'[b].pc = "erase" /\ p = adm'[b].id
        => l0 \in late'
    BY <1>2, <2>3, <2>4 DEF GoingOrGone
  <2> HIDE DEF l0, p
  <2> QED BY <2>2, <2>3, <2>5, <2>6, <2>7 DEF DetachedInv, DeletionDetaches, Exists
<1>13. \/ \E p, c : UpdatePolicy(a, p, c)
       \/ \E p : DeletePolicy(a, p)
       \/ \E l, p : UpdateLink(a, l, p)
       \/ SaveFails(a)
       => \E h : h.pc # "erase" /\ Goto(a, h) /\ UNCHANGED <<db, late>>
  BY DEF UpdatePolicy, DeletePolicy, UpdateLink, SaveFails, Return
<1> QED
  BY <1>5, <1>6, <1>7, <1>8, <1>9, <1>10, <1>11, <1>12, <1>13 DEF Administrator

\* Spec => []DeletionDetaches: with any number of administrators a link names a
\* policy that is gone only if it was saved too late for DeleteUAPolicy's first
\* statement to see (settings.go:518), or that statement failed.
THEOREM DeletionsDetach == Spec => []DeletionDetaches
<1>1. Init => DetachedInv
  BY DEF Init, DetachedInv, DeletionDetaches
<1>2. TypeOK /\ DetachedInv /\ [Next]_vars => DetachedInv'
  <2> SUFFICES ASSUME TypeOK, DetachedInv, [Next]_vars PROVE DetachedInv'
    OBVIOUS
  <2>1. CASE Visitor
    <3>1. UNCHANGED <<db, adm, late>>
      BY <2>1 DEF Visitor, Lookup, ReadPolicy, ReadPolicyFails, ReadSetting, ReadGlobalPolicy,
                  GlobalFails, End, Step
    <3> QED BY <3>1 DEF DetachedInv, DeletionDetaches, Exists
  <2>2. CASE \E a \in Admins : Administrator(a)
    BY <2>2, AdministratorDetaches
  <2>3. CASE UNCHANGED vars
    BY <2>3 DEF vars, DetachedInv, DeletionDetaches, Exists
  <2> QED BY <2>1, <2>2, <2>3 DEF Next
<1>3. DetachedInv => DeletionDetaches
  BY DEF DetachedInv
<1> QED
  BY <1>1, <1>2, <1>3, TypeCorrect, PTL DEF Spec

-----------------------------------------------------------------------------
(* One change is atomic                                                    *)

Reading(v) == v.pc \in {"own", "setting", "global"}

\* The policy that decides a visit under way if nothing changes any more, and
\* what it decides.
Consulted(v, d) ==
  IF v.pc = "global" \/ (v.pc = "own" /\ Exists(d, v.id)) THEN v.id ELSE d.globalRef

Rest(v, d) == Admits(d, Consulted(v, d), v.agent)

\* What the visit read is what the tables say, but for links detached from p.
Steady(v, d, p) ==
  /\ v.pc = "own" => d.ref[v.link] = v.id \/ (d.ref[v.link] = None /\ v.id = p)
  /\ v.pc \in {"setting", "global"} => ~Exists(d, d.ref[v.link])
  /\ v.pc = "global" => v.id = d.globalRef

\* A visit that at most one change met will be decided as it would have been at
\* some moment, and is steady before the change and between a deletion's two
\* statements; h is what the administrators' handlers are doing.
Agrees(v, d, h) ==
  Reading(v) /\ v.writer # Several /\ v.failed = "none" =>
    /\ Rest(v, d) \in v.seen
    /\ v.writer = Nobody => Steady(v, d, None)
    /\ \A a \in Admins : v.writer = a /\ h[a].pc = "erase" => Steady(v, d, h[a].id)

SeesNow(v, d) == Reading(v) => Verdict(d, v.link, v.agent) \in v.seen

AtomicInv == SeesNow(visit, db) /\ Agrees(visit, db, adm) /\ OneChangeIsAtomic

(* A policy changes under a steady visit: it goes by what the tables say   *)
(* now, or by another policy, as before.                                   *)
LEMMA PolicyChange ==
  ASSUME NEW v, NEW d, NEW e, NEW p, NEW q, Reading(v), Steady(v, d, q),
         e.ref = d.ref, e.globalRef = d.globalRef, ~Exists(e, q), ~Exists(e, None),
         \A r : r # p => (Exists(e, r) <=> Exists(d, r)),
         \A r : r # p /\ Exists(e, r) => e.policies[r] = d.policies[r]
  PROVE  Rest(v, e) = Verdict(e, v.link, v.agent) \/ Rest(v, e) = Rest(v, d)
<1>1. CASE v.pc = "own"
  <2>1. Consulted(v, e) = InForce(e, v.link)
    BY <1>1 DEF Consulted, InForce, Steady
  <2> QED BY <2>1 DEF Rest, Verdict
<1>2. CASE v.pc \in {"setting", "global"}
  <2>1. Consulted(v, e) = e.globalRef /\ Consulted(v, d) = e.globalRef
    BY <1>2 DEF Consulted, Steady
  <2>2. CASE ~Exists(e, e.ref[v.link]) \/ e.globalRef = e.ref[v.link]
    <3>1. InForce(e, v.link) = e.globalRef
      BY <2>2 DEF InForce
    <3> QED BY <2>1, <3>1 DEF Rest, Verdict
  <2>3. CASE Exists(e, e.ref[v.link]) /\ e.globalRef # e.ref[v.link]
    <3>1. e.ref[v.link] = p
      BY <1>2, <2>3 DEF Steady
    <3>2. e.globalRef # p
      BY <2>3, <3>1
    <3>3. Admits(e, e.globalRef, v.agent) = Admits(d, e.globalRef, v.agent)
      <4>1. CASE Exists(e, e.globalRef)
        <5>1. e.policies[e.globalRef] = d.policies[e.globalRef] /\ Exists(d, e.globalRef)
          BY <3>2, <4>1
        <5> QED BY <4>1, <5>1 DEF Admits
      <4>2. CASE ~Exists(e, e.globalRef)
        <5>1. ~Exists(d, e.globalRef)
          BY <3>2, <4>2
        <5> QED BY <4>2, <5>1 DEF Admits
      <4> QED BY <4>1, <4>2
    <3> QED BY <2>1, <3>3 DEF Rest
  <2> QED BY <2>2, <2>3
<1> QED
  BY <1>1, <1>2 DEF Reading

(* The global setting changes under a steady visit.                        *)
LEMMA SettingChange ==
  ASSUME NEW v, NEW d, NEW e, Reading(v), Steady(v, d, None),
         e.ref = d.ref, e.policies = d.policies
  PROVE  Rest(v, e) = Verdict(e, v.link, v.agent) \/ Rest(v, e) = Rest(v, d)
<1>1. \A r : Exists(e, r) <=> Exists(d, r)
  BY DEF Exists
<1>2. \A r : Admits(e, r, v.agent) = Admits(d, r, v.agent)
  BY DEF Admits, Exists
<1>3. CASE v.pc = "global"
  <2>1. Consulted(v, e) = v.id /\ Consulted(v, d) = v.id
    BY <1>3 DEF Consulted
  <2> QED BY <1>2, <2>1 DEF Rest
<1>4. CASE v.pc \in {"own", "setting"}
  <2>1. Consulted(v, e) = InForce(e, v.link)
    BY <1>1, <1>4 DEF Consulted, InForce, Steady
  <2> QED BY <2>1 DEF Rest, Verdict
<1> QED
  BY <1>3, <1>4 DEF Reading

(* A link's reference changes: the visit has read it.                      *)
LEMMA ReferenceChange ==
  ASSUME NEW v, NEW d, NEW e, e.policies = d.policies, e.globalRef = d.globalRef
  PROVE  Rest(v, e) = Rest(v, d)
<1>1. Consulted(v, e) = Consulted(v, d)
  BY DEF Consulted, Exists
<1>2. Admits(e, Consulted(v, d), v.agent) = Admits(d, Consulted(v, d), v.agent)
  BY DEF Admits, Exists
<1> QED
  BY <1>1, <1>2 DEF Rest

\* What a change of the tables does to a steady visit.
Follows(v, d, e) == Rest(v, e) = Verdict(e, v.link, v.agent) \/ Rest(v, e) = Rest(v, d)

(* A write by a keeps the invariant: as the first change of a visit, or as *)
(* the second statement of the deletion that was the first.                *)
LEMMA WriteAtomic ==
  ASSUME TypeOK, AtomicInv, NEW a \in Admins, NEW e, NEW last \in BOOLEAN, Write(a, e, last),
         Reading(visit) /\ Steady(visit, db, None) => Follows(visit, db, e),
         Reading(visit) /\ Steady(visit, db, None) /\ adm'[a].pc = "erase"
           => Steady(visit, e, adm'[a].id),
         last => adm[a].pc = "erase" /\ adm'[a].pc # "erase",
         last /\ Reading(visit) /\ Steady(visit, db, adm[a].id) => Follows(visit, db, e)
  PROVE  AtomicInv'
<1>1. db' = e
  BY DEF Write
<1>2. CASE ~UnderWay
  <2>1. visit' = visit /\ ~Reading(visit)
    BY <1>2 DEF Write, UnderWay, Reading
  <2> QED BY <2>1 DEF AtomicInv, SeesNow, Agrees, OneChangeIsAtomic
<1>3. CASE UnderWay
  <2>1. visit \in Flight /\ Reading(visit)
    BY <1>3 DEF TypeOK, Outcome, UnderWay, Reading
  <2> DEFINE now == Verdict(e, visit.link, visit.agent)
  <2>2. /\ visit'.pc = visit.pc /\ visit'.id = visit.id /\ visit'.agent = visit.agent
        /\ visit'.link = visit.link /\ visit'.failed = visit.failed
        /\ visit'.seen = visit.seen \cup {now}
        /\ visit'.writer = IF visit.writer = Nobody \/ (visit.writer = a /\ last) THEN a ELSE Several
    BY <1>3, <2>1 DEF Write, Flight
  <2>3. Rest(visit', e) = Rest(visit, e) /\ Verdict(e, visit'.link, visit'.agent) = now
    BY <2>2 DEF Rest, Consulted
  <2>4. \A p : Steady(visit', e, p) = Steady(visit, e, p)
    BY <2>2 DEF Steady
  <2>5. SeesNow(visit', e)
    BY <2>2, <2>3 DEF SeesNow
  <2>6. OneChangeIsAtomic'
    BY <2>1, <2>2 DEF OneChangeIsAtomic, Reading
  <2>7. Agrees(visit', e, adm')
    <3> SUFFICES ASSUME visit'.writer # Several, visit'.failed = "none"
                 PROVE  /\ Rest(visit', e) \in visit'.seen
                        /\ visit'.writer = Nobody => Steady(visit', e, None)
                        /\ \A b \in Admins : visit'.writer = b /\ adm'[b].pc = "erase"
                             => Steady(visit', e, adm'[b].id)
      BY DEF Agrees
    <3>1. visit'.writer = a /\ a # Nobody /\ visit.writer # Several
      BY <2>2, AccessAssumption
    <3>2. Rest(visit, db) \in visit.seen
      BY <2>1, <2>2, <3>1 DEF AtomicInv, Agrees
    <3>3. CASE visit.writer = Nobody
      <4>1. Steady(visit, db, None)
        BY <2>1, <2>2, <3>1, <3>3 DEF AtomicInv, Agrees
      <4>2. Follows(visit, db, e)
        BY <2>1, <4>1
      <4>3. Rest(visit', e) \in visit'.seen
        BY <2>2, <2>3, <3>2, <4>2 DEF Follows
      <4> QED BY <2>1, <2>4, <3>1, <4>1, <4>3
    <3>4. CASE visit.writer = a /\ last
      <4>1. Steady(visit, db, adm[a].id)
        BY <2>1, <2>2, <3>1, <3>4 DEF AtomicInv, Agrees
      <4>2. Follows(visit, db, e)
        BY <2>1, <3>4, <4>1
      <4>3. Rest(visit', e) \in visit'.seen
        BY <2>2, <2>3, <3>2, <4>2 DEF Follows
      <4> QED BY <3>1, <3>4, <4>3
    <3> QED BY <2>2, <3>1, <3>3, <3>4
  <2> QED BY <1>1, <2>5, <2>6, <2>7 DEF AtomicInv
<1> QED
  BY <1>2, <1>3

LEMMA VisitorAtomic ==
  ASSUME TypeOK, AtomicInv, Visitor
  PROVE  AtomicInv'
<1>1. db' = db /\ adm' = adm
  BY DEF Visitor, Lookup, ReadPolicy, ReadPolicyFails, ReadSetting, ReadGlobalPolicy,
         GlobalFails, End, Step
<1>2. Reading(visit) => visit \in Flight
  BY DEF TypeOK, Outcome, Reading
<1>3. ~Exists(db, None)
  BY DEF TypeOK, Tables, Exists, None, Ids
\* A visit that reads on agrees if it goes by the same policy and is steady.
<1>4. ASSUME Reading(visit), visit'.pc \in {"setting", "global"},
             visit'.seen = visit.seen, visit'.writer = visit.writer, visit'.link = visit.link,
             visit'.agent = visit.agent, visit'.failed = "none" => visit.failed = "none",
             visit'.failed = "none" => Rest(visit', db) = Rest(visit, db),
             visit'.failed = "none"
               => \A p : Steady(visit, db, p) /\ (p = None \/ \E a \in Admins : p = adm[a].id)
                           => Steady(visit', db, p)
      PROVE  AtomicInv'
  <2>1. SeesNow(visit', db) /\ OneChangeIsAtomic'
    BY <1>4 DEF AtomicInv, SeesNow, Reading, OneChangeIsAtomic
  <2>2. Agrees(visit', db, adm)
    BY <1>4 DEF AtomicInv, Agrees
  <2> QED BY <1>1, <2>1, <2>2 DEF AtomicInv
\* A decision agrees if it is the one the visit would come to.
<1>5. ASSUME NEW v \in Flight, NEW allowed \in BOOLEAN, visit' = Decided(v, allowed),
             v.writer # Several /\ v.failed = "none" => allowed \in v.seen
      PROVE  AtomicInv'
  <2>1. visit'.pc \in {"allowed", "blocked"} /\ (visit'.pc = "allowed") = allowed
    BY <1>5 DEF Decided
  <2>2. visit'.seen = v.seen /\ visit'.writer = v.writer /\ visit'.failed = v.failed
    BY <1>5 DEF Decided
  <2> QED BY <1>1, <1>5, <2>1, <2>2 DEF AtomicInv, SeesNow, Agrees, Reading, OneChangeIsAtomic
<1>6. CASE \E l \in Links, agent \in Agents : Lookup(l, agent)
  <2>1. PICK l \in Links, agent \in Agents : Lookup(l, agent)
    BY <1>6
  <2>2. /\ visit'.pc = "own" /\ visit'.link = l /\ visit'.agent = agent
        /\ visit'.id = db.ref[l] /\ visit'.seen = {Verdict(db, l, agent)}
        /\ visit'.writer = Nobody /\ visit'.failed = "none"
    BY <2>1 DEF Lookup
  <2>3. SeesNow(visit', db) /\ OneChangeIsAtomic'
    BY <2>2 DEF SeesNow, OneChangeIsAtomic
  <2>4. Rest(visit', db) = Verdict(db, l, agent)
    <3>1. Consulted(visit', db) = InForce(db, l)
      BY <2>2 DEF Consulted, InForce
    <3> QED BY <2>2, <3>1 DEF Rest, Verdict
  <2>5. Steady(visit', db, None)
    BY <2>2 DEF Steady
  <2>6. Agrees(visit', db, adm)
    BY <2>2, <2>4, <2>5, AccessAssumption DEF Agrees
  <2> QED BY <1>1, <2>3, <2>6 DEF AtomicInv
<1>7. CASE ReadPolicy
  <2>1. visit \in Flight /\ visit.pc = "own" /\ Reading(visit)
    BY <1>2, <1>7 DEF ReadPolicy, Reading
  <2>2. CASE Own(visit)
    <3> DEFINE valid == ValidateUA(visit.agent, db.policies[visit.id])
    <3>1. visit' = Decided(visit, valid) /\ valid \in BOOLEAN
      BY <1>7, <2>2 DEF ReadPolicy, Step, ValidateUA
    <3>2. Rest(visit, db) = valid
      BY <2>1, <2>2, <3>1 DEF Own, Rest, Consulted, Admits
    <3>3. visit.writer # Several /\ visit.failed = "none" => valid \in visit.seen
      BY <2>1, <3>2 DEF AtomicInv, Agrees
    <3> HIDE DEF valid
    <3> QED BY <1>5, <2>1, <3>1, <3>3
  <2>3. CASE ~Own(visit)
    <3>1. visit' = [visit EXCEPT !.pc = "setting"]
      BY <1>7, <2>3 DEF ReadPolicy, Step
    <3>2. /\ visit'.pc = "setting" /\ visit'.seen = visit.seen /\ visit'.writer = visit.writer
          /\ visit'.link = visit.link /\ visit'.agent = visit.agent /\ visit'.failed = visit.failed
      BY <2>1, <3>1 DEF Flight
    <3>3. Rest(visit', db) = Rest(visit, db)
      <4>1. Consulted(visit', db) = Consulted(visit, db)
        BY <2>1, <2>3, <3>2 DEF Consulted, Own
      <4> QED BY <3>2, <4>1 DEF Rest
    <3>4. \A p : Steady(visit, db, p) => Steady(visit', db, p)
      BY <1>3, <2>1, <2>3, <3>2 DEF Steady, Own
    <3> QED BY <1>4, <2>1, <3>2, <3>3, <3>4
  <2> QED BY <2>2, <2>3
<1>8. CASE ReadPolicyFails
  <2>1. visit \in Flight /\ Reading(visit)
    BY <1>2, <1>8 DEF ReadPolicyFails, Reading
  <2>2. /\ visit'.pc = "setting" /\ visit'.seen = visit.seen /\ visit'.writer = visit.writer
        /\ visit'.link = visit.link /\ visit'.agent = visit.agent /\ visit'.failed = "own"
    BY <1>8, <2>1 DEF ReadPolicyFails, Step, Flight
  <2> QED BY <1>4, <2>1, <2>2
<1>9. CASE ReadSetting
  <2>1. visit \in Flight /\ visit.pc = "setting" /\ Reading(visit)
    BY <1>2, <1>9 DEF ReadSetting, Reading
  <2>2. Consulted(visit, db) = db.globalRef
    BY <2>1 DEF Consulted
  <2>3. CASE db.globalRef = None
    <3>1. Rest(visit, db) = TRUE
      BY <1>3, <2>2, <2>3 DEF Rest, Admits
    <3>2. visit.writer # Several /\ visit.failed = "none" => TRUE \in visit.seen
      BY <2>1, <3>1 DEF AtomicInv, Agrees
    <3>3. visit' = Decided(visit, TRUE)
      BY <1>9, <2>3 DEF ReadSetting, Step
    <3> QED BY <1>5, <2>1, <3>2, <3>3
  <2>4. CASE db.globalRef # None
    <3>1. visit' = [visit EXCEPT !.pc = "global", !.id = db.globalRef]
      BY <1>9, <2>4 DEF ReadSetting, Step
    <3>2. /\ visit'.pc = "global" /\ visit'.id = db.globalRef /\ visit'.seen = visit.seen
          /\ visit'.writer = visit.writer /\ visit'.link = visit.link
          /\ visit'.agent = visit.agent /\ visit'.failed = visit.failed
      BY <2>1, <3>1 DEF Flight
    <3>3. Rest(visit', db) = Rest(visit, db)
      <4>1. Consulted(visit', db) = Consulted(visit, db)
        BY <2>2, <3>2 DEF Consulted
      <4> QED BY <3>2, <4>1 DEF Rest
    <3>4. \A p : Steady(visit, db, p) => Steady(visit', db, p)
      BY <2>1, <3>2 DEF Steady
    <3> QED BY <1>4, <2>1, <3>2, <3>3, <3>4
  <2> QED BY <2>3, <2>4
<1>10. CASE ReadGlobalPolicy
  <2> DEFINE admitted == Admits(db, visit.id, visit.agent)
  <2>1. visit \in Flight /\ visit.pc = "global" /\ Reading(visit)
    BY <1>2, <1>10 DEF ReadGlobalPolicy, Reading
  <2>2. visit' = Decided(visit, admitted) /\ admitted \in BOOLEAN
    BY <1>10 DEF ReadGlobalPolicy, Step, Admits
  <2>3. Rest(visit, db) = admitted
    BY <2>1 DEF Rest, Consulted
  <2>4. visit.writer # Several /\ visit.failed = "none" => admitted \in visit.seen
    BY <2>1, <2>3 DEF AtomicInv, Agrees
  <2> HIDE DEF admitted
  <2> QED BY <1>5, <2>1, <2>2, <2>4
<1>11. CASE GlobalFails
  <2>1. visit \in Flight
    BY <1>2, <1>11 DEF GlobalFails, Reading
  <2>2. visit'.pc = "allowed" /\ visit'.failed = "global"
    BY <1>11, <2>1 DEF GlobalFails, Step, Decided, Flight
  <2> QED BY <1>1, <2>2 DEF AtomicInv, SeesNow, Agrees, Reading, OneChangeIsAtomic
<1>12. CASE End
  <2>1. visit'.pc = "idle"
    BY <1>12 DEF End, Step
  <2> QED BY <1>1, <2>1 DEF AtomicInv, SeesNow, Agrees, Reading, OneChangeIsAtomic
<1> QED
  BY <1>6, <1>7, <1>8, <1>9, <1>10, <1>11, <1>12 DEF Visitor

LEMMA AdministratorAtomic ==
  ASSUME TypeOK, AtomicInv, NEW a \in Admins, Administrator(a)
  PROVE  AtomicInv'
<1>1. db \in Tables /\ adm \in [Admins -> Handlers] /\ ~Exists(db, None)
  BY DEF TypeOK, Tables, Exists, None, Ids
<1>2. adm[a].pc \in {"savePolicy", "detach", "erase"} => adm[a].id \in Ids /\ adm[a].id # None
  BY <1>1 DEF Handlers, Ids, None
\* A write that leaves a's handler short of its second statement.
<1>3. ASSUME NEW e, Write(a, e, FALSE), adm'[a].pc # "erase",
             Reading(visit) /\ Steady(visit, db, None) => Follows(visit, db, e)
      PROVE  AtomicInv'
  BY <1>3, WriteAtomic
\* No write: only a's handler moves on, and not to a second statement.
<1>4. ASSUME NEW h, h.pc # "erase", Goto(a, h), UNCHANGED <<db, visit>> PROVE AtomicInv'
  <2>1. \A b \in Admins : adm'[b].pc = "erase" => adm'[b] = adm[b]
    BY <1>1, <1>4 DEF Goto
  <2> QED BY <1>4, <2>1 DEF AtomicInv, SeesNow, Agrees, OneChangeIsAtomic
\* A policy is written.
<1>5. ASSUME NEW p, NEW c, p # None, Reading(visit), Steady(visit, db, None)
      PROVE  Follows(visit, db, [db EXCEPT !.policies = With(db, p, c)])
  <2> DEFINE e == [db EXCEPT !.policies = With(db, p, c)]
  <2>1. e.ref = db.ref /\ e.globalRef = db.globalRef /\ e.policies = With(db, p, c)
    BY <1>1 DEF Tables
  <2>2. DOMAIN e.policies = DOMAIN db.policies \cup {p}
    BY <2>1 DEF With
  <2>3. \A r : r # p => (Exists(e, r) <=> Exists(db, r))
    BY <2>2 DEF Exists
  <2>4. \A r : r # p /\ Exists(e, r) => e.policies[r] = db.policies[r]
    BY <2>1, <2>2 DEF Exists, With
  <2>5. ~Exists(e, None)
    BY <1>1, <1>5, <2>3
  <2> HIDE DEF e
  <2>6. Rest(visit, e) = Verdict(e, visit.link, visit.agent) \/ Rest(visit, e) = Rest(visit, db)
    BY <1>5, <2>1, <2>3, <2>4, <2>5, PolicyChange
  <2> QED BY <2>6 DEF Follows, e
<1>6. ASSUME NEW c \in Contents, CreatePolicy(a, c) PROVE AtomicInv'
  <2> DEFINE e == [db EXCEPT !.last = NextId(db), !.policies = With(db, NextId(db), c)]
             f == [db EXCEPT !.policies = With(db, NextId(db), c)]
  <2>1. Write(a, e, FALSE) /\ adm'[a].pc # "erase"
    BY <1>6 DEF CreatePolicy, Idle
  <2>2. NextId(db) # None
    BY <1>1 DEF Tables, NextId, None
  <2>3. e.ref = f.ref /\ e.globalRef = f.globalRef /\ e.policies = f.policies
    BY <1>1 DEF Tables
  <2>4. Reading(visit) /\ Steady(visit, db, None) => Follows(visit, db, f)
    BY <1>5, <2>2
  <2> HIDE DEF e, f
  <2>5. Rest(visit, e) = Rest(visit, f)
    BY <2>3, ReferenceChange
  <2>6. Verdict(e, visit.link, visit.agent) = Verdict(f, visit.link, visit.agent)
    <3>1. InForce(e, visit.link) = InForce(f, visit.link)
      BY <2>3 DEF InForce, Exists
    <3>2. \A r : Admits(e, r, visit.agent) = Admits(f, r, visit.agent)
      BY <2>3 DEF Admits, Exists
    <3> QED BY <3>1, <3>2 DEF Verdict
  <2>7. Reading(visit) /\ Steady(visit, db, None) => Follows(visit, db, e)
    BY <2>4, <2>5, <2>6 DEF Follows
  <2> QED BY <1>3, <2>1, <2>7
<1>7. ASSUME SavePolicy(a) PROVE AtomicInv'
  <2>1. adm[a].id # None /\ adm'[a].pc # "erase"
    BY <1>1, <1>2, <1>7 DEF SavePolicy, Return, Goto
  <2> QED BY <1>3, <1>5, <1>7, <2>1 DEF SavePolicy
\* Where only references change.
<1>8. ASSUME NEW r PROVE Follows(visit, db, [db EXCEPT !.ref = r])
  <2> DEFINE e == [db EXCEPT !.ref = r]
  <2>1. e.policies = db.policies /\ e.globalRef = db.globalRef
    BY <1>1 DEF Tables
  <2> HIDE DEF e
  <2>2. Rest(visit, e) = Rest(visit, db)
    BY <2>1, ReferenceChange
  <2> QED BY <2>2 DEF Follows, e
<1>9. ASSUME SaveLink(a) PROVE AtomicInv'
  <2>1. adm'[a].pc # "erase"
    BY <1>1, <1>9 DEF SaveLink, Return, Goto
  <2>2. Write(a, [db EXCEPT !.ref = [db.ref EXCEPT ![adm[a].link] = adm[a].id]], FALSE)
    BY <1>1, <1>9 DEF SaveLink, Tables
  <2> QED BY <1>3, <1>8, <2>1, <2>2
<1>10. ASSUME NEW p, UpdateSettings(a, p) PROVE AtomicInv'
  <2> DEFINE e == [db EXCEPT !.globalRef = p]
  <2>1. Write(a, e, FALSE) /\ adm'[a].pc # "erase"
    BY <1>10 DEF UpdateSettings, Idle
  <2>2. e.ref = db.ref /\ e.policies = db.policies
    BY <1>1 DEF Tables
  <2> HIDE DEF e
  <2>3. Reading(visit) /\ Steady(visit, db, None) => Follows(visit, db, e)
    BY <2>2, SettingChange DEF Follows
  <2> QED BY <1>3, <2>1, <2>3
<1>11. ASSUME Detach(a) PROVE AtomicInv'
  <2> DEFINE e == [db EXCEPT !.ref = Detached(db, adm[a].id)]
  <2>1. Write(a, e, FALSE) /\ Follows(visit, db, e)
    BY <1>8, <1>11 DEF Detach
  <2>2. adm'[a].id = adm[a].id
    BY <1>1, <1>11 DEF Detach, Goto, Handlers
  <2>3. /\ e.ref = Detached(db, adm[a].id) /\ e.globalRef = db.globalRef
        /\ e.policies = db.policies
    BY <1>1 DEF Tables
  <2> HIDE DEF e
  <2>4. ASSUME Reading(visit), Steady(visit, db, None) PROVE Steady(visit, e, adm[a].id)
    <3>1. visit.link \in Links
      BY <2>4 DEF TypeOK, Outcome, Flight, Reading
    <3>2. \/ e.ref[visit.link] = db.ref[visit.link]
          \/ e.ref[visit.link] = None /\ db.ref[visit.link] = adm[a].id
      BY <2>3, <3>1 DEF Detached
    <3> QED BY <1>1, <2>3, <2>4, <3>2 DEF Steady, Exists
  <2> QED BY <2>1, <2>2, <2>4, WriteAtomic
<1>12. ASSUME DetachFails(a) PROVE AtomicInv'
  <2>1. Write(a, db, FALSE) /\ Follows(visit, db, db)
    BY <1>12 DEF DetachFails, Follows
  <2>2. Steady(visit, db, None) => Steady(visit, db, adm'[a].id)
    BY DEF Steady
  <2> QED BY <2>1, <2>2, WriteAtomic
<1>13. ASSUME Erase(a) PROVE AtomicInv'
  <2> DEFINE p == adm[a].id
             e == [db EXCEPT !.policies = Without(db, p)]
  <2>1. Write(a, e, TRUE) /\ adm[a].pc = "erase" /\ adm'[a].pc # "erase"
    BY <1>1, <1>13 DEF Erase, Return, Goto
  <2>2. e.ref = db.ref /\ e.globalRef = db.globalRef /\ e.policies = Without(db, p)
    BY <1>1 DEF Tables
  <2>3. \A r : Exists(e, r) <=> Exists(db, r) /\ r # p
    BY <2>2 DEF Exists, Without
  <2>4. \A r : r # p /\ Exists(e, r) => e.policies[r] = db.policies[r]
    BY <2>2, <2>3 DEF Exists, Without
  <2>5. ~Exists(e, None) /\ ~Exists(e, p)
    BY <1>1, <2>3
  <2> HIDE DEF e, p
  <2>6. ASSUME NEW q \in {None, p}, Reading(visit), Steady(visit, db, q)
        PROVE  Follows(visit, db, e)
    BY <2>2, <2>3, <2>4, <2>5, <2>6, PolicyChange DEF Follows
  <2> QED BY <2>1, <2>6, WriteAtomic DEF p
<1>14. \/ \E p, c : UpdatePolicy(a, p, c)
       \/ \E p : DeletePolicy(a, p)
       \/ \E l, p : UpdateLink(a, l, p)
       \/ SaveFails(a)
       => \E h : h.pc # "erase" /\ Goto(a, h) /\ UNCHANGED <<db, visit>>
  BY DEF UpdatePolicy, DeletePolicy, UpdateLink, SaveFails, Return
<1> QED
  BY <1>4, <1>6, <1>7, <1>9, <1>10, <1>11, <1>12, <1>13, <1>14 DEF Administrator

\* Spec => []OneChangeIsAtomic: among the statements of a visit's check
\* (proxy.go:72-92, ua.go:95-113) one change of any policy, link or setting, a
\* deletion in its two statements included (settings.go:518-521), leaves the
\* decision one that the tables would have given at some moment.
THEOREM VisitsAtomic == Spec => []OneChangeIsAtomic
<1>1. Init => AtomicInv
  BY DEF Init, AtomicInv, SeesNow, Agrees, Reading, OneChangeIsAtomic
<1>2. TypeOK /\ AtomicInv /\ [Next]_vars => AtomicInv'
  <2> SUFFICES ASSUME TypeOK, AtomicInv, [Next]_vars PROVE AtomicInv'
    OBVIOUS
  <2>1. CASE Visitor
    BY <2>1, VisitorAtomic
  <2>2. CASE \E a \in Admins : Administrator(a)
    BY <2>2, AdministratorAtomic
  <2>3. CASE UNCHANGED vars
    BY <2>3 DEF vars, AtomicInv, SeesNow, Agrees, OneChangeIsAtomic
  <2> QED BY <2>1, <2>2, <2>3 DEF Next
<1>3. AtomicInv => OneChangeIsAtomic
  BY DEF AtomicInv
<1> QED
  BY <1>1, <1>2, <1>3, TypeCorrect, PTL DEF Spec
=============================================================================
