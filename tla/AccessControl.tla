---------------------------- MODULE AccessControl ----------------------------
(***************************************************************************)
(* Which User-Agents a link lets in.  A visitor's handler reads the link,  *)
(* the policy the link names and, when there is none, the global setting   *)
(* and the policy that names, one statement at a time; administrators      *)
(* write all of these, and no transaction or foreign key ties them         *)
(* together.                                                               *)
(*                                                                         *)
(* A User-Agent is one value, or Empty.  The keywords of a policy are the  *)
(* set of User-Agents they match: case and regular expressions decide only *)
(* which.                                                                  *)
(***************************************************************************)
EXTENDS Integers, FiniteSets

CONSTANTS Links, Admins,
          Agents,      \* the User-Agents of visitors, Empty among them
          Empty,
          Contents,    \* what policies may say
          MaxPolicies, \* bound: policies that are created
          Nobody, Several

ASSUME AccessAssumption ==
  /\ MaxPolicies \in Nat
  /\ Nobody \notin Admins /\ Several \notin Admins /\ Nobody # Several
  /\ Contents \subseteq [mode : {"disabled", "blacklist", "whitelist", "mixed"},
                         enabled : BOOLEAN, allowEmpty : BOOLEAN,
                         block : SUBSET Agents,  \* whom the block keywords match
                         allow : SUBSET Agents,  \* whom the allow keywords match
                         listed : BOOLEAN]       \* there are allow keywords

VARIABLES db,     \* the tables of policies, links and settings
          visit,  \* how far a visitor's handler is, and what happened meanwhile
          adm,    \* what each administrator's handler is doing
          late    \* history: links that were saved with a policy on its way
                  \* out, or that its deletion failed to detach

vars == <<db, visit, adm, late>>

None == 0
Ids == 1..MaxPolicies

\* The policies there are and what they say, the last id given out, the policy
\* each link names, and the setting global_ua_policy_id.
Tables == [policies : UNION {[S -> Contents] : S \in SUBSET Ids}, last : 0..MaxPolicies,
           ref : [Links -> Ids \cup {None}], globalRef : Ids \cup {None}]

Exists(d, p) == p \in DOMAIN d.policies

\* A visit under way, one that is decided, and what an administrator's handler
\* holds between two statements.
Flight == [pc : {"own", "setting", "global"}, link : Links, agent : Agents,
           id : Ids \cup {None}, seen : SUBSET BOOLEAN, writer : Admins \cup {Nobody, Several},
           moved : BOOLEAN, exposed : BOOLEAN, failed : {"none", "own"}]
Outcome == [pc : {"allowed", "blocked"}, seen : SUBSET BOOLEAN,
            writer : Admins \cup {Nobody, Several}, moved : BOOLEAN, exposed : BOOLEAN,
            failed : {"none", "own", "global"}]
Handlers == [pc : {"idle"}]
            \cup [pc : {"savePolicy"}, id : Ids, content : Contents]
            \cup [pc : {"detach", "erase"}, id : Ids]
            \cup [pc : {"saveLink"}, link : Links, id : Ids \cup {None}]

-----------------------------------------------------------------------------
ValidateUA(agent, policy) ==
  \/ ~policy.enabled \/ policy.mode = "disabled"
  \/ agent = Empty /\ policy.allowEmpty
  \/ /\ agent # Empty
     /\ policy.mode \in {"blacklist", "mixed"} => agent \notin policy.block
     /\ policy.mode \in {"whitelist", "mixed"} /\ policy.listed => agent \in policy.allow

\* What the tables say at one moment: a policy that is gone counts as none, and
\* without a policy everybody is let in.
Admits(d, p, agent) == Exists(d, p) => ValidateUA(agent, d.policies[p])

InForce(d, l) == IF Exists(d, d.ref[l]) THEN d.ref[l] ELSE d.globalRef

Verdict(d, l, agent) == Admits(d, InForce(d, l), agent)

\* Somebody who reads these tables in whatever order may be let in.
Exposed(d, agent) ==
  ~Exists(d, d.globalRef) \/ \E p \in DOMAIN d.policies : ValidateUA(agent, d.policies[p])

-----------------------------------------------------------------------------
Init ==
  /\ db = [policies |-> << >>, last |-> 0, ref |-> [l \in Links |-> None], globalRef |-> None]
  /\ visit = [pc |-> "idle"]
  /\ adm = [a \in Admins |-> [pc |-> "idle"]]
  /\ late = {}

-----------------------------------------------------------------------------
(* The visitor.  The link is there and available; the rest of its handler  *)
(* is LinkProxy's.  From the moment the link is read, seen collects what   *)
(* the tables would have said at each moment, writer is who changed them,  *)
(* exposed and moved whether the agent might have been let in and whether  *)
(* the global setting was changed, failed which statement failed.          *)

Lookup(l, agent) ==
  /\ visit.pc = "idle"
  /\ visit' = [pc |-> "own", link |-> l, agent |-> agent, id |-> db.ref[l],
               seen |-> {Verdict(db, l, agent)}, writer |-> Nobody, moved |-> FALSE,
               exposed |-> Exposed(db, agent), failed |-> "none"]
  /\ UNCHANGED <<db, adm, late>>

Step(v) == visit' = v /\ UNCHANGED <<db, adm, late>>

Decided(v, allowed) == [pc |-> IF allowed THEN "allowed" ELSE "blocked", seen |-> v.seen,
                        writer |-> v.writer, moved |-> v.moved, exposed |-> v.exposed,
                        failed |-> v.failed]

-----------------------------------------------------------------------------
(* Seeded faults: bugs this code might have had, one per property.  No     *)
(* definition of the model uses them.                                      *)

NextIdOff(d) == d.last
DetachedNone(d, p) == d.ref
GlobalTakesPrecedence(v) == Exists(db, v.id) /\ db.globalRef = None
GoneLetsIn ==
  /\ visit.pc = "own"
  /\ IF Exists(db, visit.id)
     THEN Step(Decided(visit, ValidateUA(visit.agent, db.policies[visit.id])))
     ELSE IF visit.id # None THEN Step(Decided(visit, TRUE))
     ELSE Step([visit EXCEPT !.pc = "setting"])

-----------------------------------------------------------------------------
\* The link's own policy decides if it can be read.
Own(v) == Exists(db, v.id)

ReadPolicy ==
  /\ visit.pc = "own"
  /\ IF Own(visit)
     THEN Step(Decided(visit, ValidateUA(visit.agent, db.policies[visit.id])))
     ELSE Step([visit EXCEPT !.pc = "setting"])

\* An error is taken for a policy that is gone.
ReadPolicyFails ==
  /\ visit.pc = "own" /\ visit.id # None
  /\ Step([visit EXCEPT !.pc = "setting", !.failed = "own"])

ReadSetting ==
  /\ visit.pc = "setting"
  /\ IF db.globalRef = None
     THEN Step(Decided(visit, TRUE))
     ELSE Step([visit EXCEPT !.pc = "global", !.id = db.globalRef])

ReadGlobalPolicy ==
  /\ visit.pc = "global"
  /\ Step(Decided(visit, Admits(db, visit.id, visit.agent)))

GlobalFails ==
  /\ visit.pc \in {"setting", "global"}
  /\ Step(Decided([visit EXCEPT !.failed = "global"], TRUE))

End == visit.pc \in {"allowed", "blocked"} /\ Step([pc |-> "idle"])

-----------------------------------------------------------------------------
(* Administrators.  A row that was read is saved whole, and saved again if *)
(* it is gone by then.                                                     *)

UnderWay == visit.pc \in {"own", "setting", "global"}

\* The handler of a writes d; last is the second statement of a deletion.
Write(a, d, last) ==
  /\ db' = d
  /\ visit' = IF ~UnderWay THEN visit ELSE
       [visit EXCEPT
          !.seen = @ \cup {Verdict(d, visit.link, visit.agent)},
          !.writer = IF @ = Nobody \/ (@ = a /\ last) THEN a ELSE Several,
          !.moved = @ \/ d.globalRef # db.globalRef,
          !.exposed = @ \/ Exposed(d, visit.agent)]

Goto(a, state) == adm' = [adm EXCEPT ![a] = state]
Idle(a) == adm[a].pc = "idle"
Return(a) == Goto(a, [pc |-> "idle"])

NextId(d) == d.last + 1

With(d, p, c) == [q \in DOMAIN d.policies \cup {p} |-> IF q = p THEN c ELSE d.policies[q]]
Without(d, p) == [q \in DOMAIN d.policies \ {p} |-> d.policies[q]]

CreatePolicy(a, c) ==
  /\ Idle(a) /\ db.last < MaxPolicies
  /\ Write(a, [db EXCEPT !.last = NextId(db), !.policies = With(db, NextId(db), c)], FALSE)
  /\ UNCHANGED <<adm, late>>

UpdatePolicy(a, p, c) ==
  /\ Idle(a) /\ Exists(db, p)
  /\ Goto(a, [pc |-> "savePolicy", id |-> p, content |-> c])
  /\ UNCHANGED <<db, visit, late>>

SavePolicy(a) ==
  /\ adm[a].pc = "savePolicy"
  /\ Write(a, [db EXCEPT !.policies = With(db, adm[a].id, adm[a].content)], FALSE)
  /\ Return(a) /\ UNCHANGED late

DeletePolicy(a, p) ==
  /\ Idle(a) /\ Exists(db, p)
  /\ Goto(a, [pc |-> "detach", id |-> p])
  /\ UNCHANGED <<db, visit, late>>

\* The references to p after those of links are set to NULL.
Detached(d, p) == [l \in Links |-> IF d.ref[l] = p THEN None ELSE d.ref[l]]

Naming(p) == {l \in Links : db.ref[l] = p}

Detach(a) ==
  /\ adm[a].pc = "detach"
  /\ Write(a, [db EXCEPT !.ref = Detached(db, adm[a].id)], FALSE)
  /\ Goto(a, [adm[a] EXCEPT !.pc = "erase"])
  /\ late' = late \ Naming(adm[a].id)

\* The error is ignored, and the deletion goes on.
DetachFails(a) ==
  /\ adm[a].pc = "detach"
  /\ Goto(a, [adm[a] EXCEPT !.pc = "erase"])
  /\ late' = late \cup Naming(adm[a].id)
  /\ Write(a, db, FALSE)

Erase(a) ==
  /\ adm[a].pc = "erase"
  /\ Write(a, [db EXCEPT !.policies = Without(db, adm[a].id)], TRUE)
  /\ Return(a) /\ UNCHANGED late

\* UpdateLink takes any policy its form was made with, one that is gone too;
\* EnableLink and DisableLink take the one they read.
UpdateLink(a, l, p) ==
  /\ Idle(a) /\ p \in 0..db.last
  /\ Goto(a, [pc |-> "saveLink", link |-> l, id |-> p])
  /\ UNCHANGED <<db, visit, late>>

GoingOrGone(p) ==
  p # None /\ (~Exists(db, p) \/ \E b \in Admins : adm[b].pc = "erase" /\ adm[b].id = p)

SaveLink(a) ==
  /\ adm[a].pc = "saveLink"
  /\ Write(a, [db EXCEPT !.ref[adm[a].link] = adm[a].id], FALSE)
  /\ Return(a)
  /\ late' = IF GoingOrGone(adm[a].id) THEN late \cup {adm[a].link} ELSE late \ {adm[a].link}

UpdateSettings(a, p) ==
  /\ Idle(a) /\ p \in 0..db.last
  /\ Write(a, [db EXCEPT !.globalRef = p], FALSE)
  /\ UNCHANGED <<adm, late>>

\* A statement fails: the handler answers with an error.
SaveFails(a) ==
  /\ adm[a].pc \in {"savePolicy", "erase", "saveLink"}
  /\ Return(a)
  /\ UNCHANGED <<db, visit, late>>

Visitor ==
  \/ \E l \in Links, agent \in Agents : Lookup(l, agent)
  \/ ReadPolicy \/ ReadPolicyFails \/ ReadSetting \/ ReadGlobalPolicy \/ GlobalFails \/ End

Administrator(a) ==
  \/ \E c \in Contents : CreatePolicy(a, c) \/ \E p \in Ids : UpdatePolicy(a, p, c)
  \/ \E p \in Ids : DeletePolicy(a, p)
  \/ \E p \in Ids \cup {None} : UpdateSettings(a, p) \/ \E l \in Links : UpdateLink(a, l, p)
  \/ SavePolicy(a) \/ Detach(a) \/ DetachFails(a) \/ Erase(a) \/ SaveLink(a) \/ SaveFails(a)

Next == Visitor \/ \E a \in Admins : Administrator(a)

Spec == Init /\ [][Next]_vars

-----------------------------------------------------------------------------
\* The tables, the visitor's handler and the administrators' hold what they may
\* in each of their states, and every policy that exists, is named or is held
\* has had its id given out.
TypeOK ==
  /\ db \in Tables /\ late \subseteq Links
  /\ visit \in [pc : {"idle"}] \cup Flight \cup Outcome
  /\ adm \in [Admins -> Handlers]
  /\ DOMAIN db.policies \cup {db.globalRef} \subseteq 0..db.last
  /\ \A l \in Links : db.ref[l] =< db.last
  /\ \A a \in Admins : adm[a].pc # "idle" => adm[a].id =< db.last

\* A visit during which one change was made, a deletion in its two statements
\* included, is decided as before the change or as after it, although the
\* decision reads up to four rows one by one.
OneChangeIsAtomic ==
  visit.pc \in {"allowed", "blocked"} /\ visit.writer # Several /\ visit.failed = "none"
    => (visit.pc = "allowed") \in visit.seen

\* Whom every policy keeps out is kept out: as long as there is a global policy
\* and the setting does not move to another, no order of updates, deletions and
\* references left behind lets a visitor slip between a link's policy and the
\* global one, even if the link's policy cannot be read.
NobodySlipsThrough ==
  visit.pc = "allowed" => visit.exposed \/ visit.moved \/ visit.failed = "global"

\* A link names a policy that is gone only if it was saved while that policy
\* was going or gone, or if the detaching failed.
DeletionDetaches ==
  \A l \in Links : db.ref[l] # None /\ ~Exists(db, db.ref[l]) => l \in late
=============================================================================
