------------------------------ MODULE FormPage ------------------------------
(***************************************************************************)
(* What the pages of the admin console that hold a form have in common:    *)
(* the place they are mounted at, what was typed into them, and requests   *)
(* that are answered in any order or fail.  A page that is left drops its  *)
(* state and what was typed; its requests go on without it.                *)
(***************************************************************************)
EXTENDS Integers, Sequences, FiniteSets, SequencesExt

CONSTANTS Links,     \* the links that are edited
          Policies,  \* the User-Agent policies
          MaxCalls   \* bound: requests in flight

ASSUME FormsAssumption ==
  /\ MaxCalls \in Nat \ {0}
  /\ {"none", "new", "policies", "settings", "login", "elsewhere"} \cap (Links \cup Policies) = {}
  /\ Links \cap Policies = {}

VARIABLES route,    \* where the tab is: a link's edit page by the link's name
          holds,    \* the record whose values the form was filled with
          typed,    \* what was typed: "early" if a request may overwrite it
          loading,  \* the page's own loading flag
          failed,   \* loadError is set
          calls,    \* requests in flight
          strayed   \* history: a form was left for another one while its save
                    \* was in flight, or without being mounted anew

form == <<route, holds, typed, loading, failed, calls, strayed>>

None == "none"
Routes == Links \cup {"new", "policies", "settings", "login", "elsewhere"}
Ops == {"load", "slug", "saveLink", "list", "savePolicy", "delete", "test",
        "settings", "saveSettings", "password"}

\* A request of the mounted page: what it is about, the record whose values it
\* carries, and the tester's choice that its handler goes on with.
Call(op, on, with) == [op |-> op, on |-> on, holds |-> with, choice |-> None, mine |-> TRUE]

HasRoom == Len(calls) < MaxCalls
InFlight(ops) == \E i \in 1..Len(calls) : calls[i].mine /\ calls[i].op \in ops

\* Of the requests of a page that is gone only the saving of a link does
\* something when it is answered.
OrphanedUpTo(cs) ==
  LET left[n \in 0..Len(cs)] ==
        IF n = 0 THEN << >>
        ELSE IF cs[n].op = "saveLink" THEN Append(left[n - 1], [cs[n] EXCEPT !.mine = FALSE])
             ELSE left[n - 1]
  IN  left

Orphaned(cs) == OrphanedUpTo(cs)[Len(cs)]

\* The requests a page makes when it is mounted.  The list of policies that a
\* link's form offers is left out.
FirstCalls(r) ==
  CASE r \in Links -> <<Call("load", r, None)>>
    [] r = "new" -> <<Call("slug", None, None)>>
    [] r = "policies" -> <<Call("list", None, None)>>
    [] r = "settings" -> <<Call("settings", None, None)>>
    [] OTHER -> <<>>

\* Seeded fault: the form's fields outlive the page.  The model does not use it.
MountedFilled(r, others) ==
  /\ route' = r /\ typed' = None /\ failed' = FALSE
  /\ loading' = (r \in Links \cup {"policies", "settings"})
  /\ calls' = Orphaned(others) \o FirstCalls(r)
  /\ strayed' = (Orphaned(others) # <<>>)
  /\ UNCHANGED holds

\* A page is mounted at r, with others the requests that were in flight.
Mounted(r, others) ==
  /\ route' = r /\ holds' = None /\ typed' = None /\ failed' = FALSE
  /\ loading' = (r \in Links \cup {"policies", "settings"})
  /\ calls' = Orphaned(others) \o FirstCalls(r)
  /\ strayed' = (Orphaned(others) # <<>>)

\* The i-th request is answered with 401: the token is taken for expired, and the
\* tab goes to the login form.  That is so of a wrong old password, too, whose
\* session is a good one.  AdminSession has the commits in between.
Refused(i) == Mounted("login", RemoveAt(calls, i))

\* Something is typed into the form.  It may be overwritten by what is still to
\* fill the form.
TypeInto(fills) ==
  /\ typed' = IF InFlight(fills) THEN "early" ELSE "kept"
  /\ UNCHANGED <<route, holds, loading, failed, calls, strayed>>

\* A handler sends a request; the page's own variables are up to it.
Send(c) == HasRoom /\ calls' = Append(calls, c)

\* The answer to the i-th request is dealt with.
Done(i) == calls' = RemoveAt(calls, i)
=============================================================================
