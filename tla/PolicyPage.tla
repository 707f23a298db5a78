----------------------------- MODULE PolicyPage -----------------------------
(***************************************************************************)
(* UAPolicies: a list of User-Agent policies, one form that creates and    *)
(* edits them, and a tester.  The list may be fetched, the form saved and  *)
(* a policy deleted at the same time; whatever save is answered closes the *)
(* form that is open by then.                                              *)
(***************************************************************************)
EXTENDS FormPage

VARIABLES listed,    \* the policies of the last answer
          showForm,
          editing,   \* editingId: a policy, or "none" for a new one
          selected,  \* the tester's choice
          verdict,   \* the policy the tester's result is about
          testing

policyPage == <<listed, showForm, editing, selected, verdict, testing>>

PolicyPageMounted ==
  /\ listed' = {} /\ showForm' = FALSE /\ editing' = None
  /\ selected' = None /\ verdict' = None /\ testing' = FALSE

\* The rows, with their buttons.
RowsShown == IF route # "policies" \/ loading \/ failed THEN {} ELSE listed

\* A handler and the fetchPolicies it ends with know the tester's choice of the
\* render they were made in.
PolicyCall(op, p, with) == [Call(op, p, with) EXCEPT !.choice = selected]

FetchPolicies(others, choice) ==
  /\ loading' = TRUE /\ failed' = FALSE
  /\ calls' = Append(others, [Call("list", None, None) EXCEPT !.choice = choice])

RetryPolicies ==
  /\ route = "policies" /\ failed /\ ~loading /\ HasRoom
  /\ FetchPolicies(calls, selected)
  /\ UNCHANGED <<route, holds, typed, strayed, policyPage>>

\* The server lists the policies there are; the first is chosen for the tester.
PoliciesListed(i, found) ==
  /\ calls[i].op = "list"
  /\ listed' = found /\ loading' = FALSE
  /\ \/ calls[i].choice = None /\ selected' \in found
     \/ (calls[i].choice # None \/ found = {}) /\ UNCHANGED selected
  /\ Done(i)
  /\ UNCHANGED <<route, holds, typed, failed, strayed, showForm, editing, verdict, testing>>

\* Not a 401, nor is any of the page's other failures.
PoliciesFail(i) ==
  /\ calls[i].op = "list"
  /\ failed' = TRUE /\ loading' = FALSE
  /\ Done(i)
  /\ UNCHANGED <<route, holds, typed, strayed, policyPage>>

\* The form is filled for p, or with the defaults of a new policy.
ShowForm(p) ==
  /\ showForm' = TRUE /\ editing' = p
  /\ holds' = p /\ typed' = None
  /\ strayed' = (strayed \/ InFlight({"savePolicy"}))
  /\ UNCHANGED <<route, loading, failed, calls, listed, selected, verdict, testing>>

EditPolicy(p) == p \in RowsShown /\ ShowForm(p)
CreatePolicy == route = "policies" /\ ~showForm /\ ShowForm(None)

CancelPolicy ==
  /\ route = "policies" /\ showForm
  /\ showForm' = FALSE /\ typed' = None
  /\ UNCHANGED <<route, holds, loading, failed, calls, strayed, listed, editing, selected,
                 verdict, testing>>

TypePolicy == route = "policies" /\ showForm /\ TypeInto({}) /\ UNCHANGED policyPage

\* The name is required.  The button stays enabled while the save is in flight.
SubmitPolicy ==
  /\ route = "policies" /\ showForm
  /\ holds # None \/ typed # None
  /\ Send(PolicyCall("savePolicy", editing, holds))
  /\ UNCHANGED <<route, holds, typed, loading, failed, strayed, policyPage>>

PolicySaved(i) ==
  /\ calls[i].op = "savePolicy"
  /\ showForm' = FALSE /\ typed' = None
  /\ FetchPolicies(RemoveAt(calls, i), calls[i].choice)
  /\ UNCHANGED <<route, holds, strayed, listed, editing, selected, verdict, testing>>

\* A form that is open for the policy stays.
DeletePolicy(p) ==
  /\ p \in RowsShown
  /\ Send(PolicyCall("delete", p, None))
  /\ UNCHANGED <<route, holds, typed, loading, failed, strayed, policyPage>>

PolicyDeleted(i) ==
  /\ calls[i].op = "delete"
  /\ FetchPolicies(RemoveAt(calls, i), calls[i].choice)
  /\ UNCHANGED <<route, holds, typed, strayed, policyPage>>

\* A toast tells of it.
PolicyChangeFails(i) ==
  /\ calls[i].op \in {"savePolicy", "delete"}
  /\ Done(i)
  /\ UNCHANGED <<route, holds, typed, loading, failed, strayed, policyPage>>

\* The last verdict stays when another policy is chosen.
SelectPolicy(p) ==
  /\ route = "policies" /\ p \in listed \cup {None} /\ p # selected
  /\ selected' = p
  /\ UNCHANGED <<form, listed, showForm, editing, verdict, testing>>

RunTest ==
  /\ route = "policies" /\ selected # None /\ ~testing
  /\ Send(Call("test", selected, None))
  /\ testing' = TRUE /\ verdict' = None
  /\ UNCHANGED <<route, holds, typed, loading, failed, strayed, listed, showForm, editing, selected>>

\* Seeded fault: the button waits for ever.  The model does not use it.
TestAnsweredWaiting(i) ==
  /\ calls[i].op = "test"
  /\ verdict' \in {calls[i].on, None}
  /\ Done(i)
  /\ UNCHANGED <<route, holds, typed, loading, failed, strayed, listed, showForm, editing,
                 selected, testing>>

TestAnswered(i) ==
  /\ calls[i].op = "test"
  /\ testing' = FALSE /\ verdict' \in {calls[i].on, None}
  /\ Done(i)
  /\ UNCHANGED <<route, holds, typed, loading, failed, strayed, listed, showForm, editing, selected>>

PolicyPageNext ==
  \/ RetryPolicies \/ CreatePolicy \/ CancelPolicy \/ TypePolicy \/ SubmitPolicy \/ RunTest
  \/ \E p \in Policies : EditPolicy(p) \/ DeletePolicy(p)
  \/ \E p \in Policies \cup {None} : SelectPolicy(p)

PolicyAnswered(i) ==
  \/ \E found \in SUBSET Policies : PoliciesListed(i, found)
  \/ PoliciesFail(i) \/ PolicySaved(i) \/ PolicyDeleted(i) \/ PolicyChangeFails(i)
  \/ TestAnswered(i)
=============================================================================
