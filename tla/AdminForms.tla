----------------------------- MODULE AdminForms -----------------------------
(***************************************************************************)
(* The forms of the admin console in one tab: links, policies and settings *)
(* one at a time, with the administrator going from one to another, by a   *)
(* click or with Back and Forward, while requests are in flight.           *)
(***************************************************************************)
EXTENDS LinkForm, PolicyPage, SettingsPage

vars == <<form, policyPage, settingsPage>>

Init ==
  /\ route = "elsewhere" /\ holds = None /\ typed = None
  /\ loading = FALSE /\ failed = FALSE /\ calls = <<>> /\ strayed = FALSE
  /\ listed = {} /\ showForm = FALSE /\ editing = None
  /\ selected = None /\ verdict = None /\ testing = FALSE
  /\ saving = FALSE /\ passLoading = FALSE

\* Another page takes the place of the one that is mounted.
Navigate(r) ==
  /\ r # route /\ ~(OnLinkForm(route) /\ OnLinkForm(r))
  /\ Len(Orphaned(calls)) < MaxCalls
  /\ Mounted(r, calls)
  /\ PolicyPageMounted /\ SettingsPageMounted

\* handleReconnect mounts the same page anew.
Reconnect ==
  /\ Len(Orphaned(calls)) < MaxCalls
  /\ Mounted(route, calls)
  /\ PolicyPageMounted /\ SettingsPageMounted

Moves == Reconnect \/ \E r \in Routes : Navigate(r)

\* The tab leaves the page on account of a request that no form has made: one of
\* a page that is gone is answered with 401, or the check of the session fails,
\* each at any time; or a check made at the login form has come late.
SentAway ==
  /\ \E r \in {"login", "elsewhere"} : Mounted(r, calls)
  /\ PolicyPageMounted /\ SettingsPageMounted

\* A 401 and the answer to a link's save unmount whatever page there is by then.
Answer(i) ==
  \/ Refused(i) /\ PolicyPageMounted /\ SettingsPageMounted
  \/ LinkAnswered(i) /\ UNCHANGED <<policyPage, settingsPage>>
  \/ LinkSaved(i) /\ PolicyPageMounted /\ SettingsPageMounted
  \/ PolicyAnswered(i) /\ UNCHANGED settingsPage
  \/ SettingsPageAnswered(i) /\ UNCHANGED policyPage

Next ==
  \/ Moves \/ SentAway
  \/ LinkFormNext /\ UNCHANGED <<policyPage, settingsPage>>
  \/ PolicyPageNext /\ UNCHANGED settingsPage
  \/ SettingsPageNext /\ UNCHANGED policyPage
  \/ \E i \in 1..Len(calls) : Answer(i)

\* Every request is answered or fails some day, the oldest among them.
Fairness == WF_vars(calls # <<>> /\ Answer(1))

Spec == Init /\ [][Next]_vars /\ Fairness

-----------------------------------------------------------------------------
\* Every variable has the type of what it models, and what a form holds is a
\* record of its own page.
TypeOK ==
  /\ route \in Routes /\ typed \in {None, "early", "kept"}
  /\ holds # None => CASE OnLinkForm(route) -> holds \in Links
                       [] route = "policies" -> holds \in Policies
                       [] OTHER -> route = "settings" /\ holds = "settings"
  /\ {loading, failed, strayed, showForm, testing, saving, passLoading} \subseteq BOOLEAN
  /\ listed \subseteq Policies /\ {editing, selected, verdict} \subseteq Policies \cup {None}
  /\ Len(calls) =< MaxCalls /\ \A i \in 1..Len(calls) : calls[i].op \in Ops

\* A page that says it is loading, and a button that is disabled because it
\* waits, have a request of the mounted page in flight: no answer to another
\* request, and none to a page that is gone, is what they wait for.
WaitingHasCall ==
  /\ loading => InFlight({"load", "saveLink", "list", "settings"})
  /\ saving => InFlight({"saveSettings"})
  /\ passLoading => InFlight({"password"})
  /\ testing => InFlight({"test"})

\* The buttons that are disabled while they wait keep a second click from
\* sending the same change again: the mounted page has one save at a time.  One
\* of a page that is gone may still be on its way.
OneSaveInFlight ==
  \A i, j \in 1..Len(calls) :
    /\ calls[i].mine /\ calls[j].mine /\ calls[i].op = calls[j].op
    /\ calls[i].op \in {"saveSettings", "password", "test"} \/ (calls[i].op = "saveLink" /\ ~strayed)
    => i = j

\* What is saved as a record was not loaded as another one, and settings are
\* saved only after they were loaded, as long as the administrator does not go
\* straight from one link's form to another.
SavesOwnRecord ==
  ~strayed => \A i \in 1..Len(calls) :
                /\ calls[i].op = "saveLink" => calls[i].holds \in {calls[i].on, None}
                /\ calls[i].op = "savePolicy" => calls[i].holds = calls[i].on
                /\ calls[i].op = "saveSettings" => calls[i].holds = calls[i].on

\* What was typed once the form was filled is lost only to the administrator, who
\* leaves it, cancels it, opens another, or is offline for a moment; to the end of
\* the session, a 401 that the page was answered or one that is no doing of its
\* own; or to the saving of the record that is open.  No other answer that comes
\* late overwrites or closes it.  Only a form that another was left for without
\* waiting, or without being mounted anew, may be closed by the other's saving,
\* or filled by a load that was sent on the way.
EditsKept ==
  [][typed = "kept" /\ typed' = None =>
       \/ Moves \/ SentAway \/ CancelPolicy \/ \E p \in Policies : EditPolicy(p)
       \/ \E i \in 1..Len(calls) :
            \/ Refused(i)
            \/ LinkSaved(i) /\ (strayed \/ calls[i].on = route)
            \/ PolicySaved(i) /\ (strayed \/ calls[i].on = editing)
            \/ LinkLoaded(i) /\ strayed]_vars

\* Every button that waits becomes usable again, unless the pages are mounted
\* anew for ever.
WaitingEnds ==
  /\ saving ~> ~saving
  /\ passLoading ~> ~passLoading
  /\ testing ~> ~testing
  /\ []<><<Moves>>_vars \/ []<>~loading

\* "If edit mode, load link details": what is saved as a link was not loaded as
\* another link.
EditsLoadedLink ==
  \A i \in 1..Len(calls) : calls[i].op = "saveLink" => calls[i].holds \in {calls[i].on, None}
=============================================================================
