------------------------------ MODULE LinkForm ------------------------------
(***************************************************************************)
(* LinkEdit: the form that creates a link and edits one.  Both are the     *)
(* same component at the same place, and its effect depends on isEdit      *)
(* alone: Back and Forward between two forms keep it mounted with the      *)
(* values of the first.                                                    *)
(***************************************************************************)
EXTENDS FormPage

OnLinkForm(r) == r \in Links \cup {"new"}

\* Back or Forward leads from one form to another.
Hop(r) ==
  /\ OnLinkForm(route) /\ OnLinkForm(r) /\ r # route
  /\ route' = r /\ strayed' = TRUE
  /\ IF (r = "new") # (route = "new")
     THEN Send(FirstCalls(r)[1]) /\ loading' = (loading \/ r \in Links)
     ELSE UNCHANGED <<calls, loading>>
  /\ UNCHANGED <<holds, typed, failed>>

\* The fields are open while the details are still on their way.
TypeLink == OnLinkForm(route) /\ TypeInto({"load", "slug"})

LinkLoaded(i) ==
  /\ calls[i].op = "load"
  /\ holds' = calls[i].on /\ typed' = None
  /\ loading' = FALSE
  /\ Done(i)
  /\ UNCHANGED <<route, failed, strayed>>

\* Not a 401.  A toast is all there is of it: the form can be used with its defaults.
LinkLoadFails(i) ==
  /\ calls[i].op = "load"
  /\ loading' = FALSE
  /\ Done(i)
  /\ UNCHANGED <<route, holds, typed, failed, strayed>>

RandomSlug ==
  /\ route = "new"
  /\ Send(Call("slug", None, None))
  /\ typed' = IF typed = "kept" THEN "early" ELSE typed
  /\ UNCHANGED <<route, holds, loading, failed, strayed>>

\* The server's slug or, when it fails, one of the browser's own.
SlugAnswered(i) ==
  /\ calls[i].op = "slug"
  /\ Done(i)
  /\ typed' = IF typed = "kept" THEN "early" ELSE typed
  /\ UNCHANGED <<route, holds, loading, failed, strayed>>

\* The target is required: the form has been filled or typed into.
SubmitLink ==
  /\ OnLinkForm(route) /\ ~loading
  /\ holds # None \/ typed # None
  /\ Send(Call("saveLink", route, holds))
  /\ loading' = TRUE
  /\ UNCHANGED <<route, holds, typed, failed, strayed>>

\* Wherever the tab is by then, it goes to the list of links.
LinkSaved(i) ==
  /\ calls[i].op = "saveLink"
  /\ Mounted("elsewhere", RemoveAt(calls, i))

\* Not a 401.
LinkSaveFails(i) ==
  /\ calls[i].op = "saveLink"
  /\ loading' = (loading /\ ~calls[i].mine)
  /\ Done(i)
  /\ UNCHANGED <<route, holds, typed, failed, strayed>>

LinkFormNext == (\E r \in Routes : Hop(r)) \/ TypeLink \/ RandomSlug \/ SubmitLink

LinkAnswered(i) == LinkLoaded(i) \/ LinkLoadFails(i) \/ SlugAnswered(i) \/ LinkSaveFails(i)
=============================================================================
