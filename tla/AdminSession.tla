---------------------------- MODULE AdminSession ----------------------------
(***************************************************************************)
(* The session of the admin console in one tab of a browser.  The token    *)
(* lies in localStorage, which every tab reads and writes; what the other  *)
(* tabs do to it may happen at any time.                                   *)
(*                                                                         *)
(* A tab is a React application.  A handler or the answer to a fetch       *)
(* changes its state at once; React commits the change later, in a step    *)
(* of its own, and runs the effects of that commit: checkAuth when the     *)
(* path changed, the first fetch of a page that was mounted, the hint of a *)
(* login form that was mounted.  Several answers may arrive before it; a   *)
(* change made by an input event is committed before the tab does anything *)
(* else.                                                                   *)
(*                                                                         *)
(* Tokens are numbered as the server issues them.  A path stands for every *)
(* path the code treats alike.                                             *)
(***************************************************************************)
EXTENDS Integers, FiniteSets

CONSTANTS MaxTokens,  \* bound: logins that are granted
          MaxCalls    \* bound: requests the tab has in flight

ASSUME SessionAssumption == MaxTokens \in Nat /\ MaxCalls \in Nat \ {0, 1}

VARIABLES token,          \* localStorage: sharelink_token
          valid,          \* the tokens the server accepts
          issued,         \* how many tokens the server has issued
          online,         \* navigator.onLine
          calls,          \* the tab's requests in flight
          path,           \* the location, and the state that follows it
          checked,        \* the path the last checkAuth ran for
          mounted,        \* what the last commit put on the screen
          loading,        \* no check has come to an end yet
          authenticated,  \* the last check to end succeeded
          submitting,     \* the mounted login form waits for its answer
          hint,           \* sessionStorage holds a login_hint
          urgent,         \* an input changed the path and is not committed
          coalesced,      \* history: the path changed back before a commit
          cleared         \* history: this tab was the last to remove the token

server == <<valid, issued, online>>
history == <<coalesced, cleared>>
vars == <<token, server, calls, path, checked, mounted, loading, authenticated,
          submitting, hint, urgent, history>>

NoToken == 0
Tokens == 1..MaxTokens
Nowhere == "none"

Paths == {"/", "/login", "/admin", "/admin/links", "/elsewhere"}
IsAdmin(p) == p \in {"/admin", "/admin/links"}

\* A request: the token it carries; for a check, the path it was made for; for
\* a login, whether its form is still on the screen.
Call == [id : 1..MaxCalls, kind : {"me", "page", "password", "login"},
         from : Paths \cup {"form", "gone"}, tok : Tokens \cup {NoToken}]

-----------------------------------------------------------------------------
\* What App renders.  The sidebar is part of "verifying" and "page".
Screen ==
  IF loading THEN (IF IsAdmin(path) /\ token # NoToken THEN "verifying" ELSE "blank")
  ELSE IF path = "/login" \/ ~authenticated THEN "login" ELSE "page"

\* React flushes the effects of a commit before it handles the next input.
Committed == mounted = Screen /\ checked = path

SidebarShown == Committed /\ mounted \in {"verifying", "page"}

\* A request leaves with the token stored at that moment.
Sent(cs, kind, from) ==
  LET free == CHOOSE i \in 1..MaxCalls : \A c \in cs : c.id # i
  IN  cs \cup {[id |-> free, kind |-> kind, from |-> from, tok |-> token]}

HasRoom(n) == Cardinality(calls) + n =< MaxCalls

\* The mount of a page fetches its data.
MountsPage == Screen = "page" /\ (mounted # "page" \/ checked # path)

\* A login form that leaves the screen no longer hears of its answer.
Orphaned(cs) == {IF c.kind = "login" THEN [c EXCEPT !.from = "gone"] ELSE c : c \in cs}

-----------------------------------------------------------------------------
Init ==
  /\ token = NoToken /\ valid = {} /\ issued = 0 /\ online = TRUE
  /\ calls = {}
  /\ path \in {"/", "/admin"} /\ checked = Nowhere /\ mounted = Nowhere
  /\ loading = TRUE /\ authenticated = FALSE
  /\ submitting = FALSE /\ hint = FALSE /\ urgent = FALSE
  /\ coalesced = FALSE /\ cleared = FALSE

-----------------------------------------------------------------------------
(* Seeded faults: bugs this code might have had, one per property.  No     *)
(* definition of the model uses them.                                      *)

NoSessionLost ==
  /\ path # "/" /\ token = NoToken
  /\ authenticated' = FALSE /\ loading' = FALSE
  /\ path' = IF IsAdmin(path) THEN "login" ELSE path
CheckAuthOnce(fetched) ==
  /\ calls' = IF checked = Nowhere /\ token # NoToken THEN Sent(fetched, "me", path) ELSE fetched
  /\ UNCHANGED <<path, authenticated>>
  /\ loading' = (loading /\ token # NoToken)
CheckSucceedsLoading(c) ==
  /\ c.kind = "me" /\ online /\ c.tok \in valid
  /\ authenticated' = TRUE
  /\ path' = IF c.from = "/login" THEN "/admin" ELSE path
  /\ UNCHANGED <<loading, token, hint, cleared>>
LoginAnsweredStuck(c) ==
  /\ c.kind = "login"
  /\ \/ issued < MaxTokens /\ issued' = issued + 1 /\ token' = issued' /\ cleared' = FALSE
        /\ valid' = valid \cup {issued'} /\ path' = "/admin"
     \/ UNCHANGED <<token, valid, issued, path, cleared>>
  /\ UNCHANGED <<online, loading, authenticated, hint, submitting>>

-----------------------------------------------------------------------------
\* checkAuth, as far as it runs before its request is answered.
RedirectRoot ==
  /\ path = "/"
  /\ path' = IF token # NoToken THEN "/admin" ELSE "/login"
  /\ UNCHANGED <<loading, authenticated>>

NoSession ==
  /\ path # "/" /\ token = NoToken
  /\ authenticated' = FALSE /\ loading' = FALSE
  /\ path' = IF IsAdmin(path) THEN "/login" ELSE path

Verify ==
  /\ path # "/" /\ token # NoToken
  /\ UNCHANGED <<path, loading, authenticated>>

CheckAuth(fetched) ==
  \/ checked = path /\ calls' = fetched /\ UNCHANGED <<path, loading, authenticated>>
  \/ checked # path /\ (RedirectRoot \/ NoSession) /\ calls' = fetched
  \/ checked # path /\ Verify /\ calls' = Sent(fetched, "me", path)

\* React renders, then runs the effects: those of the screen, then checkAuth.
Commit ==
  /\ ~Committed /\ HasRoom(2)
  /\ mounted' = Screen /\ checked' = path /\ urgent' = FALSE
  /\ hint' = (hint /\ ~(Screen = "login" /\ mounted # "login"))
  /\ submitting' = (submitting /\ Screen = "login")
  /\ coalesced' = (coalesced /\ checked = path)
  /\ LET kept == IF Screen = "login" THEN calls ELSE Orphaned(calls)
     IN  CheckAuth(IF MountsPage THEN Sent(kept, "page", path) ELSE kept)
  /\ UNCHANGED <<token, server, cleared>>

-----------------------------------------------------------------------------
\* Whatever a request carried, a 401 removes the token that is stored when it
\* arrives, and so does a check that fails for any reason.
RemoveToken ==
  /\ token' = NoToken
  /\ cleared' = (cleared \/ token # NoToken)

CheckSucceeds(c) ==
  /\ c.kind = "me" /\ online /\ c.tok \in valid
  /\ authenticated' = TRUE /\ loading' = FALSE
  /\ path' = IF c.from = "/login" THEN "/admin" ELSE path
  /\ UNCHANGED <<token, hint, cleared>>

\* A 401, an error of the server or no answer at all.
CheckFails(c) ==
  /\ c.kind = "me"
  /\ RemoveToken
  /\ authenticated' = FALSE /\ loading' = FALSE
  /\ hint' = TRUE
  /\ path' = "/login"

\* A token that is no longer accepted, or a wrong old password.
PageRefused(c) ==
  /\ c.kind \in {"page", "password"} /\ online
  /\ c.tok \notin valid \/ c.kind = "password"
  /\ RemoveToken
  /\ path' = "/login"
  /\ UNCHANGED <<loading, authenticated, hint>>

\* The data, or an error other than a 401.
PageAnswered(c) ==
  /\ c.kind \in {"page", "password"} /\ (online => c.tok \in valid)
  /\ UNCHANGED <<token, path, loading, authenticated, hint, cleared>>

Answered(c) ==
  /\ CheckSucceeds(c) \/ CheckFails(c) \/ PageRefused(c) \/ PageAnswered(c)
  /\ UNCHANGED <<server, submitting>>

LoginGranted(c) ==
  /\ online /\ issued < MaxTokens
  /\ issued' = issued + 1 /\ valid' = valid \cup {issued'}
  /\ token' = issued' /\ cleared' = FALSE
  /\ path' = "/admin"
  /\ UNCHANGED online

\* A wrong password is answered 401, which removes the stored token too.
LoginRejected(c) == online /\ RemoveToken /\ path' = "/login" /\ UNCHANGED server

\* Too many attempts, an error of the server, no answer.
LoginFails(c) == UNCHANGED <<token, server, path, cleared>>

LoginAnswered(c) ==
  /\ c.kind = "login"
  /\ LoginGranted(c) \/ LoginRejected(c) \/ LoginFails(c)
  /\ submitting' = (submitting /\ c.from # "form")
  /\ UNCHANGED <<loading, authenticated, hint>>

Answer(c) ==
  /\ ~urgent
  /\ Answered(c) \/ LoginAnswered(c)
  /\ calls' = calls \ {c}
  /\ coalesced' = (coalesced \/ (path # checked /\ path' = checked))
  /\ UNCHANGED <<checked, mounted, urgent>>

-----------------------------------------------------------------------------
\* The administrator.
SubmitLogin ==
  /\ Committed /\ mounted = "login" /\ ~submitting /\ HasRoom(1)
  /\ submitting' = TRUE
  /\ calls' = Sent(calls, "login", "form")
  /\ UNCHANGED <<token, server, path, checked, mounted, loading, authenticated, hint,
                 urgent, history>>

\* A page asks for more, or changes something: the password, say.
PageAsks(kind) ==
  /\ Committed /\ mounted = "page" /\ IsAdmin(path) /\ HasRoom(1)
  /\ calls' = Sent(calls, kind, path)
  /\ UNCHANGED <<token, server, path, checked, mounted, loading, authenticated, submitting,
                 hint, urgent, history>>

NavigateTo(p) ==
  /\ HasRoom(2)
  /\ path' = p /\ urgent' = TRUE
  /\ UNCHANGED <<server, calls, checked, mounted, loading, authenticated, submitting,
                 hint, coalesced>>

Logout == SidebarShown /\ RemoveToken /\ NavigateTo("/login")

\* A link of the sidebar, or of a page.
Follow(p) ==
  /\ SidebarShown /\ IsAdmin(p) /\ p # path
  /\ NavigateTo(p)
  /\ UNCHANGED <<token, cleared>>

\* The browser's own back and forward.
PopState(p) ==
  /\ Committed /\ p # path
  /\ NavigateTo(p)
  /\ UNCHANGED <<token, cleared>>

\* A reload ends the tab's program; its requests are answered to nobody.
Reload ==
  /\ checked' = Nowhere /\ mounted' = Nowhere
  /\ loading' = TRUE /\ authenticated' = FALSE
  /\ submitting' = FALSE /\ urgent' = FALSE /\ coalesced' = FALSE
  /\ calls' = {}
  /\ UNCHANGED <<token, server, path, hint, cleared>>

\* handleReconnect changes the key of the page, which mounts it anew.
Reconnect ==
  /\ ~online /\ online' = TRUE
  /\ mounted' = IF mounted = "page" THEN Nowhere ELSE mounted
  /\ UNCHANGED <<token, valid, issued, calls, path, checked, loading, authenticated,
                 submitting, hint, urgent, history>>

-----------------------------------------------------------------------------
\* What happens around the tab.
Environment(t, v, n, o) ==
  /\ token' = t /\ valid' = v /\ issued' = n /\ online' = o
  /\ UNCHANGED <<calls, path, checked, mounted, loading, authenticated, submitting, hint,
                 urgent, coalesced>>

Disconnect == online /\ Environment(token, valid, issued, FALSE) /\ UNCHANGED cleared

\* A token reaches its expiry, or the server its next secret.
Expire(k) == k \in valid /\ Environment(token, valid \ {k}, issued, online) /\ UNCHANGED cleared

\* Another tab logs in, or gives up the session.
OtherTabLogsIn ==
  /\ online /\ issued < MaxTokens
  /\ Environment(issued + 1, valid \cup {issued + 1}, issued + 1, online)
  /\ cleared' = FALSE

OtherTabLeaves ==
  /\ token # NoToken
  /\ Environment(NoToken, valid, issued, online)
  /\ cleared' = FALSE

Next ==
  \/ Commit
  \/ \E c \in calls : Answer(c)
  \/ \E kind \in {"page", "password"} : PageAsks(kind)
  \/ SubmitLogin \/ Logout \/ Reload \/ Reconnect
  \/ \E p \in Paths : Follow(p) \/ PopState(p)
  \/ Disconnect \/ OtherTabLogsIn \/ OtherTabLeaves
  \/ \E k \in Tokens : Expire(k)

\* React commits what changed, and every fetch ends in an answer or an error.
Fairness ==
  /\ WF_vars(Commit)
  /\ \A i \in 1..MaxCalls : WF_vars(\E c \in calls : c.id = i /\ Answer(c))

Spec == Init /\ [][Next]_vars /\ Fairness

-----------------------------------------------------------------------------
\* Every variable has the type of what it models, and the ids of requests in
\* flight are unique.
TypeOK ==
  /\ token \in Tokens \cup {NoToken} /\ issued \in 0..MaxTokens /\ valid \subseteq 1..issued
  /\ online \in BOOLEAN
  /\ calls \subseteq Call /\ \A c, d \in calls : c.id = d.id => c = d
  /\ path \in Paths /\ checked \in Paths \cup {Nowhere}
  /\ mounted \in {"verifying", "blank", "login", "page", Nowhere}
  /\ {loading, authenticated, submitting, hint, urgent, coalesced, cleared} \subseteq BOOLEAN

\* A tab that gave the session up, by logging out or by an answer that ended
\* it, leaves the console: whatever checks are still on their way and wherever
\* Back leads, it shows no page of it until somebody has logged in again,
\* unless the path changed to and fro between two commits.
EndedSessionLeaves ==
  Committed /\ mounted = "page" /\ IsAdmin(path) /\ token = NoToken => ~cleared \/ coalesced

\* A login form whose button is disabled has its own request in flight: it is
\* never disabled for good, and never by the request of an earlier form.
SubmittingHasCall == submitting => \E c \in calls : c.kind = "login" /\ c.from = "form"

\* Nobody waits at "Verifying credentials" for good: whatever the answers, a
\* tab that is not reloaded again and again leaves the loading screen.
LoadingEnds == []<><<Reload>>_vars \/ []<>~loading

\* After a login the console opens: the tab is not left on the login form at an
\* admin path while a token is stored, unless a failed check and the login were
\* answered between two commits, so that App never saw the path change.
LoginTakesEffect ==
  (mounted = "login" /\ IsAdmin(path) /\ token # NoToken)
    ~> (mounted # "login" \/ ~IsAdmin(path) \/ token = NoToken \/ coalesced)
=============================================================================
