-------------------------- MODULE AdminSessionProofs --------------------------
(***************************************************************************)
(* Proofs about AdminSession, for every number of logins that are granted  *)
(* and of requests in flight.                                              *)
(***************************************************************************)
EXTENDS AdminSession, FiniteSetTheorems, TLAPS

\* The ids of requests in flight are unique.
Numbered(cs) ==
  /\ cs \subseteq Call
  /\ \A c, d \in cs : c.id = d.id => c = d

(* Requests with unique ids are no more than there are ids.                *)
LEMMA NumberedFinite ==
  ASSUME NEW cs, Numbered(cs)
  PROVE  IsFiniteSet(cs) /\ Cardinality(cs) \in Nat
<1> DEFINE f == [c \in cs |-> c.id]
<1>1. IsFiniteSet(1..MaxCalls)
  BY FS_Interval, SessionAssumption
<1>2. f \in Injection(cs, 1..MaxCalls)
  BY DEF Numbered, Call, Injection, IsInjective
<1>3. IsFiniteSet(cs)
  <2> HIDE DEF f
  <2> QED BY <1>1, <1>2, FS_Injection
<1> QED
  BY <1>3, FS_CardinalityType

(* As long as there are fewer requests than ids, a request can be sent     *)
(* with an id that is free.                                                *)
LEMMA FreeId ==
  ASSUME NEW cs, Numbered(cs), Cardinality(cs) < MaxCalls
  PROVE  \E i \in 1..MaxCalls : \A c \in cs : c.id # i
<1> SUFFICES ASSUME \A i \in 1..MaxCalls : \E c \in cs : c.id = i
             PROVE  FALSE
  OBVIOUS
<1> DEFINE f == [c \in cs |-> c.id]
<1>1. f \in Surjection(cs, 1..MaxCalls)
  BY DEF Numbered, Call, Surjection
<1>2. IsFiniteSet(cs) /\ Cardinality(cs) \in Nat
  BY NumberedFinite
<1>3. Cardinality(1..MaxCalls) <= Cardinality(cs)
  <2> HIDE DEF f
  <2> QED BY <1>1, <1>2, FS_Surjection
<1>4. Cardinality(1..MaxCalls) = MaxCalls
  BY FS_Interval, SessionAssumption
<1> QED
  BY <1>2, <1>3, <1>4, SessionAssumption

(* A request that is sent gets an id of its own.                           *)
LEMMA SentNumbered ==
  ASSUME NEW cs, Numbered(cs), Cardinality(cs) < MaxCalls,
         token \in Tokens \cup {NoToken},
         NEW kind \in {"me", "page", "password", "login"}, NEW from \in Paths \cup {"form", "gone"}
  PROVE  /\ Numbered(Sent(cs, kind, from))
         /\ Cardinality(Sent(cs, kind, from)) = Cardinality(cs) + 1
<1> DEFINE free == CHOOSE i \in 1..MaxCalls : \A c \in cs : c.id # i
           new == [id |-> free, kind |-> kind, from |-> from, tok |-> token]
<1>1. free \in 1..MaxCalls /\ \A c \in cs : c.id # free
  BY FreeId
<1>2. Sent(cs, kind, from) = cs \cup {new}
  BY DEF Sent
<1>3. new \in Call /\ new.id = free
  <2> HIDE DEF free
  <2> QED BY <1>1 DEF Call
<1>4. new \notin cs
  BY <1>1, <1>3
<1> HIDE DEF new, free
<1>5. Numbered(cs \cup {new})
  BY <1>1, <1>3 DEF Numbered
<1>6. Cardinality(cs \cup {new}) = Cardinality(cs) + 1
  BY <1>4, NumberedFinite, FS_AddElement
<1> QED
  BY <1>2, <1>5, <1>6

(* A form that leaves the screen takes no request with it.                 *)
LEMMA OrphanedNumbered ==
  ASSUME NEW cs, Numbered(cs)
  PROVE  Numbered(Orphaned(cs)) /\ Cardinality(Orphaned(cs)) <= Cardinality(cs)
<1> DEFINE left(c) == IF c.kind = "login" THEN [c EXCEPT !.from = "gone"] ELSE c
           f == [c \in cs |-> left(c)]
<1>1. \A c \in cs : left(c) \in Call /\ left(c).id = c.id
  BY DEF Numbered, Call
<1>2. Orphaned(cs) = {left(c) : c \in cs}
  BY DEF Orphaned
<1> HIDE DEF left
<1>3. Numbered(Orphaned(cs))
  BY <1>1, <1>2 DEF Numbered
<1>4. f \in Surjection(cs, Orphaned(cs))
  BY <1>2 DEF Surjection
<1>5. Cardinality(Orphaned(cs)) <= Cardinality(cs)
  <2> HIDE DEF f
  <2> QED BY <1>4, NumberedFinite, FS_Surjection
<1> QED
  BY <1>3, <1>5
-----------------------------------------------------------------------------
LEMMA InitTyped == Init => TypeOK
<1> SUFFICES ASSUME Init PROVE TypeOK
  OBVIOUS
<1>1. token \in Tokens \cup {NoToken} /\ issued \in 0..MaxTokens /\ valid \subseteq 1..issued
  BY SessionAssumption DEF Init
<1>2. path \in Paths /\ checked \in Paths \cup {Nowhere}
  BY DEF Init, Paths
<1>3. mounted \in {"verifying", "blank", "login", "page", Nowhere}
  BY DEF Init
<1>4. {loading, authenticated, submitting, hint, urgent, coalesced, cleared} \subseteq BOOLEAN
  BY DEF Init
<1>5. online \in BOOLEAN /\ calls \subseteq Call /\ \A c, d \in calls : c.id = d.id => c = d
  BY DEF Init
<1> QED
  BY <1>1, <1>2, <1>3, <1>4, <1>5 DEF TypeOK

(* The next token the server issues is one of those that may be granted.   *)
LEMMA NextToken ==
  ASSUME TypeOK, issued < MaxTokens
  PROVE  /\ issued + 1 \in Tokens /\ issued + 1 \in 0..MaxTokens
         /\ valid \cup {issued + 1} \subseteq 1..(issued + 1)
  BY SessionAssumption DEF TypeOK, Tokens

LEMMA CommitTyped ==
  ASSUME TypeOK, Commit
  PROVE  TypeOK'
<1> DEFINE kept == IF Screen = "login" THEN calls ELSE Orphaned(calls)
           fetched == IF MountsPage THEN Sent(kept, "page", path) ELSE kept
<1>1. Numbered(calls) /\ Cardinality(calls) + 2 =< MaxCalls
  BY DEF TypeOK, Numbered, Commit, HasRoom
<1>2. Numbered(kept) /\ Cardinality(kept) <= Cardinality(calls)
  <2>1. CASE Screen = "login"
    BY <1>1, <2>1, NumberedFinite
  <2>2. CASE Screen # "login"
    BY <1>1, <2>2, OrphanedNumbered
  <2> QED BY <2>1, <2>2
<1>3. Cardinality(calls) \in Nat /\ Cardinality(kept) \in Nat
  BY <1>1, <1>2, NumberedFinite
<1>4. token \in Tokens \cup {NoToken} /\ path \in Paths
  BY DEF TypeOK
<1> HIDE DEF kept
<1>5. Numbered(fetched) /\ Cardinality(fetched) < MaxCalls
  <2>1. Cardinality(kept) < MaxCalls /\ Cardinality(kept) + 1 < MaxCalls
    BY <1>1, <1>2, <1>3, SessionAssumption
  <2>2. CASE MountsPage
    BY <2>1, <2>2, <1>2, <1>4, SentNumbered
  <2>3. CASE ~MountsPage
    BY <2>1, <2>3, <1>2
  <2> QED BY <2>2, <2>3
<1>6. CheckAuth(fetched)
  BY DEF Commit, kept
<1> HIDE DEF fetched
<1>7. Numbered(calls')
  <2>1. Numbered(Sent(fetched, "me", path))
    BY <1>4, <1>5, SentNumbered
  <2> QED BY <1>5, <1>6, <2>1 DEF CheckAuth
<1>8. path' \in Paths /\ loading' \in BOOLEAN /\ authenticated' \in BOOLEAN
  BY <1>6 DEF CheckAuth, RedirectRoot, NoSession, Verify, TypeOK, Paths
<1>9. mounted' \in {"verifying", "blank", "login", "page", Nowhere} /\ checked' \in Paths
  BY DEF Commit, Screen, TypeOK
<1>10. {urgent', hint', submitting', coalesced'} \subseteq BOOLEAN
  BY DEF Commit
<1>11. UNCHANGED <<token, server, cleared>>
  BY DEF Commit
<1> QED
  BY <1>7, <1>8, <1>9, <1>10, <1>11 DEF TypeOK, Numbered, server

LEMMA AnswerTyped ==
  ASSUME TypeOK, NEW c \in calls, Answer(c)
  PROVE  TypeOK'
<1>1. calls' \subseteq Call /\ \A d, e \in calls' : d.id = e.id => d = e
  BY DEF Answer, TypeOK
<1>2. /\ path' \in Paths /\ token' \in (Tokens \cup {NoToken})'
      /\ issued' \in 0..MaxTokens /\ valid' \subseteq 1..issued' /\ online' \in BOOLEAN
      /\ {loading', authenticated', submitting', hint', cleared'} \subseteq BOOLEAN
  <2>1. CASE Answered(c)
    BY <2>1 DEF Answered, CheckSucceeds, CheckFails, PageRefused, PageAnswered,
                RemoveToken, TypeOK, Paths, server, NoToken
  <2>2. CASE LoginAnswered(c)
    <3>1. CASE LoginGranted(c)
      <4>1. /\ token' \in (Tokens \cup {NoToken})' /\ issued' \in 0..MaxTokens
            /\ valid' \subseteq 1..issued'
        BY <3>1, NextToken DEF LoginGranted, Tokens
      <4>2. path' \in Paths
        BY <3>1 DEF LoginGranted, Paths
      <4>3. /\ online' \in BOOLEAN
            /\ {loading', authenticated', submitting', hint', cleared'} \subseteq BOOLEAN
        BY <2>2, <3>1 DEF LoginAnswered, LoginGranted, TypeOK
      <4> QED BY <4>1, <4>2, <4>3
    <3>2. CASE LoginRejected(c)
      BY <2>2, <3>2 DEF LoginAnswered, LoginRejected, RemoveToken, TypeOK, Paths, server, NoToken
    <3>3. CASE LoginFails(c)
      BY <2>2, <3>3 DEF LoginAnswered, LoginFails, TypeOK, server
    <3> QED BY <2>2, <3>1, <3>2, <3>3 DEF LoginAnswered
  <2> QED BY <2>1, <2>2 DEF Answer
<1>3. coalesced' \in BOOLEAN /\ UNCHANGED <<checked, mounted, urgent>>
  BY DEF Answer, TypeOK
<1> QED
  BY <1>1, <1>2, <1>3 DEF TypeOK

LEMMA SubmitTyped ==
  ASSUME TypeOK, SubmitLogin
  PROVE  TypeOK'
<1>1. Numbered(calls) /\ Cardinality(calls) + 1 =< MaxCalls
  BY DEF TypeOK, Numbered, SubmitLogin, HasRoom
<1>2. Cardinality(calls) < MaxCalls
  BY <1>1, NumberedFinite, SessionAssumption
<1>3. Numbered(calls')
  BY <1>1, <1>2, SentNumbered DEF SubmitLogin, TypeOK
<1> QED
  BY <1>3 DEF SubmitLogin, TypeOK, Numbered, server, history

LEMMA AsksTyped ==
  ASSUME TypeOK, NEW kind \in {"page", "password"}, PageAsks(kind)
  PROVE  TypeOK'
<1>1. Numbered(calls) /\ Cardinality(calls) + 1 =< MaxCalls
  BY DEF TypeOK, Numbered, PageAsks, HasRoom
<1>2. Cardinality(calls) < MaxCalls
  BY <1>1, NumberedFinite, SessionAssumption
<1>3. Numbered(calls')
  BY <1>1, <1>2, SentNumbered DEF PageAsks, TypeOK
<1> QED
  BY <1>3 DEF PageAsks, TypeOK, Numbered, server, history

LEMMA MoveTyped ==
  ASSUME TypeOK, Logout \/ (\E p \in Paths : Follow(p) \/ PopState(p)) \/ Reload \/ Reconnect
  PROVE  TypeOK'
<1>1. CASE Logout
  BY <1>1 DEF Logout, RemoveToken, NavigateTo, TypeOK, Paths, server, NoToken
<1>2. CASE \E p \in Paths : Follow(p) \/ PopState(p)
  BY <1>2 DEF Follow, PopState, NavigateTo, TypeOK, server
<1>3. CASE Reload
  BY <1>3 DEF Reload, TypeOK, server
<1>4. CASE Reconnect
  BY <1>4 DEF Reconnect, TypeOK, history
<1> QED
  BY <1>1, <1>2, <1>3, <1>4

LEMMA EnvironmentTyped ==
  ASSUME TypeOK, Disconnect \/ OtherTabLogsIn \/ OtherTabLeaves \/ \E k \in Tokens : Expire(k)
  PROVE  TypeOK'
<1>1. CASE OtherTabLogsIn
  <2>1. /\ token' \in (Tokens \cup {NoToken})' /\ issued' \in 0..MaxTokens
        /\ valid' \subseteq 1..issued'
    BY <1>1, NextToken DEF OtherTabLogsIn, Environment, Tokens
  <2> QED BY <1>1, <2>1 DEF OtherTabLogsIn, Environment, TypeOK
<1>2. CASE Disconnect \/ OtherTabLeaves \/ \E k \in Tokens : Expire(k)
  BY <1>2 DEF Disconnect, OtherTabLeaves, Expire, Environment, TypeOK, Tokens, NoToken
<1> QED
  BY <1>1, <1>2

\* AdminSession is type-correct however many logins are granted and requests
\* are in flight; in particular a request that is sent finds an id that no
\* other in flight has, which the choice in Sent takes for granted.
THEOREM TypeCorrect == Spec => []TypeOK
<1>1. TypeOK /\ [Next]_vars => TypeOK'
  <2> SUFFICES ASSUME TypeOK, [Next]_vars PROVE TypeOK'
    OBVIOUS
  <2>1. CASE UNCHANGED vars
    BY <2>1 DEF TypeOK, vars, server, history
  <2>2. CASE Next
    BY <2>2, CommitTyped, AnswerTyped, SubmitTyped, AsksTyped, MoveTyped, EnvironmentTyped DEF Next
  <2> QED BY <2>1, <2>2
<1> QED
  BY InitTyped, <1>1, PTL DEF Spec

-----------------------------------------------------------------------------
(* After this tab removed the token, the path that was checked last and is *)
(* still there is not a path of the console: the removal itself leads to   *)
(* the login form, a later check of an admin path finds no token and leads *)
(* there too, and only a change to and fro hides a path from the check.    *)
(* What the screen shows does not matter, nor does a check that succeeds   *)
(* for a token that is gone.                                               *)
LeftInv == token = NoToken /\ cleared /\ ~coalesced /\ checked = path => ~IsAdmin(path)

LEMMA InitLeft == Init => LeftInv
  BY DEF Init, LeftInv

LEMMA AnswerLeft ==
  ASSUME LeftInv, NEW c \in calls, Answer(c), TypeOK
  PROVE  LeftInv'
<1>1. CASE token' # NoToken
  BY <1>1 DEF LeftInv, NoToken
<1>2. CASE path' = "/login"
  BY <1>2 DEF LeftInv, IsAdmin
<1>3. CASE UNCHANGED <<token, cleared>>
  BY <1>3 DEF LeftInv, Answer, IsAdmin
<1>4. CASE LoginGranted(c)
  <2>1. token' # NoToken
    BY <1>4, NextToken DEF LoginGranted, Tokens, NoToken
  <2> QED BY <2>1, <1>1
<1> QED
  BY <1>2, <1>3, <1>4 DEF Answer, Answered, CheckSucceeds, CheckFails, PageRefused,
                          PageAnswered, LoginAnswered, LoginRejected, LoginFails

LEMMA CommitLeft ==
  ASSUME LeftInv, Commit
  PROVE  LeftInv'
<1>1. CASE checked = path
  BY <1>1 DEF LeftInv, Commit, CheckAuth, IsAdmin
<1>2. CASE checked # path
  <2>1. PICK fetched : CheckAuth(fetched)
    BY DEF Commit
  <2>2. token = NoToken => RedirectRoot \/ NoSession
    BY <1>2, <2>1 DEF CheckAuth, Verify
  <2>3. CASE RedirectRoot
    BY <2>3 DEF RedirectRoot, Commit, LeftInv, IsAdmin
  <2>4. CASE NoSession
    BY <2>4 DEF NoSession, Commit, LeftInv, IsAdmin
  <2> QED BY <2>2, <2>3, <2>4 DEF Commit, LeftInv
<1> QED
  BY <1>1, <1>2

LEMMA MoveLeft ==
  ASSUME LeftInv, Logout \/ (\E p \in Paths : Follow(p) \/ PopState(p))
  PROVE  LeftInv'
<1>1. CASE Logout
  BY <1>1 DEF Logout, NavigateTo, LeftInv, IsAdmin
<1>2. CASE \E p \in Paths : Follow(p) \/ PopState(p)
  BY <1>2 DEF Follow, PopState, NavigateTo, SidebarShown, Committed, LeftInv
<1> QED
  BY <1>1, <1>2

LEMMA ReloadLeft ==
  ASSUME LeftInv, TypeOK, Reload
  PROVE  LeftInv'
  BY DEF Reload, LeftInv, TypeOK, Paths, Nowhere

LEMMA AroundLeft ==
  ASSUME LeftInv, TypeOK,
         \/ Reconnect \/ Disconnect \/ OtherTabLogsIn \/ OtherTabLeaves
         \/ \E k \in Tokens : Expire(k)
  PROVE  LeftInv'
<1>1. CASE Reconnect
  BY <1>1 DEF Reconnect, LeftInv, IsAdmin, history
<1>2. CASE Disconnect \/ \E k \in Tokens : Expire(k)
  BY <1>2 DEF Disconnect, Expire, Environment, LeftInv, IsAdmin
<1>3. CASE OtherTabLogsIn \/ OtherTabLeaves
  BY <1>3 DEF OtherTabLogsIn, OtherTabLeaves, LeftInv
<1> QED
  BY <1>1, <1>2, <1>3

\* A tab that gave its session up leaves the console for good, whatever
\* answers, checks and navigations are still to come, unless the path changed
\* to and fro between two commits.
THEOREM EndedSessionsLeave == Spec => []EndedSessionLeaves
<1>1. TypeOK /\ LeftInv /\ [Next]_vars => LeftInv'
  <2> SUFFICES ASSUME TypeOK, LeftInv, [Next]_vars PROVE LeftInv'
    OBVIOUS
  <2>1. CASE UNCHANGED vars
    BY <2>1 DEF LeftInv, IsAdmin, vars, history
  <2>2. CASE SubmitLogin \/ \E kind \in {"page", "password"} : PageAsks(kind)
    BY <2>2 DEF SubmitLogin, PageAsks, LeftInv, IsAdmin, history
  <2>3. CASE Next /\ ~SubmitLogin /\ ~\E kind \in {"page", "password"} : PageAsks(kind)
    BY <2>3, AnswerLeft, CommitLeft, MoveLeft, ReloadLeft, AroundLeft DEF Next
  <2> QED BY <2>1, <2>2, <2>3
<1>2. LeftInv => EndedSessionLeaves
  BY DEF LeftInv, EndedSessionLeaves, Committed
<1> QED
  BY InitLeft, TypeCorrect, <1>1, <1>2, PTL DEF Spec

-----------------------------------------------------------------------------
\* A login button is disabled only while its own form's request is in flight,
\* whatever happens to the form, the tab and the session meanwhile.
THEOREM SubmittingAlwaysHasCall == Spec => []SubmittingHasCall
<1>1. Init => SubmittingHasCall
  BY DEF Init, SubmittingHasCall
<1>2. SubmittingHasCall /\ [Next]_vars => SubmittingHasCall'
  <2> SUFFICES ASSUME SubmittingHasCall, [Next]_vars, submitting'
               PROVE  \E c \in calls' : c.kind = "login" /\ c.from = "form"
    BY DEF SubmittingHasCall
  <2>1. CASE UNCHANGED <<calls, submitting>>
    BY <2>1 DEF SubmittingHasCall
  <2>2. CASE Commit
    <3>1. calls \subseteq calls'
      BY <2>2 DEF Commit, CheckAuth, Sent
    <3> QED BY <2>2, <3>1 DEF Commit, SubmittingHasCall
  <2>3. ASSUME NEW c \in calls, Answer(c)
        PROVE  \E d \in calls' : d.kind = "login" /\ d.from = "form"
    <3>1. submitting /\ ~(c.kind = "login" /\ c.from = "form")
      BY <2>3 DEF Answer, Answered, CheckSucceeds, CheckFails, PageRefused, PageAnswered,
                  LoginAnswered
    <3> QED BY <2>3, <3>1 DEF Answer, SubmittingHasCall
  <2>4. CASE SubmitLogin
    <3> DEFINE free == CHOOSE i \in 1..MaxCalls : \A c \in calls : c.id # i
    <3>1. [id |-> free, kind |-> "login", from |-> "form", tok |-> token] \in calls'
      BY <2>4 DEF SubmitLogin, Sent
    <3> HIDE DEF free
    <3> QED BY <3>1
  <2>5. CASE Reload
    BY <2>5 DEF Reload
  <2>6. CASE Logout \/ \E p \in Paths : Follow(p) \/ PopState(p)
    <3>1. UNCHANGED <<calls, submitting>>
      BY <2>6 DEF Logout, Follow, PopState, NavigateTo
    <3> QED BY <3>1, <2>1
  <2>7. CASE \/ Reconnect \/ Disconnect \/ OtherTabLogsIn \/ OtherTabLeaves
             \/ \E k \in Tokens : Expire(k)
    <3>1. UNCHANGED <<calls, submitting>>
      BY <2>7 DEF Reconnect, Disconnect, OtherTabLogsIn, OtherTabLeaves, Expire, Environment
    <3> QED BY <3>1, <2>1
  <2>8. ASSUME NEW kind \in {"page", "password"}, PageAsks(kind)
        PROVE  \E c \in calls' : c.kind = "login" /\ c.from = "form"
    <3>1. calls \subseteq calls' /\ submitting
      BY <2>8 DEF PageAsks, Sent
    <3> QED BY <3>1 DEF SubmittingHasCall
  <2>9. CASE UNCHANGED vars
    BY <2>9, <2>1 DEF vars
  <2> QED
    BY <2>2, <2>3, <2>4, <2>5, <2>6, <2>7, <2>8, <2>9 DEF Next
<1> QED
  BY <1>1, <1>2, PTL DEF Spec
===============================================================================
