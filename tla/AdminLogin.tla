------------------------------ MODULE AdminLogin ------------------------------
(***************************************************************************)
(* The administrator's password and the guard on guessing it: LoginHandler *)
(* and its sliding window of failures per client address (auth.go), and    *)
(* ChangePassword (settings.go).  The bcrypt comparison is slow and outside *)
(* every lock, so a login is three steps: isLoginRateLimited, the read of  *)
(* the hash, and the comparison with what it records.                      *)
(***************************************************************************)
EXTENDS Naturals, FiniteSets, Sequences

CONSTANTS
  Requests,     \* requests being served at one time, each in its goroutine
  Clients,      \* client addresses, the limiter's keys
  Passwords,    \* a password stands for its hash too
  Initial,      \* the password the database holds at first
  MaxFailures,  \* maxLoginFailures
  Window        \* loginWindow, in ticks of the clock

ASSUME AdminLoginAssumption ==
  /\ IsFiniteSet(Requests)
  /\ Initial \in Passwords
  /\ MaxFailures \in Nat \ {0}
  /\ Window \in Nat \ {0}

VARIABLES
  attempts,  \* loginAttempts: for each client the ages of its failures, oldest first
  password,  \* admin_password_hash in global_settings
  req        \* what each request is doing, and with what in hand

vars == <<attempts, password, req>>

Age == 0..Window  \* at Window a failure is out of the window and stays so

Idle == [pc |-> "idle"]

Request ==
  {Idle}
    \cup [pc : {"admitted"}, client : Clients, tried : Passwords]
    \cup [pc : {"compare"}, client : Clients, tried : Passwords, seen : Passwords]
    \cup [pc : {"save"}, new : Passwords]

(* The logins of c that isLoginRateLimited let through and that have not   *)
(* yet ended.                                                              *)
InFlight(c) == {r \in Requests : req[r].pc \in {"admitted", "compare"} /\ req[r].client = c}

-----------------------------------------------------------------------------
(* The window                                                              *)

(* The loop of pruneLoginAttempts, failure by failure: what it has kept    *)
(* after n of them.                                                        *)
PrunedUpTo(s) ==
  LET kept[n \in 0..Len(s)] ==
        IF n = 0 THEN << >>
        ELSE IF s[n] < Window THEN Append(kept[n - 1], s[n])
             ELSE kept[n - 1]
  IN  kept

pruneLoginAttempts(s) == PrunedUpTo(s)[Len(s)]

(* Seeded faults: bugs this code might have had, one per property.  No     *)
(* definition of the model uses them.                                      *)

AdmitsOneMore(s) == Len(s) <= MaxFailures
AllCleared(c) == [x \in Clients |-> << >>]
RefusalRenews(c) ==
  [attempts EXCEPT ![c] = LET s == pruneLoginAttempts(@) IN
                               IF Len(s) >= MaxFailures THEN Append(Tail(s), 0) ELSE s]
EmptyHashSaved(r) ==
  req[r].pc = "save" /\ password' = "" /\ req' = [req EXCEPT ![r] = Idle] /\ UNCHANGED attempts

Admits(s) == Len(s) < MaxFailures

(* The map after isLoginRateLimited(c), recordLoginFailure(c) and          *)
(* clearLoginFailures(c).                                                  *)
Checked(c) == [attempts EXCEPT ![c] = pruneLoginAttempts(@)]

Recorded(c) == [attempts EXCEPT ![c] = Append(pruneLoginAttempts(@), 0)]

Cleared(c) == [attempts EXCEPT ![c] = << >>]

-----------------------------------------------------------------------------
Init ==
  /\ attempts = [c \in Clients |-> << >>]
  /\ password = Initial
  /\ req = [r \in Requests |-> Idle]

End(r) == req' = [req EXCEPT ![r] = Idle]

(* LoginHandler up to isLoginRateLimited; a refusal is not recorded.       *)
Login(r, c, p) ==
  /\ req[r].pc = "idle"
  /\ attempts' = Checked(c)
  /\ req' = IF Admits(attempts'[c])
              THEN [req EXCEPT ![r] = [pc |-> "admitted", client |-> c, tried |-> p]]
              ELSE req
  /\ UNCHANGED password

(* A user name other than "url" fails without a look at the hash.          *)
WrongName(r) ==
  /\ req[r].pc = "admitted"
  /\ attempts' = Recorded(req[r].client)
  /\ End(r)
  /\ UNCHANGED password

ReadHash(r) ==
  /\ req[r].pc = "admitted"
  /\ req' = [req EXCEPT ![r] = [pc |-> "compare", client |-> req[r].client,
                                tried |-> req[r].tried, seen |-> password]]
  /\ UNCHANGED <<attempts, password>>

(* FindGlobalSetting fails: an answer of 500, and no failure recorded.     *)
ReadFails(r) ==
  /\ req[r].pc = "admitted"
  /\ End(r)
  /\ UNCHANGED <<attempts, password>>

Reject(r) ==
  /\ req[r].pc = "compare"
  /\ req[r].tried # req[r].seen
  /\ attempts' = Recorded(req[r].client)
  /\ End(r)
  /\ UNCHANGED password

Succeed(r) ==
  /\ req[r].pc = "compare"
  /\ req[r].tried = req[r].seen
  /\ attempts' = Cleared(req[r].client)
  /\ End(r)
  /\ UNCHANGED password

(* ChangePassword reads the hash and goes on if it is that of the old      *)
(* password it was given; a wrong one, or a hash that cannot be read, ends *)
(* it here and changes nothing.                                            *)
ChangePassword(r, new) ==
  /\ req[r].pc = "idle"
  /\ req' = [req EXCEPT ![r] = [pc |-> "save", new |-> new]]
  /\ UNCHANGED <<attempts, password>>

SaveHash(r) ==
  /\ req[r].pc = "save"
  /\ password' = req[r].new
  /\ End(r)
  /\ UNCHANGED attempts

(* GenerateFromPassword fails and the handler returns, or Save fails, which *)
(* the handler does not notice.                                            *)
SaveFails(r) ==
  /\ req[r].pc = "save"
  /\ End(r)
  /\ UNCHANGED <<attempts, password>>

Tick ==
  /\ attempts' = [c \in Clients |->
       [i \in DOMAIN attempts[c] |-> IF attempts[c][i] < Window THEN attempts[c][i] + 1 ELSE Window]]
  /\ UNCHANGED <<password, req>>

(* The process ends and starts again: the failures and the requests are    *)
(* gone, and initAdminPassword finds the hash that is there.               *)
Restart ==
  /\ attempts' = [c \in Clients |-> << >>]
  /\ req' = [r \in Requests |-> Idle]
  /\ UNCHANGED password

Next ==
  \/ \E r \in Requests :
       \/ \E c \in Clients, p \in Passwords : Login(r, c, p)
       \/ WrongName(r) \/ ReadHash(r) \/ ReadFails(r) \/ Reject(r) \/ Succeed(r)
       \/ \E new \in Passwords : ChangePassword(r, new)
       \/ SaveHash(r) \/ SaveFails(r)
  \/ Tick
  \/ Restart

Spec == Init /\ [][Next]_vars

(* The clock moves; nobody is obliged to log in or to finish.              *)
FairSpec == Spec /\ WF_vars(Tick)

-----------------------------------------------------------------------------
(* The state is well-typed: each request holds what its step needs, and    *)
(* the hash in the database is the hash of some password.                  *)
TypeOK ==
  /\ attempts \in [Clients -> Seq(Age)]
  /\ password \in Passwords
  /\ req \in [Requests -> Request]

(* The check and the record of a login are apart, so maxLoginFailures is   *)
(* not the bound on a client's failures in the window.  This is: the       *)
(* failures recorded and the logins that may still add one never exceed    *)
(* one less than the maximum and one per request being served.             *)
GuessesBounded ==
  \A c \in Clients : Len(attempts[c]) + Cardinality(InFlight(c)) <= MaxFailures - 1 + Cardinality(Requests)

(* The failures of c in the window, as a list *)
Recent(c) == pruneLoginAttempts(attempts[c])

(* NoFailureForgotten: the failures in the window are those there were,    *)
(* one for one and in order, and one more only where a login of this very  *)
(* client has failed.  Only time, a success of the same client or a        *)
(* restart takes any away: no check, and no other client's login, loses    *)
(* one, records one or puts another in its place (auth.go:45-79).          *)
NoFailureForgotten ==
  [][\A c \in Clients :
       \/ Recent(c)' = Recent(c)
       \/ Recent(c)' = Append(Recent(c), 0) /\ \E r \in InFlight(c) : WrongName(r) \/ Reject(r)
       \/ \E r \in InFlight(c) : Succeed(r)
       \/ Tick \/ Restart]_vars

(* A client that is refused is let through again in the end, even if it    *)
(* tries all the while: refusals do not extend the lockout.                *)
LockoutEnds == \A c \in Clients : ~Admits(pruneLoginAttempts(attempts[c])) ~> Admits(pruneLoginAttempts(attempts[c]))

=============================================================================
