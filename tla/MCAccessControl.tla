--------------------------- MODULE MCAccessControl ---------------------------
(* The instance of AccessControl that TLC checks: a policy that keeps bots *)
(* out and lets in who does not say its name, and one that does the        *)
(* reverse.                                                                *)
EXTENDS AccessControl, TLC

MCContents == {[mode |-> "blacklist", enabled |-> TRUE, allowEmpty |-> TRUE,
                block |-> {"bot"}, allow |-> {}, listed |-> FALSE],
               [mode |-> "mixed", enabled |-> TRUE, allowEmpty |-> FALSE,
                block |-> {}, allow |-> {"bot"}, listed |-> TRUE]}

\* Administrators run the same handlers.
AdminsAlike == Permutations(Admins)
==============================================================================
