----------------------------- MODULE MCLinkProxy -----------------------------
(* Small instances of LinkProxy for TLC. *)
EXTENDS LinkProxy, TLC

CONSTANTS t1, t2, r1, r2

(* Two cached proxy links with different content, and a redirect. *)
MCConfigs == {[target |-> t1, mode |-> "proxy", cache |-> TRUE],
              [target |-> t2, mode |-> "proxy", cache |-> TRUE],
              [target |-> t1, mode |-> "redirect", cache |-> FALSE]}

(* The two proxy links only, for the runs without redirects. *)
MCProxied == {c \in MCConfigs : c.mode = "proxy"}

(* Administrators, and the two targets of MCProxied, may be exchanged. *)
Symmetric == Permutations(Admins) \cup Permutations(Targets)
=============================================================================
