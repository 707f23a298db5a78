---------------------------- MODULE VolatileStore ----------------------------
(***************************************************************************)
(* What the RAM cache promises the proxy, and nothing of how it keeps it.  *)
(*                                                                         *)
(* A volatile store may forget any entry at any moment.  What it must      *)
(* never do is answer with something else than the entry last put under    *)
(* the key, with an entry that has expired, or with an entry of a link     *)
(* that has been cleared since.                                            *)
(***************************************************************************)
EXTENDS Naturals, Functions

CONSTANTS Keys,       \* the cache keys; a key is a tuple that starts with its link
          Links,      \* the links, each a <<prefix, slug>> pair in the code
          Bodies,     \* the response bodies that may be put
          TTLs,       \* the lifetimes a put may ask for
          MaxTime,    \* bound: the last instant of the clock
          NoAnswer    \* the answer of an operation that is no lookup, and of a miss

VARIABLES store,      \* key -> [body, exp], for the keys that are remembered
          now,        \* the clock
          answer      \* [key, hit, item]: the answer of the latest lookup

vars == <<store, now, answer>>

Item == [body : Bodies, exp : Nat]

OfLink(l) == {k \in Keys : k[1] = l}

Live(item) == now <= item.exp

-----------------------------------------------------------------------------
Init == /\ store = << >>
        /\ now = 0
        /\ answer = NoAnswer

(* After a put the key holds the new item or nothing: never the old one. *)
Put(k, b, ttl) ==
  /\ IsRestriction(Restrict(store', DOMAIN store' \ {k}), store)
  /\ k \in DOMAIN store' => store'[k] = [body |-> b, exp |-> now + ttl]
  /\ answer' = NoAnswer
  /\ UNCHANGED now

Hit(k) ==
  /\ k \in DOMAIN store
  /\ Live(store[k])
  /\ answer' = [key |-> k, item |-> store[k]]
  /\ IsRestriction(store', store)
  /\ UNCHANGED now

Miss ==
  /\ answer' = NoAnswer
  /\ IsRestriction(store', store)
  /\ UNCHANGED now

ClearLink(l) ==
  /\ IsRestriction(store', store)
  /\ DOMAIN store' \cap OfLink(l) = {}
  /\ answer' = NoAnswer
  /\ UNCHANGED now

ClearAll ==
  /\ store' = << >>
  /\ answer' = NoAnswer
  /\ UNCHANGED now

Tick ==
  /\ now < MaxTime
  /\ now' = now + 1
  /\ UNCHANGED <<store, answer>>

Next ==
  \/ \E k \in Keys, b \in Bodies, ttl \in TTLs : Put(k, b, ttl)
  \/ \E k \in Keys : Hit(k)
  \/ Miss
  \/ \E l \in Links : ClearLink(l)
  \/ ClearAll
  \/ Tick

Spec == Init /\ [][Next]_vars
=============================================================================
