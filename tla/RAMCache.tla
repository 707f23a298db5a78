------------------------------- MODULE RAMCache -------------------------------
(***************************************************************************)
(* The LRU response cache of internal/cache/cache.go: a map from keys to   *)
(* list elements, a list ordered by recency, and a byte count, all behind  *)
(* one mutex, so that each locked method is one action.  Two things happen *)
(* outside the lock: Put reads the setting global_cache_enabled before it  *)
(* takes the lock (a step of its own), and the administrator changes the   *)
(* settings, which the cache reads afresh on every call.                   *)
(*                                                                         *)
(* HitCount, LastAccessAt and CreatedAt are read by nothing and left out.  *)
(***************************************************************************)
EXTENDS Integers, SequencesExt

CONSTANTS Links,      \* the links (a <<prefix, slug>> pair in the code)
          Queries,    \* the rest of a cache key: method and raw query
          Bodies,     \* response bodies
          SizeOf,     \* body -> its length in bytes
          TTLs,       \* lifetimes, in ticks of the clock
          Fillers,    \* goroutines that call Put
          Limits,     \* values of global_cache_max_memory_mb an administrator sets
          MB,         \* bytes in a megabyte
          IntHalf,    \* 2^(w-1) for the width w of the byte count
          MaxTime,    \* bound: the last instant of the clock
          Idle,       \* a filler outside Put
          NoAnswer    \* what a lookup that misses returns

ASSUME CacheAssumption ==
  /\ SizeOf \in [Bodies -> Nat]
  /\ TTLs \subseteq Nat
  /\ Limits \subseteq Nat \ {0}
  /\ MB \in Nat \ {0}
  /\ IntHalf \in Nat \ {0}
  /\ MaxTime \in Nat

VARIABLES items,         \* the map: key -> the item of its list element
          evictList,     \* the items, the most recently used first
          currentBytes,  \* the byte count
          enabled,       \* global_cache_enabled
          limitMB,       \* global_cache_max_memory_mb
          now,           \* the clock
          filling,       \* filler -> the arguments of a Put past its first check
          answer         \* what the latest Get returned

cacheVars == <<items, evictList, currentBytes>>
settingVars == <<enabled, limitMB>>
vars == <<cacheVars, settingVars, now, filling, answer>>

Keys == Links \X Queries
Item == [key : Keys, body : Bodies, size : Nat, exp : Nat]
Fill == [key : Keys, body : Bodies, ttl : TTLs]

OfLink(l) == {k \in Keys : k[1] = l}

(* int64 arithmetic on GetMaxMemoryLimitMB() * 1024 * 1024 *)
MaxBytes(mb) == ((mb * MB + IntHalf) % (2 * IntHalf)) - IntHalf

(* Sums and filters run along a list as the code's loops do; the proofs    *)
(* reason about their values at each position.                             *)
BytesUpTo(s) ==
  LET total[n \in 0..Len(s)] == IF n = 0 THEN 0 ELSE total[n - 1] + s[n].size
  IN total

Bytes(s) == BytesUpTo(s)[Len(s)]

WithKeysUpTo(s, K) ==
  LET kept[n \in 0..Len(s)] ==
        IF n = 0 THEN << >>
        ELSE IF s[n].key \in K THEN Append(kept[n - 1], s[n]) ELSE kept[n - 1]
  IN kept

WithKeys(s, K) == WithKeysUpTo(s, K)[Len(s)]

PositionOf(s, e) == CHOOSE i \in DOMAIN s : s[i] = e

-----------------------------------------------------------------------------
(* Seeded faults: bugs this code might have had, one per property.  No     *)
(* definition of the model uses them.                                      *)

PushFrontUncounted(c, e) ==
  [items |-> [k \in DOMAIN c.items \cup {e.key} |-> IF k = e.key THEN e ELSE c.items[k]],
   evictList |-> <<e>> \o c.evictList,
   currentBytes |-> c.currentBytes]

ReplacedInPlace(c, k) == c

KeptBytesOnly(c, size, maxBytes, n) ==
  c.currentBytes - Bytes(SubSeq(c.evictList, n + 1, Len(c.evictList))) <= maxBytes

PurgedUncounted(c) == [items |-> << >>, evictList |-> << >>, currentBytes |-> c.currentBytes]

EvictHotEnd(c, n) ==
  LET gone == SubSeq(c.evictList, 1, Len(c.evictList) - n)
  IN [items |-> Restrict(c.items, DOMAIN c.items \ {gone[i].key : i \in DOMAIN gone}),
      evictList |-> SubSeq(c.evictList, Len(c.evictList) - n + 1, Len(c.evictList)),
      currentBytes |-> c.currentBytes - Bytes(gone)]

NeverExpires(e, t) == FALSE

-----------------------------------------------------------------------------
(* The cache's own operations, on a record c of its three fields.          *)

cache == [items |-> items, evictList |-> evictList, currentBytes |-> currentBytes]

Become(c) == /\ items' = c.items
             /\ evictList' = c.evictList
             /\ currentBytes' = c.currentBytes

removeElement(c, e) ==
  [items |-> Restrict(c.items, DOMAIN c.items \ {e.key}),
   evictList |-> RemoveAt(c.evictList, PositionOf(c.evictList, e)),
   currentBytes |-> c.currentBytes - e.size]

Replaced(c, k) == IF k \in DOMAIN c.items THEN removeElement(c, c.items[k]) ELSE c

(* The eviction loop's exit test, once only the n hottest items are left.  *)
Fits(c, size, maxBytes, n) ==
  c.currentBytes - Bytes(SubSeq(c.evictList, n + 1, Len(c.evictList))) + size <= maxBytes

(* evictOldest, until n items are left *)
EvictTo(c, n) ==
  LET gone == SubSeq(c.evictList, n + 1, Len(c.evictList))
  IN [items |-> Restrict(c.items, DOMAIN c.items \ {gone[i].key : i \in DOMAIN gone}),
      evictList |-> SubSeq(c.evictList, 1, n),
      currentBytes |-> c.currentBytes - Bytes(gone)]

MakeRoom(c, size, maxBytes) ==
  EvictTo(c, Max({0} \cup {n \in 0..Len(c.evictList) : Fits(c, size, maxBytes, n)}))

PushFront(c, e) ==
  [items |-> [k \in DOMAIN c.items \cup {e.key} |-> IF k = e.key THEN e ELSE c.items[k]],
   evictList |-> <<e>> \o c.evictList,
   currentBytes |-> c.currentBytes + e.size]

(* time.Now().After(item.ExpiresAt) *)
Expired(e, t) == t > e.exp

MoveToFront(s, e) == <<e>> \o RemoveAt(s, PositionOf(s, e))

Without(c, l) ==
  LET gone == WithKeys(c.evictList, OfLink(l))
  IN [items |-> Restrict(c.items, DOMAIN c.items \ OfLink(l)),
      evictList |-> WithKeys(c.evictList, Keys \ OfLink(l)),
      currentBytes |-> c.currentBytes - Bytes(gone)]

Purged(c) == [items |-> << >>, evictList |-> << >>, currentBytes |-> 0]

-----------------------------------------------------------------------------
Init == /\ items = << >> /\ evictList = << >> /\ currentBytes = 0
        /\ enabled = TRUE
        /\ limitMB \in Limits
        /\ now = 0
        /\ filling = [f \in Fillers |-> Idle]
        /\ answer = NoAnswer

Hit(k) ==
  /\ k \in DOMAIN items
  /\ ~ Expired(items[k], now)
  /\ evictList' = MoveToFront(evictList, items[k])
  /\ answer' = [key |-> k, item |-> [body |-> items[k].body, exp |-> items[k].exp]]
  /\ UNCHANGED <<items, currentBytes, settingVars, now, filling>>

GetExpired(k) ==
  /\ k \in DOMAIN items
  /\ Expired(items[k], now)
  /\ Become(removeElement(cache, items[k]))
  /\ answer' = NoAnswer
  /\ UNCHANGED <<settingVars, now, filling>>

Miss(k) ==
  /\ k \notin DOMAIN items
  /\ answer' = NoAnswer
  /\ UNCHANGED <<cacheVars, settingVars, now, filling>>

Get(k) == Hit(k) \/ GetExpired(k) \/ Miss(k)

(* Put up to its return when the cache is off.  A read of the setting that *)
(* fails counts as enabled.                                                *)
CheckEnabled(f, fill) ==
  /\ filling[f] = Idle
  /\ \E found \in BOOLEAN : found => enabled
  /\ filling' = [filling EXCEPT ![f] = fill]
  /\ UNCHANGED <<cacheVars, settingVars, now, answer>>

(* Put under the lock; it reads the limit there, and the read succeeds: the *)
(* 64 MB it falls back on otherwise are left out.                           *)
Put(f) ==
  LET fill == filling[f]
      c == Replaced(cache, fill.key)
      size == SizeOf[fill.body]
      maxBytes == MaxBytes(limitMB)
      item == [key |-> fill.key, body |-> fill.body, size |-> size, exp |-> now + fill.ttl]
  IN /\ fill # Idle
     /\ Become(IF size > maxBytes THEN c ELSE PushFront(MakeRoom(c, size, maxBytes), item))
     /\ filling' = [filling EXCEPT ![f] = Idle]
     /\ answer' = NoAnswer
     /\ UNCHANGED <<settingVars, now>>

(* Remove is public and, so far, without a caller. *)
RemoveKey(k) ==
  /\ k \in DOMAIN items
  /\ Become(removeElement(cache, items[k]))
  /\ answer' = NoAnswer
  /\ UNCHANGED <<settingVars, now, filling>>

ClearLinkCache(l) ==
  /\ Become(Without(cache, l))
  /\ answer' = NoAnswer
  /\ UNCHANGED <<settingVars, now, filling>>

ClearAll ==
  /\ Become(Purged(cache))
  /\ answer' = NoAnswer
  /\ UNCHANGED <<settingVars, now, filling>>

(* UpdateSettings stores the settings it is given in one transaction.  It  *)
(* tells the cache nothing.                                                *)
UpdateSettings(on, mb) ==
  /\ enabled' = on
  /\ limitMB' = mb
  /\ UNCHANGED <<cacheVars, now, filling, answer>>

Tick ==
  /\ now < MaxTime
  /\ now' = now + 1
  /\ UNCHANGED <<cacheVars, settingVars, filling, answer>>

Next ==
  \/ \E k \in Keys : Get(k)
  \/ \E f \in Fillers, fill \in Fill : CheckEnabled(f, fill)
  \/ \E f \in Fillers : Put(f)
  \/ \E k \in Keys : RemoveKey(k)
  \/ \E l \in Links : ClearLinkCache(l)
  \/ ClearAll
  \/ \E on \in BOOLEAN, mb \in Limits : UpdateSettings(on, mb)
  \/ Tick

Spec == Init /\ [][Next]_vars

-----------------------------------------------------------------------------
(* TypeOK: every variable holds a value the Go types and the settings'     *)
(* validation allow; in particular the byte count never goes below zero.   *)
TypeOK ==
  /\ DOMAIN items \subseteq Keys /\ Range(items) \subseteq Item
  /\ evictList \in Seq(Item)
  /\ currentBytes \in Nat
  /\ enabled \in BOOLEAN /\ limitMB \in Limits
  /\ now \in 0..MaxTime
  /\ filling \in [Fillers -> Fill \cup {Idle}]

(* IndexMatchesList: the map and the list hold the same items, each once   *)
(* and under its own key.  removeElement relies on it: an element only one *)
(* of the two knows is a leak, or a hit on an entry that was evicted.      *)
IndexMatchesList ==
  /\ DOMAIN items = {e.key : e \in Range(evictList)}
  /\ \A i, j \in DOMAIN evictList : evictList[i].key = evictList[j].key => i = j
  /\ \A i \in DOMAIN evictList : items[evictList[i].key] = evictList[i]

(* BytesAccounted: the byte count is the size of what is cached, after any *)
(* sequence of puts, replacements, evictions, expirations and clears.      *)
BytesAccounted == currentBytes = Bytes(evictList)

(* GrowsWithinLimit: whatever limit was in force before, a step that makes *)
(* the cache larger leaves it within the limit in force at that moment.    *)
GrowsWithinLimit ==
  [][Bytes(evictList') > Bytes(evictList) => Bytes(evictList') <= MaxBytes(limitMB)]_vars

(* EvictsColdEndOnly: a Put keeps the most recently used of the other      *)
(* items, in their order, and gives up none that would have fitted.        *)
Others(f) == WithKeys(evictList, Keys \ {filling[f].key})
EvictsColdEndOnly ==
  [][\A f \in Fillers : filling[f] # Idle /\ filling'[f] = Idle =>
       LET stored == SizeOf[filling[f].body] <= MaxBytes(limitMB)
           kept == IF stored THEN Tail(evictList') ELSE evictList'
       IN /\ IsPrefix(kept, Others(f))
          /\ Len(kept) < Len(Others(f)) =>
               /\ stored
               /\ Bytes(evictList') + Others(f)[Len(kept) + 1].size > MaxBytes(limitMB)]_vars

(* ImplementsVolatileStore: seen as the contents of its list, the cache is *)
(* the volatile store the proxy relies on: no answer but the entry last    *)
(* put under the key, unexpired and not cleared since.                     *)
Contents ==
  [k \in {e.key : e \in Range(evictList)} |->
     LET e == evictList[Min({i \in DOMAIN evictList : evictList[i].key = k})]
     IN [body |-> e.body, exp |-> e.exp]]
Store == INSTANCE VolatileStore WITH store <- Contents
ImplementsVolatileStore == Store!Spec
=============================================================================
