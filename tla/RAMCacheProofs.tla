--------------------------- MODULE RAMCacheProofs ---------------------------
(***************************************************************************)
(* Proofs about RAMCache, for any keys, bodies, sizes and limits: what the *)
(* list, the map and the byte count say of each other, what a put gives    *)
(* up, and that the cache is the volatile store the proxy relies on.       *)
(***************************************************************************)
EXTENDS RAMCache, WellFoundedInduction, TLAPS

-----------------------------------------------------------------------------
(* Sums and filters.  Facts about every position of a list are proved from *)
(* the least position that would refute them.                              *)

LEMMA Upward ==
  ASSUME NEW N \in Nat, NEW T, 0 \in T, \A n \in 0..(N - 1) : n \in T => n + 1 \in T
  PROVE  \A n \in 0..N : n \in T
<1> DEFINE R == OpToRel(<, Nat)
           Bad == {n \in 0..N : n \notin T}
<1>1. \A m, n \in Nat : <<m, n>> \in R <=> m < n
  BY DEF OpToRel
<1>2. IsWellFoundedOn(R, Nat)
  BY NatLessThanWellFounded
<1>3. Bad \subseteq Nat
  OBVIOUS
<1> HIDE DEF R
<1>4. SUFFICES ASSUME Bad # {} PROVE FALSE
  OBVIOUS
<1>5. PICK n \in Bad : \A m \in Bad : ~(<<m, n>> \in R)
  BY <1>2, <1>3, <1>4, WFMin
<1>6. n \in 0..N /\ n \notin T /\ n # 0 /\ n - 1 \in 0..(N - 1)
  BY <1>5
<1>7. n - 1 \notin Bad
  <2>1. <<n - 1, n>> \in R
    BY <1>1, <1>6
  <2> HIDE DEF Bad
  <2> QED BY <1>5, <2>1
<1>8. n - 1 \in T
  BY <1>6, <1>7
<1> QED
  BY <1>6, <1>8

(* The sum at each position is that at the one before and the size there.  *)
LEMMA BytesUpToDef ==
  ASSUME NEW s, Len(s) \in Nat
  PROVE  BytesUpTo(s) = [n \in 0..Len(s) |->
           IF n = 0 THEN 0 ELSE BytesUpTo(s)[n - 1] + s[n].size]
<1> DEFINE Sums(f, m) == f = [n \in 0..m |-> IF n = 0 THEN 0 ELSE f[n - 1] + s[n].size]
           T == {m \in 0..Len(s) : \E f : Sums(f, m)}
<1>1. Sums([n \in 0..0 |-> 0], 0)
  OBVIOUS
<1>2. ASSUME NEW m \in 0..(Len(s) - 1), NEW f, Sums(f, m) PROVE \E g : Sums(g, m + 1)
  <2> DEFINE g == [n \in 0..(m + 1) |-> IF n = 0 THEN 0 ELSE f[n - 1] + s[n].size]
  <2>1. \A n \in 0..m : g[n] = f[n]
    BY <1>2
  <2>2. ASSUME NEW n \in 0..(m + 1)
        PROVE  g[n] = IF n = 0 THEN 0 ELSE g[n - 1] + s[n].size
    <3>1. n # 0 => n - 1 \in 0..m
      BY <2>2
    <3>2. g[n] = IF n = 0 THEN 0 ELSE f[n - 1] + s[n].size
      OBVIOUS
    <3> HIDE DEF g
    <3> QED BY <2>1, <3>1, <3>2
  <2>3. g = [n \in 0..(m + 1) |-> g[n]]
    OBVIOUS
  <2> HIDE DEF g
  <2>4. Sums(g, m + 1)
    BY <2>2, <2>3, Zenon
  <2> QED BY <2>4
<1>3. \E f : Sums(f, Len(s))
  <2> HIDE DEF Sums
  <2>1. 0 \in T /\ \A m \in 0..(Len(s) - 1) : m \in T => m + 1 \in T
    BY <1>1, <1>2
  <2> HIDE DEF T
  <2>2. \A m \in 0..Len(s) : m \in T
    BY <2>1, Upward
  <2> QED BY <2>2 DEF T
<1> QED
  BY <1>3 DEF BytesUpTo

LEMMA WithKeysUpToDef ==
  ASSUME NEW s, NEW K, Len(s) \in Nat
  PROVE  WithKeysUpTo(s, K) = [n \in 0..Len(s) |->
           IF n = 0 THEN << >>
           ELSE IF s[n].key \in K THEN Append(WithKeysUpTo(s, K)[n - 1], s[n])
                ELSE WithKeysUpTo(s, K)[n - 1]]
<1> DEFINE Keeps(f, m) ==
             f = [n \in 0..m |->
                    IF n = 0 THEN << >>
                    ELSE IF s[n].key \in K THEN Append(f[n - 1], s[n]) ELSE f[n - 1]]
           T == {m \in 0..Len(s) : \E f : Keeps(f, m)}
<1>1. Keeps([n \in 0..0 |-> << >>], 0)
  OBVIOUS
<1>2. ASSUME NEW m \in 0..(Len(s) - 1), NEW f, Keeps(f, m) PROVE \E g : Keeps(g, m + 1)
  <2> DEFINE g == [n \in 0..(m + 1) |->
                     IF n = 0 THEN << >>
                     ELSE IF s[n].key \in K THEN Append(f[n - 1], s[n]) ELSE f[n - 1]]
  <2>1. ASSUME NEW n \in 0..m PROVE g[n] = f[n]
    <3>1. g[n] = IF n = 0 THEN << >>
                 ELSE IF s[n].key \in K THEN Append(f[n - 1], s[n]) ELSE f[n - 1]
      OBVIOUS
    <3>2. f[n] = IF n = 0 THEN << >>
                 ELSE IF s[n].key \in K THEN Append(f[n - 1], s[n]) ELSE f[n - 1]
      BY <1>2, Zenon
    <3> QED BY <3>1, <3>2, Zenon
  <2>2. ASSUME NEW n \in 0..(m + 1)
        PROVE  g[n] = IF n = 0 THEN << >>
                      ELSE IF s[n].key \in K THEN Append(g[n - 1], s[n]) ELSE g[n - 1]
    <3>1. n # 0 => n - 1 \in 0..m
      BY <2>2
    <3>2. g[n] = IF n = 0 THEN << >>
                 ELSE IF s[n].key \in K THEN Append(f[n - 1], s[n]) ELSE f[n - 1]
      OBVIOUS
    <3> HIDE DEF g
    <3> QED BY <2>1, <3>1, <3>2
  <2>3. g = [n \in 0..(m + 1) |-> g[n]]
    OBVIOUS
  <2> HIDE DEF g
  <2>4. Keeps(g, m + 1)
    BY <2>2, <2>3, Zenon
  <2> QED BY <2>4
<1>3. \E f : Keeps(f, Len(s))
  <2> HIDE DEF Keeps
  <2>1. 0 \in T /\ \A m \in 0..(Len(s) - 1) : m \in T => m + 1 \in T
    BY <1>1, <1>2
  <2> HIDE DEF T
  <2>2. \A m \in 0..Len(s) : m \in T
    BY <2>1, Upward
  <2> QED BY <2>2 DEF T
<1> QED
  BY <1>3 DEF WithKeysUpTo

LEMMA SizesTyped ==
  ASSUME NEW s \in Seq(Item)
  PROVE  Len(s) \in Nat /\ \A n \in 1..Len(s) : s[n].size \in Nat
<1>1. Len(s) \in Nat /\ \A n \in 1..Len(s) : s[n] \in Item
  OBVIOUS
<1> QED
  BY <1>1 DEF Item

(* The sums of a list of items are numbers that never fall.                *)
LEMMA BytesTyped ==
  ASSUME NEW s \in Seq(Item)
  PROVE  \A n \in 0..Len(s) : BytesUpTo(s)[n] \in Nat
<1> DEFINE T == {n \in 0..Len(s) : BytesUpTo(s)[n] \in Nat}
<1>1. Len(s) \in Nat /\ \A n \in 1..Len(s) : s[n].size \in Nat
  BY SizesTyped
<1>2. BytesUpTo(s)[0] = 0
        /\ \A n \in 1..Len(s) : BytesUpTo(s)[n] = BytesUpTo(s)[n - 1] + s[n].size
  BY <1>1, BytesUpToDef
<1>3. 0 \in T /\ \A n \in 0..(Len(s) - 1) : n \in T => n + 1 \in T
  BY <1>1, <1>2
<1> HIDE DEF T
<1>4. \A n \in 0..Len(s) : n \in T
  BY <1>1, <1>3, Upward
<1> QED
  BY <1>4 DEF T

(* The items of s after i up to x are those of t after j up to y.          *)
SameRun(s, i, x, t, j, y) ==
  /\ s \in Seq(Item) /\ t \in Seq(Item)
  /\ i \in Nat /\ x \in i..Len(s) /\ j \in Nat /\ y \in j..Len(t)
  /\ x - i = y - j
  /\ \A n \in 1..(x - i) : s[i + n] = t[j + n]

(* Along the same items the sums grow alike.                               *)
LEMMA BytesAlike ==
  ASSUME NEW s, NEW i, NEW x, NEW t, NEW j, NEW y, SameRun(s, i, x, t, j, y)
  PROVE  BytesUpTo(s)[x] - BytesUpTo(s)[i] = BytesUpTo(t)[y] - BytesUpTo(t)[j]
<1> USE DEF SameRun
<1> DEFINE k == x - i
<1>10. s \in Seq(Item) /\ t \in Seq(Item) /\ i \in Nat /\ j \in Nat /\ k \in Nat
       /\ i + k <= Len(s) /\ j + k <= Len(t) /\ i + k = x /\ j + k = y
       /\ \A n \in 1..k : s[i + n] = t[j + n]
  <2>1. Len(s) \in Nat /\ Len(t) \in Nat
    OBVIOUS
  <2> QED BY <2>1
<1> HIDE DEF SameRun, k
<1> DEFINE a == BytesUpTo(s)
           b == BytesUpTo(t)
           T == {n \in 0..k : a[i + n] - a[i] = b[j + n] - b[j]}
<1>1. Len(s) \in Nat /\ Len(t) \in Nat /\ \A n \in 1..Len(s) : s[n].size \in Nat
  BY <1>10, SizesTyped
<1>2. \A n \in 1..Len(s) : a[n] = a[n - 1] + s[n].size
  BY <1>10, <1>1, BytesUpToDef
<1>3. \A n \in 1..Len(t) : b[n] = b[n - 1] + t[n].size
  BY <1>10, <1>1, BytesUpToDef
<1>4. (\A n \in 0..Len(s) : a[n] \in Nat) /\ \A n \in 0..Len(t) : b[n] \in Nat
  BY <1>10, BytesTyped
<1> HIDE DEF a, b
<1>5. 0 \in T
  <2>1. i \in 0..Len(s) /\ j \in 0..Len(t) /\ i + 0 = i /\ j + 0 = j
    BY <1>10, <1>1
  <2>2. a[i] \in Nat /\ b[j] \in Nat
    BY <1>4, <2>1
  <2> QED BY <1>10, <2>1, <2>2
<1>6. ASSUME NEW n \in 0..(k - 1), a[i + n] - a[i] = b[j + n] - b[j]
      PROVE  a[i + (n + 1)] - a[i] = b[j + (n + 1)] - b[j]
  <2> DEFINE u == i + (n + 1)
             v == j + (n + 1)
  <2>1. /\ u \in 1..Len(s) /\ v \in 1..Len(t) /\ n + 1 \in 1..k
        /\ i \in 0..Len(s) /\ j \in 0..Len(t) /\ i + n \in 0..Len(s) /\ j + n \in 0..Len(t)
        /\ u - 1 = i + n /\ v - 1 = j + n
    BY <1>10, <1>1
  <2>2. s[u].size = t[v].size
    BY <1>10, <2>1
  <2> HIDE DEF u, v
  <2>3. a[u] = a[i + n] + s[u].size /\ b[v] = b[j + n] + t[v].size
    BY <1>2, <1>3, <2>1
  <2>4. a[i] \in Nat /\ a[i + n] \in Nat /\ b[j] \in Nat /\ b[j + n] \in Nat
        /\ s[u].size \in Nat
    BY <1>1, <1>4, <2>1
  <2>6. (a[i + n] + s[u].size) - a[i] = (b[j + n] + s[u].size) - b[j]
    <3>1. a[i + n] - a[i] = b[j + n] - b[j]
      BY <1>6
    <3> DEFINE p == a[i + n]
               q == a[i]
               c == b[j + n]
               d == b[j]
               z == s[u].size
    <3>2. p \in Nat /\ q \in Nat /\ c \in Nat /\ d \in Nat /\ z \in Nat /\ p - q = c - d
      BY <2>4, <3>1
    <3> HIDE DEF p, q, c, d, z
    <3>3. (p + z) - q = (c + z) - d
      BY <3>2
    <3> QED BY <3>3 DEF p, q, c, d, z
  <2>7. a[u] - a[i] = b[v] - b[j]
    BY <2>2, <2>3, <2>6
  <2> QED BY <2>7 DEF u, v
<1>7. \A n \in 0..(k - 1) : n \in T => n + 1 \in T
  BY <1>6, <1>10
<1> HIDE DEF T
<1>8. \A n \in 0..k : n \in T
  BY <1>10, <1>5, <1>7, Upward
<1>9. a[i + k] - a[i] = b[j + k] - b[j]
  BY <1>10, <1>8 DEF T
<1> QED
  BY <1>9, <1>10 DEF a, b

LEMMA BytesStart == \A s \in Seq(Item) : BytesUpTo(s)[0] = 0 /\ Bytes(s) \in Nat
<1> SUFFICES ASSUME NEW s \in Seq(Item) PROVE BytesUpTo(s)[0] = 0 /\ Bytes(s) \in Nat
  OBVIOUS
<1>1. Len(s) \in Nat
  OBVIOUS
<1> QED
  BY <1>1, BytesUpToDef, BytesTyped DEF Bytes

LEMMA BytesEmpty == Bytes(<< >>) = 0
<1>1. << >> \in Seq(Item) /\ Len(<< >>) = 0
  OBVIOUS
<1> QED
  BY <1>1, BytesStart DEF Bytes

(* Adding an item at the front, or at the back, adds its size.             *)
LEMMA BytesCons ==
  ASSUME NEW s \in Seq(Item), NEW e \in Item
  PROVE  Bytes(<<e>> \o s) = e.size + Bytes(s)
<1> DEFINE t == <<e>> \o s
<1>1. t \in Seq(Item) /\ Len(s) \in Nat /\ Len(t) = 1 + Len(s) /\ t[1] = e
      /\ \A n \in 1..Len(s) : s[0 + n] = t[1 + n]
  OBVIOUS
<1>2. e.size \in Nat
  BY DEF Item
<1> HIDE DEF t
<1>3. BytesUpTo(s)[Len(s)] - BytesUpTo(s)[0] = BytesUpTo(t)[Len(t)] - BytesUpTo(t)[1]
  <2>1. SameRun(s, 0, Len(s), t, 1, Len(t))
    BY <1>1 DEF SameRun
  <2> QED BY <2>1, BytesAlike
<1>4. BytesUpTo(t)[1] = BytesUpTo(t)[0] + t[1].size
  BY <1>1, BytesUpToDef
<1>5. BytesUpTo(s)[0] = 0 /\ BytesUpTo(t)[0] = 0 /\ Bytes(s) \in Nat /\ Bytes(t) \in Nat
  BY <1>1, BytesStart
<1>6. Bytes(t) - e.size = Bytes(s)
  BY <1>1, <1>2, <1>3, <1>4, <1>5 DEF Bytes
<1>7. Bytes(t) = e.size + Bytes(s)
  BY <1>2, <1>5, <1>6
<1> QED
  BY <1>7 DEF t

LEMMA BytesSnoc ==
  ASSUME NEW s \in Seq(Item), NEW e \in Item
  PROVE  Bytes(Append(s, e)) = Bytes(s) + e.size
<1> DEFINE t == Append(s, e)
<1>1. t \in Seq(Item) /\ Len(s) \in Nat /\ Len(t) = Len(s) + 1 /\ t[Len(t)] = e
      /\ \A n \in 1..Len(s) : s[0 + n] = t[0 + n]
  OBVIOUS
<1>2. e.size \in Nat
  BY DEF Item
<1> HIDE DEF t
<1>3. BytesUpTo(s)[Len(s)] - BytesUpTo(s)[0] = BytesUpTo(t)[Len(s)] - BytesUpTo(t)[0]
  <2>1. SameRun(s, 0, Len(s), t, 0, Len(s))
    BY <1>1 DEF SameRun
  <2> QED BY <2>1, BytesAlike
<1>4. Len(t) \in 1..Len(t) /\ Len(t) - 1 = Len(s) /\ Len(s) \in 0..Len(t)
  BY <1>1
<1>5. BytesUpTo(t)[Len(t)] = BytesUpTo(t)[Len(s)] + e.size
  BY <1>1, <1>4, BytesUpToDef
<1>6. BytesUpTo(s)[0] = 0 /\ BytesUpTo(t)[0] = 0 /\ BytesUpTo(s)[Len(s)] \in Nat
      /\ BytesUpTo(t)[Len(s)] \in Nat
  BY <1>1, <1>4, BytesStart, BytesTyped
<1>7. BytesUpTo(t)[Len(s)] = BytesUpTo(s)[Len(s)]
  BY <1>1, <1>3, <1>6
<1> QED
  BY <1>5, <1>7 DEF Bytes, t

(* A list and its two parts.                                               *)
LEMMA BytesSplit ==
  ASSUME NEW s \in Seq(Item), NEW m \in 0..Len(s)
  PROVE  /\ SubSeq(s, 1, m) \in Seq(Item) /\ SubSeq(s, m + 1, Len(s)) \in Seq(Item)
         /\ Bytes(SubSeq(s, 1, m)) + Bytes(SubSeq(s, m + 1, Len(s))) = Bytes(s)
<1> DEFINE head == SubSeq(s, 1, m)
           rest == SubSeq(s, m + 1, Len(s))
           k == Len(s) - m
<1>1. Len(s) \in Nat /\ m \in Nat /\ k \in Nat /\ m + k = Len(s)
  OBVIOUS
<1>2. /\ head \in Seq(Item) /\ Len(head) = m /\ \A n \in 1..m : s[0 + n] = head[0 + n]
  BY <1>1
<1> HIDE DEF k
<1>10. rest \in Seq(Item) /\ Len(rest) = k /\ \A n \in 1..k : rest[n] = s[m + n]
  <2> DEFINE c == m + 1
  <2>1. c \in Nat /\ c = m + 1
    BY <1>1
  <2> HIDE DEF c
  <2>2. /\ SubSeq(s, c, Len(s)) \in Seq(Item)
        /\ Len(SubSeq(s, c, Len(s))) = IF c <= Len(s) THEN Len(s) - c + 1 ELSE 0
        /\ \A n \in 1..(Len(s) - c + 1) : SubSeq(s, c, Len(s))[n] = s[c + n - 1]
    BY <1>1, <2>1
  <2>3. Len(s) - c + 1 = k /\ (IF c <= Len(s) THEN Len(s) - c + 1 ELSE 0) = k
    BY <1>1, <2>1
  <2>4. \A n \in 1..k : c + n - 1 = m + n
    BY <1>1, <2>1
  <2>5. rest = SubSeq(s, c, Len(s))
    BY <2>1
  <2> HIDE DEF rest
  <2> QED BY <2>2, <2>3, <2>4, <2>5
<1> HIDE DEF head, rest
<1>3. BytesUpTo(s)[m] - BytesUpTo(s)[0] = BytesUpTo(head)[m] - BytesUpTo(head)[0]
  <2>1. SameRun(s, 0, m, head, 0, m)
    BY <1>1, <1>2 DEF SameRun
  <2> QED BY <2>1, BytesAlike
<1>4. BytesUpTo(s)[Len(s)] - BytesUpTo(s)[m] = BytesUpTo(rest)[k] - BytesUpTo(rest)[0]
  <2>1. SameRun(s, m, Len(s), rest, 0, k)
    BY <1>1, <1>10 DEF SameRun
  <2> QED BY <2>1, BytesAlike
<1>5. BytesUpTo(s)[0] = 0 /\ BytesUpTo(head)[0] = 0 /\ BytesUpTo(rest)[0] = 0
  BY <1>2, <1>10, BytesStart
<1>6. BytesUpTo(s)[m] \in Nat /\ Bytes(s) \in Nat /\ Bytes(head) \in Nat /\ Bytes(rest) \in Nat
  BY <1>1, <1>2, <1>10, BytesStart, BytesTyped
<1>7. BytesUpTo(s)[m] = Bytes(head)
  BY <1>1, <1>2, <1>3, <1>5, <1>6 DEF Bytes
<1>8. Bytes(s) - BytesUpTo(s)[m] = Bytes(rest)
  BY <1>1, <1>10, <1>4, <1>5, <1>6 DEF Bytes
<1>9. Bytes(head) + Bytes(rest) = Bytes(s)
  BY <1>6, <1>7, <1>8
<1> QED
  BY <1>2, <1>9, <1>10 DEF head, rest

LEMMA RemoveAtIs ==
  ASSUME NEW s \in Seq(Item), NEW p \in 1..Len(s)
  PROVE  /\ RemoveAt(s, p) \in Seq(Item) /\ Len(RemoveAt(s, p)) = Len(s) - 1
         /\ \A n \in 1..(p - 1) : RemoveAt(s, p)[n] = s[n]
         /\ \A n \in p..(Len(s) - 1) : RemoveAt(s, p)[n] = s[n + 1]
<1> DEFINE u == SubSeq(s, 1, p - 1)
           v == SubSeq(s, p + 1, Len(s))
<1>1. Len(s) \in Nat /\ p \in Nat
  OBVIOUS
<1>2. /\ u \in Seq(Item) /\ Len(u) = p - 1 /\ v \in Seq(Item) /\ Len(v) = Len(s) - p
      /\ \A n \in 1..(p - 1) : u[n] = s[n]
      /\ \A n \in 1..(Len(s) - p) : v[n] = s[p + n]
  BY <1>1
<1> HIDE DEF u, v
<1>3. /\ u \o v \in Seq(Item) /\ Len(u \o v) = Len(u) + Len(v)
      /\ \A n \in 1..(Len(u) + Len(v)) :
           (u \o v)[n] = IF n <= Len(u) THEN u[n] ELSE v[n - Len(u)]
  <2>1. u \in Seq(Item) /\ v \in Seq(Item)
    BY <1>2
  <2> QED BY <2>1
<1>4. ASSUME NEW n \in p..(Len(s) - 1) PROVE (u \o v)[n] = s[n + 1]
  <2>1. n \in 1..(Len(u) + Len(v)) /\ n > Len(u) /\ n - Len(u) \in 1..(Len(s) - p)
        /\ p + (n - Len(u)) = n + 1
    BY <1>1, <1>2
  <2> QED BY <1>2, <1>3, <2>1
<1>5. Len(u \o v) = Len(s) - 1 /\ \A n \in 1..(p - 1) : (u \o v)[n] = s[n]
  BY <1>1, <1>2, <1>3
<1> QED
  BY <1>3, <1>4, <1>5 DEF RemoveAt, u, v

LEMMA BytesRemoveAt ==
  ASSUME NEW s \in Seq(Item), NEW p \in 1..Len(s)
  PROVE  Bytes(RemoveAt(s, p)) = Bytes(s) - s[p].size
<1> DEFINE t == RemoveAt(s, p)
           k == Len(s) - p
           q == p - 1
<1>1. /\ Len(s) \in Nat /\ p \in Nat /\ q \in Nat /\ k \in Nat /\ 0 \in Nat
      /\ Len(s) = p + k /\ q = 0 + q /\ Len(s) - 1 = q + k
      /\ q <= Len(s) /\ q <= Len(s) - 1 /\ Len(s) <= Len(s) /\ Len(s) - 1 <= Len(s) - 1
  OBVIOUS
<1>2. t \in Seq(Item) /\ Len(t) = Len(s) - 1
  BY RemoveAtIs
<1>3. \A n \in 1..q : s[0 + n] = t[0 + n]
  <2>1. \A n \in 1..q : 0 + n = n
    OBVIOUS
  <2> QED BY <2>1, RemoveAtIs
<1>4. ASSUME NEW n \in 1..k PROVE s[p + n] = t[q + n]
  <2>1. q + n \in p..(Len(s) - 1) /\ (q + n) + 1 = p + n
    BY <1>1
  <2> QED BY <2>1, RemoveAtIs
<1> HIDE DEF t, k
<1>5. BytesUpTo(s)[q] - BytesUpTo(s)[0] = BytesUpTo(t)[q] - BytesUpTo(t)[0]
  <2> HIDE DEF q
  <2>1. SameRun(s, 0, q, t, 0, q)
    BY <1>1, <1>2, <1>3 DEF SameRun
  <2> QED BY <2>1, BytesAlike
<1>6. BytesUpTo(s)[Len(s)] - BytesUpTo(s)[p] = BytesUpTo(t)[Len(t)] - BytesUpTo(t)[q]
  <2> HIDE DEF q
  <2>1. SameRun(s, p, Len(s), t, q, Len(t))
    BY <1>1, <1>2, <1>4 DEF SameRun
  <2> QED BY <2>1, BytesAlike
<1>7. BytesUpTo(s)[p] = BytesUpTo(s)[q] + s[p].size
  <2>1. p \in 0..Len(s) /\ p # 0
    BY <1>1
  <2> QED BY <1>1, <2>1, BytesUpToDef
<1>8. BytesUpTo(s)[0] = 0 /\ BytesUpTo(t)[0] = 0 /\ s[p].size \in Nat
  BY <1>2, BytesStart, SizesTyped
<1>9. /\ BytesUpTo(s)[q] \in Nat /\ BytesUpTo(s)[Len(s)] \in Nat
      /\ BytesUpTo(t)[q] \in Nat /\ BytesUpTo(t)[Len(t)] \in Nat
  BY <1>1, <1>2, BytesTyped
<1>10. BytesUpTo(t)[q] = BytesUpTo(s)[q]
  BY <1>5, <1>8, <1>9
<1>11. BytesUpTo(t)[Len(t)] = BytesUpTo(s)[Len(s)] - s[p].size
  BY <1>6, <1>7, <1>8, <1>9, <1>10
<1> QED
  BY <1>11 DEF Bytes, t

(* What the filter holds at each position of the list.                     *)
LEMMA WithKeysStep ==
  ASSUME NEW s \in Seq(Item), NEW K
  PROVE  /\ WithKeysUpTo(s, K)[0] = << >>
         /\ \A n \in 1..Len(s) :
              /\ s[n].key \in K =>
                   WithKeysUpTo(s, K)[n] = Append(WithKeysUpTo(s, K)[n - 1], s[n])
              /\ s[n].key \notin K => WithKeysUpTo(s, K)[n] = WithKeysUpTo(s, K)[n - 1]
<1> DEFINE w == WithKeysUpTo(s, K)
<1>1. Len(s) \in Nat
  OBVIOUS
<1>2. w = [n \in 0..Len(s) |->
             IF n = 0 THEN << >>
             ELSE IF s[n].key \in K THEN Append(w[n - 1], s[n]) ELSE w[n - 1]]
  BY <1>1, WithKeysUpToDef
<1> HIDE DEF w
<1>3. w[0] = << >>
  BY <1>1, <1>2
<1>4. \A n \in 1..Len(s) :
        w[n] = IF s[n].key \in K THEN Append(w[n - 1], s[n]) ELSE w[n - 1]
  <2>1. \A n \in 1..Len(s) : n \in 0..Len(s) /\ n # 0
    BY <1>1
  <2> QED BY <1>2, <2>1
<1> QED
  BY <1>3, <1>4 DEF w

LEMMA WithKeysTyped ==
  ASSUME NEW s \in Seq(Item), NEW K
  PROVE  \A n \in 0..Len(s) : WithKeysUpTo(s, K)[n] \in Seq(Item)
<1> DEFINE w == WithKeysUpTo(s, K)
           T == {n \in 0..Len(s) : w[n] \in Seq(Item)}
<1>1. Len(s) \in Nat /\ \A n \in 1..Len(s) : s[n] \in Item
  OBVIOUS
<1>2. 0 \in T
  <2>1. w[0] = << >> /\ << >> \in Seq(Item)
    BY WithKeysStep
  <2> HIDE DEF w
  <2>2. w[0] \in Seq(Item)
    BY <2>1, Zenon
  <2>3. 0 \in 0..Len(s)
    BY <1>1
  <2> QED BY <2>2, <2>3
<1>3. ASSUME NEW n \in 0..(Len(s) - 1), w[n] \in Seq(Item) PROVE w[n + 1] \in Seq(Item)
  <2> DEFINE m == n + 1
  <2>1. m \in 1..Len(s) /\ m - 1 = n
    BY <1>1
  <2> HIDE DEF m
  <2>2. w[m] = Append(w[n], s[m]) \/ w[m] = w[n]
    BY <2>1, WithKeysStep
  <2> DEFINE u == w[n]
             e == s[m]
  <2>4. u \in Seq(Item) /\ e \in Item
    BY <1>1, <1>3, <2>1
  <2> HIDE DEF u, e
  <2>5. Append(u, e) \in Seq(Item)
    BY <2>4
  <2>3. w[m] \in Seq(Item)
    BY <2>2, <2>4, <2>5 DEF u, e
  <2> QED BY <2>3 DEF m
<1>4. \A n \in 0..(Len(s) - 1) : n \in T => n + 1 \in T
  BY <1>1, <1>3
<1> HIDE DEF T
<1>5. \A n \in 0..Len(s) : n \in T
  BY <1>1, <1>2, <1>4, Upward
<1> QED
  BY <1>5 DEF T

(* The kept items are items of the list, and those whose keys are in K.    *)
Kept(w, s, K, n) ==
  /\ \A i \in 1..Len(w) : \E m \in 1..n : w[i] = s[m] /\ s[m].key \in K
  /\ \A m \in 1..n : s[m].key \in K => \E i \in 1..Len(w) : w[i] = s[m]

LEMMA WithKeysKept ==
  ASSUME NEW s \in Seq(Item), NEW K
  PROVE  WithKeys(s, K) \in Seq(Item) /\ Kept(WithKeys(s, K), s, K, Len(s))
<1> DEFINE w == WithKeysUpTo(s, K)
           T == {n \in 0..Len(s) : Kept(w[n], s, K, n)}
<1>1. Len(s) \in Nat /\ \A n \in 1..Len(s) : s[n] \in Item
  OBVIOUS
<1>2. \A n \in 0..Len(s) : w[n] \in Seq(Item)
  BY WithKeysTyped
<1>3. 0 \in T
  <2>1. w[0] = << >>
    BY WithKeysStep
  <2>2. Kept(<< >>, s, K, 0)
    BY DEF Kept
  <2> QED BY <1>1, <2>1, <2>2
<1>4. ASSUME NEW n \in 0..(Len(s) - 1), Kept(w[n], s, K, n) PROVE Kept(w[n + 1], s, K, n + 1)
  <2> DEFINE m == n + 1
             u == w[n]
  <2>1. m \in 1..Len(s) /\ m - 1 = n /\ n \in 0..Len(s)
        /\ (\A i \in 1..m : i \in 1..n \/ i = m)
        /\ (\A i \in 1..n : i \in 1..m)
    BY <1>1
  <2> HIDE DEF m, u
  <2>2. u \in Seq(Item) /\ Kept(u, s, K, n)
    BY <1>2, <1>4, <2>1 DEF u
  <2>3. CASE s[m].key \in K
    <3>1. w[m] = Append(u, s[m])
      BY <2>1, <2>3, WithKeysStep DEF u
    <3> DEFINE v == Append(u, s[m])
               c == Len(u) + 1
    <3>2. Len(v) = c /\ v[c] = s[m] /\ (\A i \in 1..Len(u) : v[i] = u[i])
          /\ (\A i \in 1..Len(u) : i \in 1..c) /\ c \in 1..c
          /\ (\A i \in 1..c : i \in 1..Len(u) \/ i = c)
      BY <1>1, <2>1, <2>2
    <3> HIDE DEF v, c
    <3>3. ASSUME NEW i \in 1..Len(v) PROVE \E j \in 1..m : v[i] = s[j] /\ s[j].key \in K
      <4>1. CASE i = c
        <5>1. m \in 1..m
          BY <2>1
        <5> QED BY <2>3, <3>2, <4>1, <5>1
      <4>2. CASE i \in 1..Len(u)
        <5>1. PICK j \in 1..n : u[i] = s[j] /\ s[j].key \in K
          BY <2>2, <4>2 DEF Kept
        <5>2. j \in 1..m /\ v[i] = s[j]
          BY <2>1, <3>2, <4>2, <5>1
        <5> QED BY <5>1, <5>2
      <4> QED BY <3>2, <4>1, <4>2
    <3>4. ASSUME NEW j \in 1..m, s[j].key \in K PROVE \E i \in 1..Len(v) : v[i] = s[j]
      <4>1. CASE j = m
        BY <3>2, <4>1
      <4>2. CASE j \in 1..n
        BY <2>2, <3>2, <3>4, <4>2 DEF Kept
      <4> QED BY <2>1, <4>1, <4>2
    <3>5. Kept(v, s, K, m)
      BY <3>3, <3>4 DEF Kept
    <3> QED BY <3>1, <3>5 DEF v, m
  <2>4. CASE s[m].key \notin K
    <3>1. w[m] = u
      BY <2>1, <2>4, WithKeysStep DEF u
    <3>2. Kept(u, s, K, m)
      BY <2>1, <2>2, <2>4 DEF Kept
    <3> QED BY <3>1, <3>2 DEF m
  <2> QED BY <2>3, <2>4
<1>5. \A n \in 0..(Len(s) - 1) : n \in T => n + 1 \in T
  BY <1>1, <1>4
<1> HIDE DEF T
<1>6. \A n \in 0..Len(s) : n \in T
  BY <1>1, <1>3, <1>5, Upward
<1>7. Kept(w[Len(s)], s, K, Len(s)) /\ w[Len(s)] \in Seq(Item)
  BY <1>1, <1>2, <1>6 DEF T
<1> QED
  BY <1>7 DEF WithKeys

(* A filter that keeps every item but, perhaps, the one at p.              *)
LEMMA WithKeysButOne ==
  ASSUME NEW s \in Seq(Item), NEW K, NEW p \in 1..(Len(s) + 1),
         \A n \in 1..Len(s) : s[n].key \in K <=> n # p
  PROVE  WithKeys(s, K) = IF p \in 1..Len(s) THEN RemoveAt(s, p) ELSE s
<1> DEFINE w == WithKeysUpTo(s, K)
           Count(n) == IF n < p THEN n ELSE n - 1
           Good(v, n) == /\ Len(v) = Count(n)
                         /\ \A i \in 1..Len(v) : v[i] = s[IF i < p THEN i ELSE i + 1]
           T == {n \in 0..Len(s) : Good(w[n], n)}
<1>1. Len(s) \in Nat /\ p \in Nat /\ p > 0 /\ \A n \in 1..Len(s) : s[n] \in Item
  OBVIOUS
<1>2. \A n \in 0..Len(s) : w[n] \in Seq(Item)
  BY WithKeysTyped
<1>3. 0 \in T
  <2>1. w[0] = << >>
    BY WithKeysStep
  <2>2. Good(<< >>, 0)
    BY <1>1
  <2> HIDE DEF Good
  <2> QED BY <1>1, <2>1, <2>2
<1>4. ASSUME NEW n \in 0..(Len(s) - 1), Good(w[n], n) PROVE Good(w[n + 1], n + 1)
  <2> DEFINE m == n + 1
             u == w[n]
  <2>1. m \in 1..Len(s) /\ m - 1 = n /\ n \in 0..Len(s) /\ m \in Nat /\ n \in Nat
    BY <1>1
  <2>2. Count(n) \in Nat /\ (m # p => Count(m) = Count(n) + 1) /\ (m = p => Count(m) = Count(n))
    BY <1>1, <2>1
  <2>3. m # p => m = IF Count(m) < p THEN Count(m) ELSE Count(m) + 1
    BY <1>1, <2>1
  <2> DEFINE c == Count(n)
             d == Count(m)
  <2> HIDE DEF m, u
  <2>4. u \in Seq(Item) /\ Len(u) = c
        /\ \A i \in 1..Len(u) : u[i] = s[IF i < p THEN i ELSE i + 1]
    BY <1>2, <1>4, <2>1 DEF u
  <2>5. c \in Nat /\ (m # p => d = c + 1) /\ (m = p => d = c)
        /\ (m # p => m = IF d < p THEN d ELSE d + 1)
    BY <2>2, <2>3
  <2> HIDE DEF c, d
  <2>6. CASE m # p
    <3> DEFINE v == Append(u, s[m])
    <3>1. w[m] = v
      BY <2>1, <2>6, WithKeysStep DEF u
    <3>2. Len(v) = d /\ v[d] = s[m] /\ (\A i \in 1..Len(u) : v[i] = u[i])
          /\ (\A i \in 1..d : i \in 1..Len(u) \/ i = d)
      BY <1>1, <2>1, <2>4, <2>5, <2>6
    <3> HIDE DEF v
    <3>3. ASSUME NEW i \in 1..Len(v) PROVE v[i] = s[IF i < p THEN i ELSE i + 1]
      <4>1. CASE i = d
        BY <2>5, <2>6, <3>2, <4>1
      <4>2. CASE i \in 1..Len(u)
        BY <2>4, <3>2, <4>2
      <4> QED BY <3>2, <4>1, <4>2
    <3>4. Good(v, m)
      BY <3>2, <3>3 DEF d
    <3> QED BY <3>1, <3>4 DEF m
  <2>7. CASE m = p
    <3>1. w[m] = u
      BY <2>1, <2>7, WithKeysStep DEF u
    <3>2. Good(u, m)
      BY <2>4, <2>5, <2>7 DEF d
    <3> QED BY <3>1, <3>2 DEF m
  <2> QED BY <2>6, <2>7
<1>5. \A n \in 0..(Len(s) - 1) : n \in T => n + 1 \in T
  BY <1>1, <1>4
<1> HIDE DEF T
<1>6. \A n \in 0..Len(s) : n \in T
  BY <1>1, <1>3, <1>5, Upward
<1>7. Good(w[Len(s)], Len(s)) /\ w[Len(s)] \in Seq(Item)
  BY <1>1, <1>2, <1>6 DEF T
<1> DEFINE k == WithKeys(s, K)
<1>8. k \in Seq(Item) /\ Good(k, Len(s))
  BY <1>7 DEF WithKeys
<1> HIDE DEF w, k
<1>9. CASE p \in 1..Len(s)
  <2> DEFINE r == RemoveAt(s, p)
  <2>1. /\ r \in Seq(Item) /\ Len(r) = Len(s) - 1
        /\ \A i \in 1..(p - 1) : r[i] = s[i]
        /\ \A i \in p..(Len(s) - 1) : r[i] = s[i + 1]
    BY <1>9, RemoveAtIs
  <2>2. Len(k) = Len(s) - 1 /\ \A i \in 1..Len(k) : k[i] = s[IF i < p THEN i ELSE i + 1]
    <3>1. Count(Len(s)) = Len(s) - 1
      BY <1>1, <1>9
    <3> HIDE DEF Count
    <3> QED BY <1>8, <3>1
  <2> HIDE DEF r
  <2>3. ASSUME NEW i \in 1..Len(k) PROVE k[i] = r[i]
    <3>1. i < p => i \in 1..(p - 1)
      BY <1>1, <2>2
    <3>2. ~(i < p) => i \in p..(Len(s) - 1)
      BY <1>1, <2>2
    <3> QED BY <2>1, <2>2, <3>1, <3>2
  <2>4. k = r
    BY <1>8, <2>1, <2>2, <2>3
  <2> QED BY <1>9, <2>4 DEF k, r
<1>10. CASE p \notin 1..Len(s)
  <2>1. p = Len(s) + 1
    BY <1>1, <1>10
  <2>2. Len(k) = Len(s) /\ \A i \in 1..Len(k) : k[i] = s[i]
    BY <1>1, <1>8, <2>1
  <2>3. k = s
    BY <1>8, <2>2
  <2> QED BY <1>10, <2>3 DEF k
<1> QED
  BY <1>9, <1>10

(* Filtering keeps keys apart.                                             *)
KeysApart(s) == \A i, j \in 1..Len(s) : s[i].key = s[j].key => i = j

LEMMA WithKeysApart ==
  ASSUME NEW s \in Seq(Item), NEW K, KeysApart(s)
  PROVE  KeysApart(WithKeys(s, K))
<1> DEFINE w == WithKeysUpTo(s, K)
           Good(v, n) == /\ \A i \in 1..Len(v) : \E m \in 1..n : v[i] = s[m]
                         /\ KeysApart(v)
           T == {n \in 0..Len(s) : Good(w[n], n)}
<1>1. Len(s) \in Nat /\ \A n \in 1..Len(s) : s[n] \in Item
  OBVIOUS
<1>2. \A n \in 0..Len(s) : w[n] \in Seq(Item)
  BY WithKeysTyped
<1>3. 0 \in T
  <2>1. w[0] = << >>
    BY WithKeysStep
  <2>2. Good(<< >>, 0)
    BY DEF KeysApart
  <2> HIDE DEF Good
  <2> QED BY <1>1, <2>1, <2>2
<1>4. ASSUME NEW n \in 0..(Len(s) - 1), Good(w[n], n) PROVE Good(w[n + 1], n + 1)
  <2> DEFINE m == n + 1
             u == w[n]
  <2>1. m \in 1..Len(s) /\ m - 1 = n /\ n \in 0..Len(s) /\ m \in 1..m /\ ~(m \in 1..n)
        /\ (\A i \in 1..n : i \in 1..m /\ i \in 1..Len(s))
    BY <1>1
  <2> HIDE DEF m, u
  <2>2. u \in Seq(Item) /\ Good(u, n)
    BY <1>2, <1>4, <2>1 DEF u
  <2> DEFINE v == Append(u, s[m])
             c == Len(u) + 1
  <2>3. Len(v) = c /\ v[c] = s[m] /\ (\A i \in 1..Len(u) : v[i] = u[i])
        /\ (\A i \in 1..c : i \in 1..Len(u) \/ i = c)
    BY <1>1, <2>1, <2>2
  <2>4. w[m] = v \/ w[m] = u
    BY <2>1, WithKeysStep DEF u
  <2> HIDE DEF v, c
  <2>5. Good(u, m)
    <3>1. ASSUME NEW i \in 1..Len(u) PROVE \E j \in 1..m : u[i] = s[j]
      BY <2>1, <2>2
    <3> QED BY <2>2, <3>1
  <2>6. \A i \in 1..Len(u) : u[i].key # s[m].key
    <3> SUFFICES ASSUME NEW i \in 1..Len(u) PROVE u[i].key # s[m].key
      OBVIOUS
    <3>1. PICK j \in 1..n : u[i] = s[j]
      BY <2>2
    <3> QED BY <2>1, <3>1 DEF KeysApart
  <2>7. Good(v, m)
    <3>1. ASSUME NEW i \in 1..Len(v) PROVE \E j \in 1..m : v[i] = s[j]
      <4>1. CASE i = c
        BY <2>1, <2>3, <4>1
      <4>2. CASE i \in 1..Len(u)
        BY <2>3, <2>5, <4>2
      <4> QED BY <2>3, <4>1, <4>2
    <3>2. ASSUME NEW i \in 1..Len(v), NEW j \in 1..Len(v), v[i].key = v[j].key PROVE i = j
      <4>1. CASE i = c /\ j = c
        BY <4>1
      <4>2. CASE i \in 1..Len(u) /\ j \in 1..Len(u)
        BY <2>2, <2>3, <3>2, <4>2 DEF KeysApart
      <4>3. CASE i = c /\ j \in 1..Len(u)
        BY <2>3, <2>6, <3>2, <4>3
      <4>4. CASE i \in 1..Len(u) /\ j = c
        BY <2>3, <2>6, <3>2, <4>4
      <4> QED BY <2>3, <4>1, <4>2, <4>3, <4>4
    <3> QED BY <3>1, <3>2 DEF KeysApart
  <2> HIDE DEF Good
  <2> QED BY <2>4, <2>5, <2>7 DEF m
<1>5. \A n \in 0..(Len(s) - 1) : n \in T => n + 1 \in T
  BY <1>1, <1>4
<1> HIDE DEF T
<1>6. \A n \in 0..Len(s) : n \in T
  BY <1>1, <1>3, <1>5, Upward
<1>7. Good(w[Len(s)], Len(s))
  BY <1>1, <1>6 DEF T
<1> QED
  BY <1>7 DEF WithKeys

(* Two filters that share out the items share out the bytes.               *)
LEMMA BytesShared ==
  ASSUME NEW s \in Seq(Item), NEW K, NEW L,
         \A n \in 1..Len(s) : s[n].key \in K <=> s[n].key \notin L
  PROVE  Bytes(WithKeys(s, K)) + Bytes(WithKeys(s, L)) = Bytes(s)
<1> DEFINE w == WithKeysUpTo(s, K)
           z == WithKeysUpTo(s, L)
           b == BytesUpTo(s)
           T == {n \in 0..Len(s) : Bytes(w[n]) + Bytes(z[n]) = b[n]}
<1>1. Len(s) \in Nat /\ \A n \in 1..Len(s) : s[n] \in Item
  OBVIOUS
<1>2. \A n \in 0..Len(s) : w[n] \in Seq(Item) /\ z[n] \in Seq(Item)
  BY WithKeysTyped
<1>3. b[0] = 0 /\ \A n \in 1..Len(s) : b[n] = b[n - 1] + s[n].size
  BY <1>1, BytesUpToDef
<1>4. 0 \in T
  <2>1. w[0] = << >> /\ z[0] = << >>
    BY WithKeysStep
  <2> HIDE DEF w, z, b
  <2>2. Bytes(w[0]) + Bytes(z[0]) = b[0]
    BY <1>3, <2>1, BytesEmpty
  <2> QED BY <1>1, <2>2
<1>5. ASSUME NEW n \in 0..(Len(s) - 1), Bytes(w[n]) + Bytes(z[n]) = b[n]
      PROVE  Bytes(w[n + 1]) + Bytes(z[n + 1]) = b[n + 1]
  <2> DEFINE m == n + 1
  <2>1. m \in 1..Len(s) /\ m - 1 = n /\ n \in 0..Len(s)
    BY <1>1
  <2> HIDE DEF m
  <2> DEFINE e == s[m]
             x == w[n]
             y == z[n]
  <2>2. e \in Item /\ e.size \in Nat /\ x \in Seq(Item) /\ y \in Seq(Item)
    BY <1>1, <1>2, <2>1, SizesTyped
  <2>3. \/ w[m] = Append(x, e) /\ z[m] = y
        \/ w[m] = x /\ z[m] = Append(y, e)
    BY <2>1, WithKeysStep
  <2>4. b[m] = b[n] + e.size
    BY <1>3, <2>1
  <2>5. Bytes(x) + Bytes(y) = b[n]
    BY <1>5
  <2> HIDE DEF w, z, b, e, x, y
  <2>6. /\ Bytes(Append(x, e)) = Bytes(x) + e.size /\ Bytes(Append(y, e)) = Bytes(y) + e.size
        /\ Bytes(x) \in Nat /\ Bytes(y) \in Nat
    BY <2>2, BytesSnoc, BytesStart
  <2>7. Bytes(w[m]) + Bytes(z[m]) = b[m]
    <3> DEFINE j == Bytes(x)
               k == Bytes(y)
               f == e.size
    <3>1. j \in Nat /\ k \in Nat /\ f \in Nat /\ b[m] = (j + k) + f
      BY <2>2, <2>4, <2>5, <2>6
    <3>2. \/ Bytes(w[m]) = j + f /\ Bytes(z[m]) = k
          \/ Bytes(w[m]) = j /\ Bytes(z[m]) = k + f
      BY <2>3, <2>6
    <3> HIDE DEF j, k, f
    <3>3. (j + f) + k = (j + k) + f /\ j + (k + f) = (j + k) + f
      BY <3>1
    <3> QED BY <3>1, <3>2, <3>3
  <2> QED BY <2>7 DEF m
<1>6. \A n \in 0..(Len(s) - 1) : n \in T => n + 1 \in T
  BY <1>1, <1>5
<1> HIDE DEF T
<1>7. \A n \in 0..Len(s) : n \in T
  BY <1>1, <1>4, <1>6, Upward
<1>8. Bytes(w[Len(s)]) + Bytes(z[Len(s)]) = b[Len(s)]
  BY <1>1, <1>7 DEF T
<1> QED
  BY <1>8 DEF WithKeys, Bytes

-----------------------------------------------------------------------------
(* The operations.  In a sound cache the list, the map and the count say   *)
(* the same: c is a record of the three, as in the model.                  *)

Sound(c) ==
  /\ c.evictList \in Seq(Item)
  /\ KeysApart(c.evictList)
  /\ DOMAIN c.items = {c.evictList[i].key : i \in 1..Len(c.evictList)}
  /\ \A i \in 1..Len(c.evictList) : c.items[c.evictList[i].key] = c.evictList[i]
  /\ c.currentBytes = Bytes(c.evictList)

LEMMA PositionIs ==
  ASSUME NEW s \in Seq(Item), KeysApart(s), NEW p \in 1..Len(s)
  PROVE  PositionOf(s, s[p]) = p
<1>1. DOMAIN s = 1..Len(s)
  OBVIOUS
<1>2. \A i \in DOMAIN s : s[i] = s[p] => i = p
  BY <1>1 DEF KeysApart
<1> QED
  BY <1>1, <1>2 DEF PositionOf

(* An item of the map has its place in the list.                           *)
LEMMA ItemPlaced ==
  ASSUME NEW c, Sound(c), NEW k \in DOMAIN c.items
  PROVE  \E p \in 1..Len(c.evictList) :
           c.items[k] = c.evictList[p] /\ c.evictList[p].key = k
  BY DEF Sound

LEMMA RemoveAtApart ==
  ASSUME NEW s \in Seq(Item), KeysApart(s), NEW p \in 1..Len(s)
  PROVE  /\ KeysApart(RemoveAt(s, p))
         /\ \A i \in 1..Len(RemoveAt(s, p)) :
              \E j \in 1..Len(s) : j # p /\ RemoveAt(s, p)[i] = s[j]
         /\ \A j \in 1..Len(s) :
              j # p => \E i \in 1..Len(RemoveAt(s, p)) : RemoveAt(s, p)[i] = s[j]
<1> DEFINE r == RemoveAt(s, p)
           At(i) == IF i < p THEN i ELSE i + 1
           Of(j) == IF j < p THEN j ELSE j - 1
<1>1. Len(s) \in Nat /\ p \in Nat
  OBVIOUS
<1>2. Len(r) = Len(s) - 1 /\ \A i \in 1..Len(r) : r[i] = s[At(i)]
  <2>1. /\ Len(r) = Len(s) - 1
        /\ \A i \in 1..(p - 1) : r[i] = s[i]
        /\ \A i \in p..(Len(s) - 1) : r[i] = s[i + 1]
    BY RemoveAtIs
  <2> HIDE DEF r
  <2>2. ASSUME NEW i \in 1..Len(r) PROVE r[i] = s[At(i)]
    <3>1. IF i < p THEN i \in 1..(p - 1) ELSE i \in p..(Len(s) - 1)
      BY <1>1, <2>1
    <3> QED BY <2>1, <3>1
  <2> QED BY <2>1, <2>2
<1>3. ASSUME NEW i \in 1..Len(r)
      PROVE  At(i) \in 1..Len(s) /\ At(i) # p /\ \A j \in 1..Len(r) : At(i) = At(j) => i = j
  <2> HIDE DEF r
  <2> QED BY <1>1, <1>2
<1>4. ASSUME NEW j \in 1..Len(s), j # p PROVE Of(j) \in 1..Len(r) /\ At(Of(j)) = j
  <2> HIDE DEF r
  <2> QED BY <1>1, <1>2, <1>4
<1> HIDE DEF r, At, Of
<1>5. KeysApart(r)
  BY <1>2, <1>3 DEF KeysApart
<1>6. \A i \in 1..Len(r) : \E j \in 1..Len(s) : j # p /\ r[i] = s[j]
  BY <1>2, <1>3
<1>7. ASSUME NEW j \in 1..Len(s), j # p PROVE \E i \in 1..Len(r) : r[i] = s[j]
  BY <1>2, <1>4, <1>7
<1> QED
  BY <1>5, <1>6, <1>7 DEF r

(* d is c without the keys of K. *)
Shrunk(c, d, K) ==
  /\ Sound(d)
  /\ DOMAIN d.items = DOMAIN c.items \ K
  /\ \A j \in DOMAIN d.items : d.items[j] = c.items[j]
  /\ Bytes(d.evictList) <= Bytes(c.evictList)

RemovedFrom(c, d, k) ==
  \E p \in 1..Len(c.evictList) :
    c.evictList[p].key = k /\ d.evictList = RemoveAt(c.evictList, p)

LEMMA RemoveSound ==
  ASSUME NEW c, Sound(c), NEW k \in DOMAIN c.items,
         NEW d, d = removeElement(c, c.items[k])
  PROVE  Shrunk(c, d, {k}) /\ RemovedFrom(c, d, k)
<1> DEFINE s == c.evictList
           m == c.items
<1>1. /\ s \in Seq(Item) /\ KeysApart(s) /\ c.currentBytes = Bytes(s)
      /\ DOMAIN m = {s[i].key : i \in 1..Len(s)}
      /\ \A i \in 1..Len(s) : m[s[i].key] = s[i]
  BY DEF Sound
<1>2. PICK p \in 1..Len(s) : m[k] = s[p] /\ s[p].key = k
  BY ItemPlaced
<1> DEFINE r == RemoveAt(s, p)
<1>3. /\ d.items = Restrict(m, DOMAIN m \ {k})
         /\ d.evictList = r
      /\ d.currentBytes = Bytes(s) - s[p].size
  BY <1>1, <1>2, PositionIs DEF removeElement
<1>4. DOMAIN d.items = DOMAIN m \ {k} /\ \A j \in DOMAIN d.items : d.items[j] = m[j]
  BY <1>3 DEF Restrict
<1>5. r \in Seq(Item) /\ Bytes(r) = Bytes(s) - s[p].size
      /\ s[p].size \in Nat /\ Bytes(r) \in Nat /\ Bytes(s) \in Nat
  BY <1>1, RemoveAtIs, BytesRemoveAt, SizesTyped, BytesStart
<1>6. /\ KeysApart(r)
      /\ \A i \in 1..Len(r) : \E j \in 1..Len(s) : j # p /\ r[i] = s[j]
      /\ \A j \in 1..Len(s) : j # p => \E i \in 1..Len(r) : r[i] = s[j]
  BY <1>1, RemoveAtApart
<1> HIDE DEF s, m, r
<1>7. \A j \in 1..Len(s) : s[j].key = k <=> j = p
  BY <1>1, <1>2 DEF KeysApart
<1>8. DOMAIN d.items = {r[i].key : i \in 1..Len(r)}
  <2>1. ASSUME NEW j \in DOMAIN d.items PROVE \E i \in 1..Len(r) : j = r[i].key
    <3>1. PICK n \in 1..Len(s) : j = s[n].key
      BY <1>1, <1>4
    <3>2. n # p
      BY <1>4, <1>7, <3>1
    <3> QED BY <1>6, <3>1, <3>2
  <2>2. ASSUME NEW i \in 1..Len(r) PROVE r[i].key \in DOMAIN d.items
    <3>1. PICK n \in 1..Len(s) : n # p /\ r[i] = s[n]
      BY <1>6
    <3> QED BY <1>1, <1>4, <1>7, <3>1
  <2> QED BY <2>1, <2>2
<1>9. ASSUME NEW i \in 1..Len(r) PROVE d.items[r[i].key] = r[i]
  <2>1. PICK n \in 1..Len(s) : n # p /\ r[i] = s[n]
    BY <1>6
  <2>2. s[n].key \in DOMAIN d.items
    BY <1>8, <2>1
  <2> QED BY <1>1, <1>4, <2>1, <2>2
<1>10. Sound(d)
  <2>1. d.evictList \in Seq(Item) /\ KeysApart(d.evictList) /\ d.currentBytes = Bytes(d.evictList)
    BY <1>3, <1>5, <1>6
  <2>2. /\ DOMAIN d.items = {d.evictList[i].key : i \in 1..Len(d.evictList)}
        /\ \A i \in 1..Len(d.evictList) : d.items[d.evictList[i].key] = d.evictList[i]
    BY <1>3, <1>8, <1>9
  <2> QED BY <2>1, <2>2 DEF Sound
<1>11. Bytes(r) <= Bytes(s)
  BY <1>5
<1> QED
  BY <1>2, <1>3, <1>4, <1>10, <1>11 DEF s, m, r, Shrunk, RemovedFrom

(* Giving up items, from the list and from the map alike.                  *)
FromList(r, s) == \A i \in 1..Len(r) : \E j \in 1..Len(s) : r[i] = s[j]
Indexes(m, r) == DOMAIN m = {r[i].key : i \in 1..Len(r)}
Agrees(m, n) == \A k \in DOMAIN m : m[k] = n[k]

LEMMA SublistSound ==
  ASSUME NEW c, Sound(c), NEW d, d.evictList \in Seq(Item), KeysApart(d.evictList),
         FromList(d.evictList, c.evictList), d.currentBytes = Bytes(d.evictList),
         Indexes(d.items, d.evictList), Agrees(d.items, c.items)
  PROVE  Sound(d)
<1> DEFINE r == d.evictList
<1>1. ASSUME NEW i \in 1..Len(r) PROVE d.items[r[i].key] = r[i]
  <2>1. PICK j \in 1..Len(c.evictList) : r[i] = c.evictList[j]
    BY DEF FromList
  <2>2. c.items[r[i].key] = r[i]
    BY <2>1 DEF Sound
  <2>3. r[i].key \in DOMAIN d.items
    BY DEF Indexes
  <2> QED BY <2>2, <2>3 DEF Agrees
<1> QED
  BY <1>1 DEF Sound, Indexes

(* What is left of the list, and what is gone, when n items stay.          *)
LEMMA SplitAt ==
  ASSUME NEW s \in Seq(Item), NEW n \in 0..Len(s)
  PROVE  /\ Len(SubSeq(s, 1, n)) = n /\ \A i \in 1..n : SubSeq(s, 1, n)[i] = s[i]
         /\ DOMAIN SubSeq(s, n + 1, Len(s)) = 1..(Len(s) - n)
         /\ \A i \in 1..(Len(s) - n) : SubSeq(s, n + 1, Len(s))[i] = s[n + i]
<1>1. Len(s) \in Nat /\ n \in Nat
  OBVIOUS
<1>2. Len(SubSeq(s, 1, n)) = n /\ \A i \in 1..n : SubSeq(s, 1, n)[i] = s[i]
  BY <1>1
<1> DEFINE a == n + 1
<1>3. a \in Nat /\ a = n + 1
  BY <1>1
<1> HIDE DEF a
<1>4. /\ DOMAIN SubSeq(s, a, Len(s)) = 1..(Len(s) - a + 1)
      /\ \A i \in 1..(Len(s) - a + 1) : SubSeq(s, a, Len(s))[i] = s[a + i - 1]
  BY <1>1, <1>3
<1>5. Len(s) - a + 1 = Len(s) - n /\ \A i \in 1..(Len(s) - n) : a + i - 1 = n + i
  BY <1>1, <1>3
<1>6. /\ DOMAIN SubSeq(s, a, Len(s)) = 1..(Len(s) - n)
      /\ \A i \in 1..(Len(s) - n) : SubSeq(s, a, Len(s))[i] = s[n + i]
  BY <1>4, <1>5
<1> QED
  BY <1>2, <1>6 DEF a

(* d is c with only its n hottest items. *)
Evicted(c, d, n) ==
  /\ Sound(d)
  /\ d.evictList = SubSeq(c.evictList, 1, n)
  /\ DOMAIN d.items \subseteq DOMAIN c.items
  /\ \A j \in DOMAIN d.items : d.items[j] = c.items[j]

LEMMA EvictSound ==
  ASSUME NEW c, Sound(c), NEW n \in 0..Len(c.evictList),
         NEW d, d = EvictTo(c, n)
  PROVE  Evicted(c, d, n)
<1> DEFINE s == c.evictList
           m == c.items
           r == SubSeq(s, 1, n)
           gone == SubSeq(s, n + 1, Len(s))
<1>1. /\ s \in Seq(Item) /\ KeysApart(s) /\ c.currentBytes = Bytes(s)
      /\ DOMAIN m = {s[i].key : i \in 1..Len(s)}
      /\ Len(s) \in Nat /\ n \in Nat /\ n <= Len(s)
  BY DEF Sound
<1>2. /\ d.items = Restrict(m, DOMAIN m \ {gone[i].key : i \in DOMAIN gone})
         /\ d.evictList = r
      /\ d.currentBytes = Bytes(s) - Bytes(gone)
  BY <1>1 DEF EvictTo
<1>3. /\ Len(r) = n /\ \A i \in 1..n : r[i] = s[i]
      /\ DOMAIN gone = 1..(Len(s) - n)
      /\ \A i \in 1..(Len(s) - n) : gone[i] = s[n + i]
  BY <1>1, SplitAt
<1>4. /\ r \in Seq(Item) /\ gone \in Seq(Item)
      /\ Bytes(r) + Bytes(gone) = Bytes(s)
      /\ Bytes(r) \in Nat /\ Bytes(gone) \in Nat /\ Bytes(s) \in Nat
  BY <1>1, BytesSplit, BytesStart
<1> HIDE DEF s, m, r, gone
<1>5. d.currentBytes = Bytes(r)
  <2>1. Bytes(s) - Bytes(gone) = Bytes(r)
    BY <1>4
  <2> QED BY <1>2, <2>1
<1>6. DOMAIN d.items = DOMAIN m \ {gone[i].key : i \in DOMAIN gone}
         /\ \A j \in DOMAIN d.items : d.items[j] = m[j]
  BY <1>2 DEF Restrict
<1>7. \A i \in 1..n : i \in 1..Len(s)
  BY <1>1
<1>8. ASSUME NEW j \in 1..Len(s) PROVE s[j].key \in DOMAIN d.items <=> j \in 1..n
  <2>1. CASE j \in 1..n
    <3>1. ASSUME NEW i \in DOMAIN gone, gone[i].key = s[j].key PROVE FALSE
      <4>1. n + i \in 1..Len(s) /\ n + i # j /\ gone[i] = s[n + i]
        BY <1>1, <1>3, <2>1
      <4> QED BY <1>1, <3>1, <4>1 DEF KeysApart
    <3> QED BY <1>1, <1>6, <2>1, <3>1
  <2>2. CASE j \notin 1..n
    <3>1. j - n \in 1..(Len(s) - n) /\ n + (j - n) = j
      BY <1>1, <2>2
    <3>2. gone[j - n] = s[j] /\ j - n \in DOMAIN gone
      BY <1>3, <3>1
    <3> QED BY <1>6, <2>2, <3>2
  <2> QED BY <2>1, <2>2
<1>9. DOMAIN d.items = {r[i].key : i \in 1..Len(r)}
  <2>1. ASSUME NEW k \in DOMAIN d.items PROVE \E i \in 1..Len(r) : k = r[i].key
    <3>1. PICK j \in 1..Len(s) : k = s[j].key
      BY <1>1, <1>6
    <3>2. j \in 1..n
      BY <1>8, <3>1
    <3> QED BY <1>3, <3>1, <3>2
  <2>2. \A i \in 1..Len(r) : r[i].key \in DOMAIN d.items
    BY <1>3, <1>7, <1>8
  <2> QED BY <2>1, <2>2
<1>10. KeysApart(r)
  BY <1>1, <1>3, <1>7 DEF KeysApart
<1>11. \A i \in 1..Len(r) : \E j \in 1..Len(s) : r[i] = s[j]
  BY <1>3, <1>7
<1>12. Sound(d)
  <2>1. d.evictList = r /\ r \in Seq(Item) /\ d.currentBytes = Bytes(r)
    BY <1>2, <1>4, <1>5
  <2>2. FromList(r, s) /\ Indexes(d.items, r) /\ Agrees(d.items, m)
    BY <1>6, <1>9, <1>11 DEF FromList, Indexes, Agrees
  <2> QED BY <1>10, <2>1, <2>2, SublistSound DEF s, m
<1> QED
  BY <1>2, <1>6, <1>12 DEF s, m, r, Evicted

LEMMA WithoutSound ==
  ASSUME NEW c, Sound(c), NEW l,
         NEW d, d = Without(c, l)
  PROVE  Shrunk(c, d, OfLink(l))
<1> DEFINE s == c.evictList
           m == c.items
           L == OfLink(l)
           r == WithKeys(s, Keys \ L)
           gone == WithKeys(s, L)
<1>1. /\ s \in Seq(Item) /\ KeysApart(s) /\ c.currentBytes = Bytes(s)
      /\ DOMAIN m = {s[i].key : i \in 1..Len(s)}
  BY DEF Sound
<1>2. /\ d.items = Restrict(m, DOMAIN m \ L)
         /\ d.evictList = r
      /\ d.currentBytes = Bytes(s) - Bytes(gone)
  BY <1>1 DEF Without
<1>3. \A i \in 1..Len(s) : s[i].key \in Keys
  <2>1. \A i \in 1..Len(s) : s[i] \in Item
    BY <1>1
  <2> QED BY <2>1 DEF Item
<1>4. /\ r \in Seq(Item) /\ Kept(r, s, Keys \ L, Len(s)) /\ KeysApart(r)
      /\ gone \in Seq(Item)
  BY <1>1, WithKeysKept, WithKeysApart
<1>5. Bytes(gone) + Bytes(r) = Bytes(s)
  <2> HIDE DEF L, s
  <2>1. \A i \in 1..Len(s) : s[i].key \in L <=> s[i].key \notin Keys \ L
    BY <1>3
  <2> QED BY <1>1, <2>1, BytesShared
<1>6. Bytes(r) \in Nat /\ Bytes(gone) \in Nat /\ Bytes(s) \in Nat
  BY <1>1, <1>4, BytesStart
<1> HIDE DEF s, m, r, gone, L
<1>7. Bytes(s) - Bytes(gone) = Bytes(r) /\ Bytes(r) <= Bytes(s)
  BY <1>5, <1>6
<1>8. DOMAIN d.items = DOMAIN m \ L /\ \A j \in DOMAIN d.items : d.items[j] = m[j]
  BY <1>2 DEF Restrict
<1>9. DOMAIN d.items = {r[i].key : i \in 1..Len(r)}
  <2>1. ASSUME NEW k \in DOMAIN d.items PROVE \E i \in 1..Len(r) : k = r[i].key
    <3>1. PICK j \in 1..Len(s) : k = s[j].key
      BY <1>1, <1>8
    <3>2. s[j].key \in Keys \ L
      BY <1>3, <1>8, <3>1
    <3> QED BY <1>4, <3>1, <3>2 DEF Kept
  <2>2. ASSUME NEW i \in 1..Len(r) PROVE r[i].key \in DOMAIN d.items
    <3>1. PICK j \in 1..Len(s) : r[i] = s[j] /\ s[j].key \in Keys \ L
      BY <1>4 DEF Kept
    <3> QED BY <1>1, <1>8, <3>1
  <2> QED BY <2>1, <2>2
<1>10. \A i \in 1..Len(r) : \E j \in 1..Len(s) : r[i] = s[j]
  BY <1>4 DEF Kept
<1>11. Sound(d)
  <2>1. d.evictList = r /\ r \in Seq(Item) /\ KeysApart(r) /\ d.currentBytes = Bytes(r)
    BY <1>2, <1>4, <1>7
  <2>2. FromList(r, s) /\ Indexes(d.items, r) /\ Agrees(d.items, m)
    BY <1>8, <1>9, <1>10 DEF FromList, Indexes, Agrees
  <2> QED BY <2>1, <2>2, SublistSound DEF s, m
<1> QED
  BY <1>2, <1>7, <1>8, <1>11 DEF s, m, r, L, Shrunk

LEMMA ConsIs ==
  ASSUME NEW s \in Seq(Item), NEW e \in Item
  PROVE  /\ <<e>> \o s \in Seq(Item) /\ Len(<<e>> \o s) = Len(s) + 1
         /\ (<<e>> \o s)[1] = e
         /\ \A i \in 1..Len(s) : (<<e>> \o s)[i + 1] = s[i]
         /\ \A i \in 1..(Len(s) + 1) : i # 1 => i - 1 \in 1..Len(s) /\ (<<e>> \o s)[i] = s[i - 1]
  OBVIOUS

LEMMA ConsApart ==
  ASSUME NEW s \in Seq(Item), NEW e \in Item, KeysApart(s),
         \A i \in 1..Len(s) : s[i].key # e.key
  PROVE  KeysApart(<<e>> \o s)
<1> DEFINE r == <<e>> \o s
<1>1. /\ Len(r) = Len(s) + 1 /\ r[1] = e /\ Len(s) \in Nat
      /\ \A i \in 1..(Len(s) + 1) : i # 1 => i - 1 \in 1..Len(s) /\ r[i] = s[i - 1]
  BY ConsIs
<1> HIDE DEF r
<1>2. ASSUME NEW i \in 1..Len(r), NEW j \in 1..Len(r), r[i].key = r[j].key PROVE i = j
  <2>1. CASE i = 1 /\ j = 1
    BY <2>1
  <2>2. CASE i = 1 /\ j # 1
    BY <1>1, <1>2, <2>2
  <2>3. CASE i # 1 /\ j = 1
    BY <1>1, <1>2, <2>3
  <2>4. CASE i # 1 /\ j # 1
    <3>1. i - 1 = j - 1
      BY <1>1, <1>2, <2>4 DEF KeysApart
    <3> QED BY <1>1, <3>1
  <2> QED BY <2>1, <2>2, <2>3, <2>4
<1> QED
  BY <1>2 DEF KeysApart, r

(* d is c with e in front. *)
Pushed(c, d, e) ==
  /\ Sound(d)
  /\ d.evictList = <<e>> \o c.evictList
  /\ DOMAIN d.items = DOMAIN c.items \cup {e.key}
  /\ d.items[e.key] = e
  /\ \A j \in DOMAIN c.items : d.items[j] = c.items[j]

LEMMA PushSound ==
  ASSUME NEW c, Sound(c), NEW e \in Item, e.key \notin DOMAIN c.items,
         NEW d, d = PushFront(c, e)
  PROVE  Pushed(c, d, e)
<1> DEFINE s == c.evictList
           m == c.items
           r == <<e>> \o s
<1>1. /\ s \in Seq(Item) /\ KeysApart(s) /\ c.currentBytes = Bytes(s)
      /\ DOMAIN m = {s[i].key : i \in 1..Len(s)}
      /\ \A i \in 1..Len(s) : m[s[i].key] = s[i]
      /\ Len(s) \in Nat /\ e.key \notin DOMAIN m
  BY DEF Sound
<1>2. /\ d.items = [k \in DOMAIN m \cup {e.key} |-> IF k = e.key THEN e ELSE m[k]]
         /\ d.evictList = r
      /\ d.currentBytes = Bytes(s) + e.size
  BY <1>1 DEF PushFront
<1>3. /\ r \in Seq(Item) /\ Len(r) = Len(s) + 1 /\ r[1] = e
      /\ \A i \in 1..Len(s) : r[i + 1] = s[i]
      /\ \A i \in 1..(Len(s) + 1) : i # 1 => i - 1 \in 1..Len(s) /\ r[i] = s[i - 1]
  BY <1>1, ConsIs
<1>4. Bytes(r) = e.size + Bytes(s) /\ Bytes(s) \in Nat /\ e.size \in Nat
  BY <1>1, BytesCons, BytesStart DEF Item
<1>5. \A i \in 1..Len(s) : s[i].key # e.key
  BY <1>1
<1>6. KeysApart(r)
  BY <1>1, <1>5, ConsApart
<1> HIDE DEF s, m, r
<1>7. d.currentBytes = Bytes(r)
  BY <1>2, <1>4
<1>8. /\ DOMAIN d.items = DOMAIN m \cup {e.key} /\ d.items[e.key] = e
      /\ \A j \in DOMAIN m : d.items[j] = m[j]
  BY <1>1, <1>2
<1>9. DOMAIN d.items = {r[i].key : i \in 1..Len(r)}
  <2>1. ASSUME NEW k \in DOMAIN d.items PROVE \E i \in 1..Len(r) : k = r[i].key
    <3>1. CASE k = e.key
      <4>1. 1 \in 1..Len(r)
        BY <1>1, <1>3
      <4> QED BY <1>3, <3>1, <4>1
    <3>2. CASE k \in DOMAIN m
      <4>1. PICK i \in 1..Len(s) : k = s[i].key
        BY <1>1, <3>2
      <4>2. i + 1 \in 1..Len(r)
        BY <1>1, <1>3
      <4> QED BY <1>3, <4>1, <4>2
    <3> QED BY <1>8, <3>1, <3>2
  <2>2. ASSUME NEW i \in 1..Len(r) PROVE r[i].key \in DOMAIN d.items
    <3>1. i # 1 => r[i].key \in DOMAIN m
      BY <1>1, <1>3
    <3> QED BY <1>3, <1>8, <3>1
  <2> QED BY <2>1, <2>2
<1>10. ASSUME NEW i \in 1..Len(r) PROVE d.items[r[i].key] = r[i]
  <2>1. CASE i = 1
    BY <1>3, <1>8, <2>1
  <2>2. CASE i # 1
    <3>1. i - 1 \in 1..Len(s) /\ r[i] = s[i - 1]
      BY <1>3, <2>2
    <3> QED BY <1>1, <1>8, <3>1
  <2> QED BY <2>1, <2>2
<1>11. Sound(d)
  <2>1. d.evictList \in Seq(Item) /\ KeysApart(d.evictList) /\ d.currentBytes = Bytes(d.evictList)
    BY <1>2, <1>3, <1>6, <1>7
  <2>2. /\ DOMAIN d.items = {d.evictList[i].key : i \in 1..Len(d.evictList)}
        /\ \A i \in 1..Len(d.evictList) : d.items[d.evictList[i].key] = d.evictList[i]
    <3>1. d.evictList = r
      BY <1>2
    <3> QED BY <1>9, <1>10, <3>1, Zenon
  <2> QED BY <2>1, <2>2 DEF Sound
<1> QED
  BY <1>2, <1>8, <1>11 DEF s, m, r, Pushed

(* A hit only reorders the list.                                           *)
LEMMA MoveSound ==
  ASSUME NEW c, Sound(c), NEW k \in DOMAIN c.items,
         NEW d, d.items = c.items, d.currentBytes = c.currentBytes,
         d.evictList = MoveToFront(c.evictList, c.items[k])
  PROVE  Sound(d) /\ Bytes(d.evictList) = Bytes(c.evictList)
<1> DEFINE s == c.evictList
           m == c.items
           e == m[k]
<1>1. /\ s \in Seq(Item) /\ KeysApart(s) /\ c.currentBytes = Bytes(s)
      /\ DOMAIN m = {s[i].key : i \in 1..Len(s)}
      /\ \A i \in 1..Len(s) : m[s[i].key] = s[i]
  BY DEF Sound
<1>2. PICK p \in 1..Len(s) : e = s[p] /\ s[p].key = k
  BY ItemPlaced
<1> DEFINE u == RemoveAt(s, p)
           r == <<e>> \o u
<1>3. d.evictList = r
  BY <1>1, <1>2, PositionIs DEF MoveToFront
<1>4. /\ u \in Seq(Item) /\ e \in Item /\ e.size \in Nat
      /\ Bytes(u) = Bytes(s) - e.size /\ Bytes(u) \in Nat /\ Bytes(s) \in Nat
  <2>1. u \in Seq(Item) /\ Bytes(u) = Bytes(s) - s[p].size
    BY <1>1, RemoveAtIs, BytesRemoveAt
  <2>2. s[p] \in Item /\ s[p].size \in Nat
    BY <1>1, SizesTyped
  <2> HIDE DEF u, s, e
  <2> QED BY <1>1, <1>2, <2>1, <2>2, BytesStart
<1>5. /\ KeysApart(u)
      /\ \A i \in 1..Len(u) : \E j \in 1..Len(s) : j # p /\ u[i] = s[j]
      /\ \A j \in 1..Len(s) : j # p => \E i \in 1..Len(u) : u[i] = s[j]
  BY <1>1, RemoveAtApart
<1>6. /\ r \in Seq(Item) /\ Len(r) = Len(u) + 1 /\ r[1] = e
      /\ \A i \in 1..Len(u) : r[i + 1] = u[i]
      /\ \A i \in 1..(Len(u) + 1) : i # 1 => i - 1 \in 1..Len(u) /\ r[i] = u[i - 1]
      /\ Len(u) \in Nat
  BY <1>4, ConsIs
<1>7. Bytes(r) = e.size + Bytes(u)
  BY <1>4, BytesCons
<1> HIDE DEF s, m, e, u, r
<1>8. Bytes(r) = Bytes(s)
  BY <1>4, <1>7
<1>9. \A i \in 1..Len(u) : u[i].key # e.key
  BY <1>1, <1>2, <1>5 DEF KeysApart
<1>10. KeysApart(r)
  BY <1>4, <1>5, <1>9, ConsApart DEF r
<1>11. \A i \in 1..Len(r) : \E j \in 1..Len(s) : r[i] = s[j]
  <2> SUFFICES ASSUME NEW i \in 1..Len(r) PROVE \E j \in 1..Len(s) : r[i] = s[j]
    OBVIOUS
  <2>1. CASE i = 1
    BY <1>2, <1>6, <2>1
  <2>2. CASE i # 1
    <3>1. i - 1 \in 1..Len(u) /\ r[i] = u[i - 1]
      BY <1>6, <2>2
    <3> QED BY <1>5, <3>1
  <2> QED BY <2>1, <2>2
<1>12. \A j \in 1..Len(s) : \E i \in 1..Len(r) : r[i] = s[j]
  <2> SUFFICES ASSUME NEW j \in 1..Len(s) PROVE \E i \in 1..Len(r) : r[i] = s[j]
    OBVIOUS
  <2>1. CASE j = p
    <3>1. 1 \in 1..Len(r)
      BY <1>6
    <3> QED BY <1>2, <1>6, <2>1, <3>1
  <2>2. CASE j # p
    <3>1. PICK i \in 1..Len(u) : u[i] = s[j]
      BY <1>5, <2>2
    <3>2. i + 1 \in 1..Len(r)
      BY <1>6
    <3> QED BY <1>6, <3>1, <3>2
  <2> QED BY <2>1, <2>2
<1>13. DOMAIN m = {r[i].key : i \in 1..Len(r)}
  <2>1. ASSUME NEW j \in DOMAIN m PROVE \E i \in 1..Len(r) : j = r[i].key
    BY <1>1, <1>12
  <2>2. \A i \in 1..Len(r) : r[i].key \in DOMAIN m
    BY <1>1, <1>11
  <2> QED BY <2>1, <2>2
<1>14. d.currentBytes = Bytes(r)
  BY <1>1, <1>8 DEF s
<1>15. Sound(d)
  <2>1. d.evictList = r /\ r \in Seq(Item) /\ d.items = m
    BY <1>3, <1>6 DEF m
  <2>2. FromList(r, s) /\ Indexes(m, r) /\ Agrees(m, m)
    BY <1>11, <1>13 DEF FromList, Indexes, Agrees
  <2> QED BY <1>10, <1>14, <2>1, <2>2, SublistSound DEF s, m
<1> QED
  BY <1>3, <1>8, <1>15 DEF s

LEMMA PurgedSound ==
  ASSUME NEW c
  PROVE  /\ Sound(Purged(c)) /\ DOMAIN Purged(c).items = {} /\ Purged(c).evictList = << >>
<1>1. << >> \in Seq(Item) /\ Len(<< >>) = 0 /\ DOMAIN << >> = {}
  OBVIOUS
<1>2. KeysApart(<< >>)
  BY <1>1 DEF KeysApart
<1> QED
  BY <1>1, <1>2, BytesEmpty DEF Purged, Sound

(* The eviction loop stops at the longest list that leaves room.           *)
LEMMA MaxIs ==
  ASSUME NEW N \in Nat, NEW S, S \subseteq 0..N, 0 \in S
  PROVE  Max(S) \in S /\ \A x \in S : Max(S) >= x
<1> DEFINE Top(n) == \E x \in S : x <= n /\ \A y \in S : y <= n => x >= y
           T == {n \in 0..N : Top(n)}
<1>1. 0 \in T
  OBVIOUS
<1>2. ASSUME NEW n \in 0..(N - 1), Top(n) PROVE Top(n + 1)
  <2>1. CASE n + 1 \in S
    <3>1. \A y \in S : y <= n + 1 => n + 1 >= y
      OBVIOUS
    <3> QED BY <2>1, <3>1
  <2>2. CASE n + 1 \notin S
    <3>1. PICK x \in S : x <= n /\ \A y \in S : y <= n => x >= y
      BY <1>2
    <3>2. \A y \in S : y <= n + 1 => y <= n
      BY <2>2
    <3>3. x <= n + 1
      BY <3>1
    <3> QED BY <3>1, <3>2, <3>3
  <2> QED BY <2>1, <2>2
<1>3. \A n \in 0..(N - 1) : n \in T => n + 1 \in T
  BY <1>2
<1> HIDE DEF T
<1>4. \A n \in 0..N : n \in T
  BY <1>1, <1>3, Upward
<1>5. Top(N)
  <2>1. N \in T
    BY <1>4
  <2> HIDE DEF Top
  <2> QED BY <2>1 DEF T
<1>6. \E x \in S : \A y \in S : x >= y
  BY <1>5
<1> QED
  BY <1>6 DEF Max

LEMMA MaxBytesTyped ==
  ASSUME NEW mb \in Limits
  PROVE  MaxBytes(mb) \in Int
<1> DEFINE a == mb * MB + IntHalf
           b == 2 * IntHalf
<1>1. mb \in Nat /\ MB \in Nat /\ IntHalf \in Nat \ {0}
  BY CacheAssumption
<1>2. mb * MB \in Nat
  BY <1>1
<1>3. a \in Nat /\ b \in Nat \ {0}
  BY <1>1, <1>2
<1> HIDE DEF a, b
<1>4. a % b \in Nat
  BY <1>3
<1>5. (a % b) - IntHalf \in Int
  BY <1>1, <1>4
<1> QED
  BY <1>5 DEF MaxBytes, a, b

(* The n hottest items leave room for one of the given size, and no longer *)
(* list would.                                                             *)
RoomAfter(s, n, size, limit) ==
  /\ Bytes(SubSeq(s, 1, n)) + size <= limit
  /\ n < Len(s) => Bytes(SubSeq(s, 1, n + 1)) + size > limit

LEMMA MakeRoomIs ==
  ASSUME NEW c, Sound(c), NEW size \in Nat, NEW limit \in Int, size <= limit
  PROVE  \E n \in 0..Len(c.evictList) :
           /\ MakeRoom(c, size, limit) = EvictTo(c, n)
           /\ RoomAfter(c.evictList, n, size, limit)
<1> DEFINE s == c.evictList
           S == {0} \cup {n \in 0..Len(s) : Fits(c, size, limit, n)}
           n == Max(S)
<1>1. s \in Seq(Item) /\ Len(s) \in Nat /\ c.currentBytes = Bytes(s)
  BY DEF Sound
<1>2. ASSUME NEW m \in 0..Len(s)
      PROVE  Fits(c, size, limit, m) <=> Bytes(SubSeq(s, 1, m)) + size <= limit
  <2> DEFINE x == Bytes(SubSeq(s, 1, m))
             y == Bytes(SubSeq(s, m + 1, Len(s)))
             z == Bytes(s)
  <2>1. x + y = z /\ x \in Nat /\ y \in Nat /\ z \in Nat
    BY <1>1, BytesSplit, BytesStart
  <2>2. Fits(c, size, limit, m) <=> z - y + size <= limit
    BY <1>1 DEF Fits
  <2> HIDE DEF x, y, z
  <2>3. z - y = x
    BY <2>1
  <2> QED BY <2>2, <2>3 DEF x
<1>3. Bytes(SubSeq(s, 1, 0)) + size <= limit
  <2>1. SubSeq(s, 1, 0) = << >>
    BY <1>1
  <2>2. Bytes(SubSeq(s, 1, 0)) = 0
    BY <2>1, BytesEmpty
  <2> QED BY <2>2
<1> HIDE DEF s
<1>4. S \subseteq 0..Len(s) /\ 0 \in S
  BY <1>1
<1>5. n \in S /\ \A m \in S : n >= m
  <2> HIDE DEF S
  <2> QED BY <1>1, <1>4, MaxIs
<1>6. n \in 0..Len(s)
  BY <1>4, <1>5
<1>7. MakeRoom(c, size, limit) = EvictTo(c, n)
  BY DEF MakeRoom, s
<1> HIDE DEF n
<1>8. Bytes(SubSeq(s, 1, n)) + size <= limit
  BY <1>2, <1>3, <1>5, <1>6
<1>9. ASSUME n < Len(s) PROVE Bytes(SubSeq(s, 1, n + 1)) + size > limit
  <2> DEFINE m == n + 1
  <2>1. m \in 0..Len(s) /\ ~(n >= m)
    BY <1>1, <1>6, <1>9
  <2> HIDE DEF m
  <2>2. m \notin S
    BY <1>5, <2>1
  <2>3. ~(Bytes(SubSeq(s, 1, m)) + size <= limit)
    BY <1>2, <2>1, <2>2
  <2>4. Bytes(SubSeq(s, 1, m)) \in Nat
    BY <1>1, <2>1, BytesSplit, BytesStart
  <2>5. Bytes(SubSeq(s, 1, m)) + size > limit
    BY <2>3, <2>4
  <2> QED BY <2>5 DEF m
<1> QED
  BY <1>6, <1>7, <1>8, <1>9 DEF s, RoomAfter

-----------------------------------------------------------------------------
(* The invariant, and its steps.                                           *)

Inv == TypeOK /\ Sound(cache)

LEMMA BecomeSound ==
  ASSUME NEW d, Sound(d), Become(d)
  PROVE  Sound(cache)'
  BY DEF Sound, Become, cache

LEMMA SoundTyped ==
  ASSUME Sound(cache)
  PROVE  /\ DOMAIN items \subseteq Keys /\ Range(items) \subseteq Item
         /\ evictList \in Seq(Item) /\ currentBytes \in Nat
<1>1. /\ evictList \in Seq(Item) /\ currentBytes = Bytes(evictList)
      /\ DOMAIN items = {evictList[i].key : i \in 1..Len(evictList)}
      /\ \A i \in 1..Len(evictList) : items[evictList[i].key] = evictList[i]
  BY DEF Sound, cache
<1>2. \A i \in 1..Len(evictList) : evictList[i] \in Item
  BY <1>1
<1>3. \A i \in 1..Len(evictList) : evictList[i].key \in Keys
  BY <1>2 DEF Item
<1> QED
  BY <1>1, <1>2, <1>3, BytesStart DEF Range

(* What Put does, in the terms the properties are stated in.               *)
PutKeeps(f, c, e) ==
  /\ Sound(c)
  /\ c.evictList = Others(f)
  /\ DOMAIN c.items = DOMAIN items \ {e.key}
  /\ \A j \in DOMAIN c.items : c.items[j] = items[j]
  /\ Bytes(c.evictList) <= Bytes(evictList)

LEMMA ReplacedKeeps ==
  ASSUME Inv, NEW f \in Fillers, NEW e, e.key = filling[f].key
  PROVE  PutKeeps(f, Replaced(cache, filling[f].key), e)
<1> DEFINE k == filling[f].key
           c == Replaced(cache, k)
           K == Keys \ {k}
<1>1. /\ Sound(cache) /\ evictList \in Seq(Item) /\ Len(evictList) \in Nat
      /\ cache.items = items /\ cache.evictList = evictList
      /\ KeysApart(evictList)
      /\ DOMAIN items = {evictList[i].key : i \in 1..Len(evictList)}
  BY DEF Inv, Sound, cache
<1>2. \A i \in 1..Len(evictList) : evictList[i].key \in Keys
  <2>1. \A i \in 1..Len(evictList) : evictList[i] \in Item
    BY <1>1
  <2> QED BY <2>1 DEF Item
<1> HIDE DEF k
<1>3. CASE k \in DOMAIN items
  <2>1. c = removeElement(cache, items[k])
    BY <1>1, <1>3 DEF Replaced
  <2>2. /\ Sound(c)
        /\ DOMAIN c.items = DOMAIN items \ {k}
        /\ \A j \in DOMAIN c.items : c.items[j] = items[j]
        /\ Bytes(c.evictList) <= Bytes(evictList)
        /\ \E p \in 1..Len(evictList) :
             evictList[p].key = k /\ c.evictList = RemoveAt(evictList, p)
    <3>1. k \in DOMAIN cache.items /\ c = removeElement(cache, cache.items[k])
      BY <1>1, <1>3, <2>1
    <3> HIDE DEF c
    <3>2. Shrunk(cache, c, {k}) /\ RemovedFrom(cache, c, k)
      BY <1>1, <3>1, RemoveSound
    <3> QED BY <1>1, <3>2 DEF Shrunk, RemovedFrom
  <2>3. PICK p \in 1..Len(evictList) :
          evictList[p].key = k /\ c.evictList = RemoveAt(evictList, p)
    BY <2>2
  <2>4. \A n \in 1..Len(evictList) : evictList[n].key \in K <=> n # p
    BY <1>1, <1>2, <2>3 DEF KeysApart
  <2>5. p \in 1..(Len(evictList) + 1)
    BY <1>1
  <2> HIDE DEF K, c
  <2>6. c.evictList = WithKeys(evictList, K)
    BY <1>1, <2>3, <2>4, <2>5, WithKeysButOne
  <2> QED BY <2>2, <2>6 DEF PutKeeps, Others, K, k, c
<1>4. CASE k \notin DOMAIN items
  <2>1. c = cache
    BY <1>1, <1>4 DEF Replaced
  <2> DEFINE p == Len(evictList) + 1
  <2>2. \A n \in 1..Len(evictList) : evictList[n].key \in K <=> n # p
    BY <1>1, <1>2, <1>4
  <2>3. p \in 1..(Len(evictList) + 1) /\ p \notin 1..Len(evictList)
    BY <1>1
  <2> HIDE DEF K, p
  <2>4. evictList = WithKeys(evictList, K)
    BY <1>1, <2>2, <2>3, WithKeysButOne
  <2>5. DOMAIN items = DOMAIN items \ {k}
    BY <1>4
  <2>6. Bytes(evictList) \in Nat
    BY <1>1, BytesStart
  <2>7. Bytes(evictList) <= Bytes(evictList)
    BY <2>6
  <2> HIDE DEF c
  <2> QED BY <1>1, <2>1, <2>4, <2>5, <2>7 DEF PutKeeps, Others, K, k, c
<1> QED
  BY <1>3, <1>4

NewItem(f) == [key |-> filling[f].key, body |-> filling[f].body,
               size |-> SizeOf[filling[f].body], exp |-> now + filling[f].ttl]

Stores(f, c, e, n, d) ==
  /\ Evicted(c, d, n)
  /\ e.size <= MaxBytes(limitMB)
  /\ RoomAfter(c.evictList, n, e.size, MaxBytes(limitMB))
  /\ Sound(PushFront(d, e))
  /\ Pushed(d, PushFront(d, e), e)
  /\ Become(PushFront(d, e))

LEMMA PutStep ==
  ASSUME Inv, NEW f \in Fillers, Put(f)
  PROVE  /\ NewItem(f) \in Item
         /\ \E c : /\ PutKeeps(f, c, NewItem(f))
                   /\ \/ NewItem(f).size > MaxBytes(limitMB) /\ Become(c)
                      \/ \E n \in 0..Len(c.evictList) : \E d : Stores(f, c, NewItem(f), n, d)
<1> DEFINE e == NewItem(f)
           c == Replaced(cache, filling[f].key)
           limit == MaxBytes(limitMB)
<1>1. filling[f] \in Fill /\ now \in Nat /\ limitMB \in Limits
  BY CacheAssumption DEF Inv, TypeOK, Put
<1>2. e \in Item /\ e.size \in Nat /\ e.key = filling[f].key
  <2>1. filling[f].ttl \in Nat /\ SizeOf[filling[f].body] \in Nat
        /\ filling[f].key \in Keys /\ filling[f].body \in Bodies
    BY <1>1, CacheAssumption DEF Fill
  <2>2. now + filling[f].ttl \in Nat
    BY <1>1, <2>1
  <2> QED BY <2>1, <2>2 DEF NewItem, Item
<1>3. limit \in Int
  BY <1>1, MaxBytesTyped
<1>4. PutKeeps(f, c, e)
  BY <1>2, ReplacedKeeps
<1>5. Become(IF e.size > limit THEN c ELSE PushFront(MakeRoom(c, e.size, limit), e))
  BY Zenon DEF Put, NewItem
<1> HIDE DEF e, c, limit
<1>6. CASE e.size > limit
  BY <1>2, <1>4, <1>5, <1>6 DEF e, limit
<1>7. CASE e.size <= limit
  <2>1. ~(e.size > limit)
    BY <1>2, <1>3, <1>7
  <2>2. Become(PushFront(MakeRoom(c, e.size, limit), e))
    BY <1>5, <2>1
  <2>3. Sound(c) /\ e.key \notin DOMAIN c.items
    BY <1>4 DEF PutKeeps
  <2>4. PICK n \in 0..Len(c.evictList) :
          MakeRoom(c, e.size, limit) = EvictTo(c, n) /\ RoomAfter(c.evictList, n, e.size, limit)
    BY <1>2, <1>3, <1>7, <2>3, MakeRoomIs
  <2> DEFINE d == EvictTo(c, n)
  <2>5. Evicted(c, d, n)
    BY <2>3, EvictSound
  <2> HIDE DEF d
  <2>6. Sound(d) /\ e.key \notin DOMAIN d.items
    BY <2>3, <2>5 DEF Evicted
  <2>7. Pushed(d, PushFront(d, e), e)
    BY <1>2, <2>6, PushSound
  <2>8. Sound(PushFront(d, e)) /\ Become(PushFront(d, e))
    BY <2>2, <2>4, <2>7 DEF Pushed, d
  <2>9. Stores(f, c, e, n, d)
    BY <1>7, <2>4, <2>5, <2>7, <2>8 DEF Stores, limit
  <2> QED BY <1>2, <1>4, <2>9 DEF e
<1> QED
  BY <1>2, <1>3, <1>6, <1>7

(* Every step keeps the cache sound, and only a put that finds room makes  *)
(* it larger.                                                              *)
Grows == Bytes(evictList') > Bytes(evictList)
StepKeeps == Sound(cache)' /\ (Grows => Bytes(evictList') <= MaxBytes(limitMB))

LEMMA ShrinkKeeps ==
  ASSUME Inv, NEW d, Sound(d), Become(d), Bytes(d.evictList) <= Bytes(evictList)
  PROVE  StepKeeps
<1>1. Sound(cache)'
  BY BecomeSound
<1>2. Bytes(evictList') \in Nat /\ Bytes(evictList) \in Nat
      /\ Bytes(evictList') <= Bytes(evictList)
  <2>1. evictList \in Seq(Item) /\ d.evictList \in Seq(Item) /\ evictList' = d.evictList
    BY DEF Inv, Sound, cache, Become
  <2> QED BY <2>1, BytesStart
<1>3. ~ Grows
  BY <1>2 DEF Grows
<1> QED
  BY <1>1, <1>3 DEF StepKeeps

LEMMA QuietKeeps ==
  ASSUME Inv, UNCHANGED cacheVars
  PROVE  StepKeeps
<1>1. Sound(cache) /\ Become(cache) /\ cache.evictList = evictList /\ evictList \in Seq(Item)
  BY DEF Inv, Become, cache, cacheVars, Sound
<1>2. Bytes(evictList) \in Nat
  BY <1>1, BytesStart
<1>3. Bytes(evictList) <= Bytes(evictList)
  BY <1>2
<1> QED
  BY <1>1, <1>3, ShrinkKeeps

LEMMA HitKeeps ==
  ASSUME Inv, NEW k \in Keys, Hit(k)
  PROVE  StepKeeps
<1> DEFINE d == [items |-> items, evictList |-> MoveToFront(evictList, items[k]),
                 currentBytes |-> currentBytes]
<1>1. Sound(cache) /\ cache.items = items /\ cache.evictList = evictList
      /\ cache.currentBytes = currentBytes /\ evictList \in Seq(Item)
  BY DEF Inv, cache, Sound
<1>2. /\ k \in DOMAIN cache.items /\ d.items = cache.items
      /\ d.currentBytes = cache.currentBytes
      /\ d.evictList = MoveToFront(cache.evictList, cache.items[k])
  BY <1>1 DEF Hit
<1>3. Become(d)
  BY DEF Hit, Become
<1> HIDE DEF d
<1>4. Sound(d) /\ Bytes(d.evictList) = Bytes(evictList)
  BY <1>1, <1>2, MoveSound
<1>5. Bytes(d.evictList) <= Bytes(evictList)
  BY <1>1, <1>4, BytesStart
<1> QED
  BY <1>3, <1>4, <1>5, ShrinkKeeps

LEMMA RemoveKeeps ==
  ASSUME Inv, NEW k \in DOMAIN items, Become(removeElement(cache, items[k]))
  PROVE  StepKeeps /\ Shrunk(cache, removeElement(cache, items[k]), {k})
<1> DEFINE d == removeElement(cache, items[k])
<1>1. Sound(cache) /\ cache.items = items /\ cache.evictList = evictList
  BY DEF Inv, cache
<1>2. k \in DOMAIN cache.items /\ d = removeElement(cache, cache.items[k])
  BY <1>1
<1> HIDE DEF d
<1>3. Shrunk(cache, d, {k})
  BY <1>1, <1>2, RemoveSound
<1>4. Sound(d) /\ Bytes(d.evictList) <= Bytes(evictList)
  BY <1>1, <1>3 DEF Shrunk
<1>5. StepKeeps
  BY <1>4, ShrinkKeeps DEF d
<1> QED
  BY <1>3, <1>5 DEF d

LEMMA ClearKeeps ==
  ASSUME Inv, NEW l \in Links, ClearLinkCache(l)
  PROVE  StepKeeps /\ Shrunk(cache, Without(cache, l), OfLink(l))
<1>1. Sound(cache) /\ cache.evictList = evictList /\ Become(Without(cache, l))
  BY DEF Inv, cache, ClearLinkCache
<1>2. Shrunk(cache, Without(cache, l), OfLink(l))
  BY <1>1, WithoutSound
<1>3. StepKeeps
  BY <1>1, <1>2, ShrinkKeeps DEF Shrunk
<1> QED
  BY <1>2, <1>3

LEMMA ClearAllKeeps ==
  ASSUME Inv, ClearAll
  PROVE  StepKeeps
<1>1. evictList \in Seq(Item) /\ Become(Purged(cache))
  BY DEF Inv, Sound, cache, ClearAll
<1>2. Sound(Purged(cache)) /\ Bytes(Purged(cache).evictList) <= Bytes(evictList)
  BY <1>1, PurgedSound, BytesEmpty, BytesStart
<1> QED
  BY <1>1, <1>2, ShrinkKeeps

LEMMA PutKeepsSound ==
  ASSUME Inv, NEW f \in Fillers, Put(f)
  PROVE  StepKeeps
<1> DEFINE e == NewItem(f)
<1>1. PICK c : /\ PutKeeps(f, c, e)
               /\ \/ e.size > MaxBytes(limitMB) /\ Become(c)
                  \/ \E n \in 0..Len(c.evictList) : \E d : Stores(f, c, e, n, d)
  BY PutStep
<1>2. e \in Item
  BY PutStep
<1> HIDE DEF e
<1>3. CASE Become(c)
  BY <1>1, <1>3, ShrinkKeeps DEF PutKeeps
<1>4. CASE \E n \in 0..Len(c.evictList) : \E d : Stores(f, c, e, n, d)
  <2>0. PICK n \in 0..Len(c.evictList) : \E d : Stores(f, c, e, n, d)
    BY <1>4
  <2>1. PICK d : Stores(f, c, e, n, d)
    BY <2>0
  <2>2. Sound(cache)'
    BY <2>1, BecomeSound DEF Stores
  <2> DEFINE s == SubSeq(c.evictList, 1, n)
  <2>3. evictList' = <<e>> \o s /\ Sound(d) /\ d.evictList = s
    BY <2>1 DEF Stores, Evicted, Pushed, Become
  <2>4. s \in Seq(Item)
    BY <2>3 DEF Sound
  <2>5. Bytes(s) + e.size <= MaxBytes(limitMB)
    BY <2>1 DEF Stores, RoomAfter
  <2> HIDE DEF s
  <2>6. Bytes(evictList') = e.size + Bytes(s) /\ e.size \in Nat /\ Bytes(s) \in Nat
    BY <1>2, <2>3, <2>4, BytesCons, BytesStart DEF Item
  <2>7. e.size + Bytes(s) = Bytes(s) + e.size
    BY <2>6
  <2> QED BY <2>2, <2>5, <2>6, <2>7 DEF StepKeeps
<1> QED
  BY <1>1, <1>3, <1>4

LEMMA NextKeeps ==
  ASSUME Inv, [Next]_vars
  PROVE  StepKeeps
<1>1. ASSUME NEW k \in Keys, Get(k) PROVE StepKeeps
  <2>1. CASE Hit(k)
    BY <2>1, HitKeeps
  <2>2. CASE GetExpired(k)
    BY <2>2, RemoveKeeps DEF GetExpired
  <2>3. CASE Miss(k)
    BY <2>3, QuietKeeps DEF Miss
  <2> QED BY <1>1, <2>1, <2>2, <2>3 DEF Get
<1>2. ASSUME NEW f \in Fillers, NEW fill \in Fill, CheckEnabled(f, fill) PROVE StepKeeps
  BY <1>2, QuietKeeps DEF CheckEnabled
<1>3. ASSUME NEW f \in Fillers, Put(f) PROVE StepKeeps
  BY <1>3, PutKeepsSound
<1>4. ASSUME NEW k \in Keys, RemoveKey(k) PROVE StepKeeps
  BY <1>4, RemoveKeeps DEF RemoveKey
<1>5. ASSUME NEW l \in Links, ClearLinkCache(l) PROVE StepKeeps
  BY <1>5, ClearKeeps
<1>6. CASE ClearAll
  BY <1>6, ClearAllKeeps
<1>7. ASSUME NEW on \in BOOLEAN, NEW mb \in Limits, UpdateSettings(on, mb) PROVE StepKeeps
  BY <1>7, QuietKeeps DEF UpdateSettings
<1>8. CASE Tick
  BY <1>8, QuietKeeps DEF Tick
<1>9. CASE UNCHANGED vars
  BY <1>9, QuietKeeps DEF vars, cacheVars
<1> QED
  BY <1>1, <1>2, <1>3, <1>4, <1>5, <1>6, <1>7, <1>8, <1>9 DEF Next

-----------------------------------------------------------------------------
LEMMA InitInv == Init => Inv
<1> SUFFICES ASSUME Init PROVE Inv
  OBVIOUS
<1>1. << >> \in Seq(Item) /\ Len(<< >>) = 0 /\ DOMAIN << >> = {}
  OBVIOUS
<1>2. Sound(cache)
  BY <1>1, BytesEmpty DEF Init, cache, Sound, KeysApart
<1>3. enabled \in BOOLEAN /\ limitMB \in Limits /\ now \in 0..MaxTime
  BY CacheAssumption DEF Init
<1>4. filling \in [Fillers -> Fill \cup {Idle}]
  BY DEF Init
<1> QED
  BY <1>2, <1>3, <1>4, SoundTyped DEF Inv, TypeOK

(* What a step does beside the cache. *)
LEMMA NextTyped ==
  ASSUME Inv, [Next]_vars
  PROVE  /\ enabled' \in BOOLEAN /\ limitMB' \in Limits /\ now' \in 0..MaxTime
         /\ filling' \in [Fillers -> Fill \cup {Idle}]
<1> USE DEF Inv, TypeOK, settingVars
<1>1. ASSUME NEW k \in Keys, Get(k)
      PROVE  UNCHANGED <<enabled, limitMB, now, filling>>
  BY <1>1 DEF Get, Hit, GetExpired, Miss
<1>2. ASSUME NEW f \in Fillers, NEW fill \in Fill, CheckEnabled(f, fill)
      PROVE  /\ UNCHANGED <<enabled, limitMB, now>>
             /\ filling' \in [Fillers -> Fill \cup {Idle}]
  BY <1>2 DEF CheckEnabled
<1>3. ASSUME NEW f \in Fillers, Put(f)
      PROVE  /\ UNCHANGED <<enabled, limitMB, now>>
             /\ filling' \in [Fillers -> Fill \cup {Idle}]
  BY <1>3 DEF Put
<1>4. ASSUME NEW k \in Keys, RemoveKey(k)
      PROVE  UNCHANGED <<enabled, limitMB, now, filling>>
  BY <1>4 DEF RemoveKey
<1>5. ASSUME NEW l \in Links, ClearLinkCache(l)
      PROVE  UNCHANGED <<enabled, limitMB, now, filling>>
  BY <1>5 DEF ClearLinkCache
<1>6. ASSUME ClearAll PROVE UNCHANGED <<enabled, limitMB, now, filling>>
  BY <1>6 DEF ClearAll
<1>7. ASSUME NEW on \in BOOLEAN, NEW mb \in Limits, UpdateSettings(on, mb)
      PROVE  enabled' \in BOOLEAN /\ limitMB' \in Limits /\ UNCHANGED <<now, filling>>
  BY <1>7 DEF UpdateSettings
<1>8. ASSUME Tick PROVE UNCHANGED <<enabled, limitMB, filling>> /\ now' \in 0..MaxTime
  BY <1>8, CacheAssumption DEF Tick
<1>9. ASSUME UNCHANGED vars PROVE UNCHANGED <<enabled, limitMB, now, filling>>
  BY <1>9 DEF vars
<1> QED
  BY <1>1, <1>2, <1>3, <1>4, <1>5, <1>6, <1>7, <1>8, <1>9 DEF Next

LEMMA NextInv ==
  ASSUME Inv, [Next]_vars
  PROVE  Inv'
<1>1. Sound(cache)'
  BY NextKeeps DEF StepKeeps
<1>2. (/\ DOMAIN items \subseteq Keys /\ Range(items) \subseteq Item
       /\ evictList \in Seq(Item) /\ currentBytes \in Nat)'
  BY <1>1, SoundTyped, PTL
<1> QED
  BY <1>1, <1>2, NextTyped DEF Inv, TypeOK

LEMMA AlwaysInv == Spec => []Inv
  BY InitInv, NextInv, PTL DEF Spec

(* The variables keep their types after any sequence of gets, puts, clears *)
(* and changes of the settings (cache.go:66-175): whatever the sizes and   *)
(* the limits, the byte count never goes below zero.                       *)
THEOREM TypeCorrect == Spec => []TypeOK
<1>1. Inv => TypeOK
  BY DEF Inv
<1> QED
  BY <1>1, AlwaysInv, PTL

(* The map and the list always hold the same items, one for each key       *)
(* (removeElement, cache.go:163-168, and its callers).                     *)
THEOREM IndexAlwaysMatches == Spec => []IndexMatchesList
<1>1. Inv => IndexMatchesList
  <2> SUFFICES ASSUME Inv PROVE IndexMatchesList
    OBVIOUS
  <2>1. /\ evictList \in Seq(Item) /\ KeysApart(evictList)
        /\ DOMAIN items = {evictList[i].key : i \in 1..Len(evictList)}
        /\ \A i \in 1..Len(evictList) : items[evictList[i].key] = evictList[i]
    BY DEF Inv, Sound, cache
  <2>2. DOMAIN evictList = 1..Len(evictList)
    BY <2>1
  <2>3. {e.key : e \in Range(evictList)} = {evictList[i].key : i \in 1..Len(evictList)}
    BY <2>2 DEF Range
  <2> QED BY <2>1, <2>2, <2>3 DEF IndexMatchesList, KeysApart
<1> QED
  BY <1>1, AlwaysInv, PTL

(* The byte count is always the size of what is cached, so that no order   *)
(* of operations makes the limit drift (currentBytes, cache.go:89-168).    *)
THEOREM BytesAlwaysAccounted == Spec => []BytesAccounted
<1>1. Inv => BytesAccounted
  BY DEF Inv, Sound, cache, BytesAccounted
<1> QED
  BY <1>1, AlwaysInv, PTL

(* A step that makes the cache larger leaves it within the limit in force, *)
(* for any sizes, and for a limit that was lowered below what is cached    *)
(* (Put, cache.go:89-128).                                                 *)
THEOREM GrowthStaysWithinLimit == Spec => GrowsWithinLimit
<1>1. Inv /\ [Next]_vars =>
        [Bytes(evictList') > Bytes(evictList) => Bytes(evictList') <= MaxBytes(limitMB)]_vars
  BY NextKeeps DEF StepKeeps, Grows
<1> QED
  BY <1>1, AlwaysInv, PTL DEF Spec, GrowsWithinLimit

-----------------------------------------------------------------------------
(* What a put gives up.                                                    *)

(* A list and its n first items, and what the next one weighs.             *)
LEMMA PrefixIs ==
  ASSUME NEW s \in Seq(Item), NEW n \in 0..Len(s)
  PROVE  /\ IsPrefix(SubSeq(s, 1, n), s) /\ Len(SubSeq(s, 1, n)) = n
         /\ n < Len(s) => Bytes(SubSeq(s, 1, n + 1)) = Bytes(SubSeq(s, 1, n)) + s[n + 1].size
<1> DEFINE r == SubSeq(s, 1, n)
<1>1. Len(s) \in Nat /\ n \in Nat /\ n <= Len(s)
  OBVIOUS
<1>2. r \in Seq(Item) /\ Len(r) = n /\ \A i \in 1..n : r[i] = s[i]
  BY <1>1
<1>3. SubSeq(r, 1, n) = r
  <2> HIDE DEF r
  <2> QED BY <1>1, <1>2
<1>4. IsPrefix(r, s)
  BY <1>1, <1>2, <1>3 DEF IsPrefix
<1>5. ASSUME n < Len(s) PROVE Bytes(SubSeq(s, 1, n + 1)) = Bytes(r) + s[n + 1].size
  <2> DEFINE m == n + 1
             q == SubSeq(s, 1, m)
  <2>1. m \in 0..Len(s) /\ m \in 1..Len(s) /\ m \in Nat /\ n + 1 = m
    BY <1>1, <1>5
  <2> HIDE DEF m
  <2>2. q \in Seq(Item) /\ Len(q) = m /\ \A i \in 1..m : q[i] = s[i]
    BY <1>1, <2>1
  <2> HIDE DEF q
  <2>3. Append(r, s[m]) = q
    <3>1. s[m] \in Item
      BY <2>1
    <3> HIDE DEF r
    <3>2. /\ Append(r, s[m]) \in Seq(Item) /\ Len(Append(r, s[m])) = m
          /\ \A i \in 1..n : Append(r, s[m])[i] = s[i]
          /\ Append(r, s[m])[m] = s[m]
      BY <1>2, <2>1, <3>1
    <3>3. \A i \in 1..m : i \in 1..n \/ i = m
      BY <1>1, <2>1
    <3>4. \A i \in 1..m : Append(r, s[m])[i] = q[i]
      BY <2>2, <3>2, <3>3
    <3> QED BY <2>2, <3>2, <3>4
  <2>4. s[m] \in Item
    BY <2>1
  <2>5. Bytes(q) = Bytes(r) + s[m].size
    BY <1>2, <2>3, <2>4, BytesSnoc
  <2> QED BY <2>5 DEF m, q
<1> QED
  BY <1>2, <1>4, <1>5

LEMMA TailIs ==
  ASSUME NEW s \in Seq(Item), NEW e \in Item
  PROVE  Tail(<<e>> \o s) = s
<1> DEFINE r == <<e>> \o s
<1>1. /\ r \in Seq(Item) /\ Len(r) = Len(s) + 1 /\ Len(s) \in Nat
      /\ \A i \in 1..Len(s) : r[i + 1] = s[i]
  BY ConsIs
<1> HIDE DEF r
<1>2. /\ Tail(r) \in Seq(Item) /\ Len(Tail(r)) = Len(s)
      /\ \A i \in 1..Len(s) : Tail(r)[i] = s[i]
  BY <1>1
<1>3. Tail(r) = s
  BY <1>2
<1> QED
  BY <1>3 DEF r

(* Only its own put ends a filler's call. *)
LEMMA PutEnds ==
  ASSUME Inv, Next, NEW f \in Fillers, filling[f] # Idle, filling'[f] = Idle
  PROVE  Put(f)
<1> USE DEF Inv, TypeOK
<1>1. ASSUME NEW k \in Keys, Get(k) PROVE FALSE
  BY <1>1 DEF Get, Hit, GetExpired, Miss
<1>2. ASSUME NEW g \in Fillers, NEW fill \in Fill, CheckEnabled(g, fill) PROVE FALSE
  BY <1>2 DEF CheckEnabled
<1>3. ASSUME NEW g \in Fillers, Put(g) PROVE g = f
  BY <1>3 DEF Put
<1>4. ASSUME NEW k \in Keys, RemoveKey(k) PROVE FALSE
  BY <1>4 DEF RemoveKey
<1>5. ASSUME NEW l \in Links, ClearLinkCache(l) PROVE FALSE
  BY <1>5 DEF ClearLinkCache
<1>6. ~ ClearAll
  BY DEF ClearAll
<1>7. ASSUME NEW on \in BOOLEAN, NEW mb \in Limits, UpdateSettings(on, mb) PROVE FALSE
  BY <1>7 DEF UpdateSettings
<1>8. ~ Tick
  BY DEF Tick
<1> QED
  BY <1>1, <1>2, <1>3, <1>4, <1>5, <1>6, <1>7, <1>8 DEF Next

ColdEndOnly(f) ==
  LET stored == SizeOf[filling[f].body] <= MaxBytes(limitMB)
      kept == IF stored THEN Tail(evictList') ELSE evictList'
  IN /\ IsPrefix(kept, Others(f))
     /\ Len(kept) < Len(Others(f)) =>
          /\ stored
          /\ Bytes(evictList') + Others(f)[Len(kept) + 1].size > MaxBytes(limitMB)

LEMMA PutKeepsColdEnd ==
  ASSUME Inv, NEW f \in Fillers, Put(f)
  PROVE  ColdEndOnly(f)
<1> DEFINE e == NewItem(f)
           limit == MaxBytes(limitMB)
           o == Others(f)
<1>1. PICK c : /\ PutKeeps(f, c, e)
               /\ \/ e.size > limit /\ Become(c)
                  \/ \E n \in 0..Len(c.evictList) : \E d : Stores(f, c, e, n, d)
  BY PutStep
<1>2. e \in Item /\ e.size \in Nat /\ e.size = SizeOf[filling[f].body]
  BY PutStep DEF Item, NewItem
<1>3. limit \in Int
  BY MaxBytesTyped DEF Inv, TypeOK
<1>4. c.evictList = o /\ o \in Seq(Item)
  BY <1>1 DEF PutKeeps, Sound
<1> HIDE DEF e, limit, o
<1>5. CASE e.size > limit /\ Become(c)
  <2>1. evictList' = o /\ ~(e.size <= limit)
    BY <1>2, <1>3, <1>4, <1>5 DEF Become
  <2>2. IsPrefix(o, o) /\ ~(Len(o) < Len(o))
    BY <1>4 DEF IsPrefix
  <2> QED BY <1>2, <2>1, <2>2 DEF ColdEndOnly, o, limit
<1>6. CASE \E n \in 0..Len(c.evictList) : \E d : Stores(f, c, e, n, d)
  <2>0. PICK n \in 0..Len(o) : \E d : Stores(f, c, e, n, d)
    BY <1>4, <1>6
  <2>1. PICK d : Stores(f, c, e, n, d)
    BY <2>0
  <2> DEFINE r == SubSeq(o, 1, n)
  <2>2. /\ evictList' = <<e>> \o r /\ Sound(d) /\ d.evictList = r
        /\ e.size <= limit /\ RoomAfter(o, n, e.size, limit)
    BY <1>4, <2>1 DEF Stores, Evicted, Pushed, Become, limit
  <2>3. /\ r \in Seq(Item) /\ IsPrefix(r, o) /\ Len(r) = n
        /\ n < Len(o) => Bytes(SubSeq(o, 1, n + 1)) = Bytes(r) + o[n + 1].size
    BY <1>4, <2>2, PrefixIs DEF Sound
  <2> HIDE DEF r
  <2>4. Tail(evictList') = r /\ Bytes(evictList') = e.size + Bytes(r) /\ Bytes(r) \in Nat
    BY <1>2, <2>2, <2>3, TailIs, BytesCons, BytesStart
  <2>5. ASSUME n < Len(o) PROVE Bytes(evictList') + o[n + 1].size > limit
    <3> DEFINE m == n + 1
               x == Bytes(r)
               y == o[m].size
    <3>1. m \in 1..Len(o)
      BY <1>4, <2>5
    <3>2. Bytes(SubSeq(o, 1, m)) = x + y /\ Bytes(SubSeq(o, 1, m)) + e.size > limit
      BY <2>2, <2>3, <2>5 DEF RoomAfter
    <3> HIDE DEF m
    <3>3. y \in Nat
      BY <1>4, <3>1, SizesTyped
    <3> HIDE DEF x, y
    <3>4. x \in Nat /\ Bytes(evictList') = e.size + x
      BY <2>4 DEF x
    <3>5. (x + y) + e.size = (e.size + x) + y
      BY <1>2, <3>3, <3>4
    <3>6. Bytes(evictList') + y > limit
      BY <3>2, <3>4, <3>5
    <3> QED BY <3>6 DEF y, m
  <2> QED BY <1>2, <2>2, <2>3, <2>4, <2>5 DEF ColdEndOnly, o, limit
<1> QED
  BY <1>1, <1>5, <1>6

(* A put gives up items at the cold end only, and none that would have     *)
(* fitted beside the new one (evictOldest, cache.go:170-175).              *)
THEOREM ColdEndGivenUp == Spec => EvictsColdEndOnly
<1>1. ASSUME Inv, [Next]_vars
      PROVE  [\A f \in Fillers : filling[f] # Idle /\ filling'[f] = Idle => ColdEndOnly(f)]_vars
  BY <1>1, PutEnds, PutKeepsColdEnd
<1> QED
  BY <1>1, AlwaysInv, PTL DEF Spec, EvictsColdEndOnly, ColdEndOnly

-----------------------------------------------------------------------------
(* The cache is a volatile store: what it remembers is what its map holds. *)

Remembered(m) == [k \in DOMAIN m |-> [body |-> m[k].body, exp |-> m[k].exp]]

ContentsOf(s) ==
  [k \in {e.key : e \in Range(s)} |->
     LET e == s[Min({i \in DOMAIN s : s[i].key = k})]
     IN [body |-> e.body, exp |-> e.exp]]

LEMMA ContentsAre ==
  ASSUME NEW c, Sound(c)
  PROVE  ContentsOf(c.evictList) = Remembered(c.items)
<1> DEFINE s == c.evictList
           m == c.items
           At(k) == {i \in DOMAIN s : s[i].key = k}
<1>1. /\ s \in Seq(Item) /\ KeysApart(s) /\ DOMAIN s = 1..Len(s) /\ Len(s) \in Nat
      /\ DOMAIN m = {s[i].key : i \in 1..Len(s)}
      /\ \A i \in 1..Len(s) : m[s[i].key] = s[i]
  BY DEF Sound
<1> HIDE DEF s, m
<1>2. {e.key : e \in Range(s)} = DOMAIN m
  BY <1>1 DEF Range
<1>3. ASSUME NEW k \in DOMAIN m PROVE s[Min(At(k))] = m[k]
  <2>1. PICK p \in 1..Len(s) : s[p].key = k /\ m[k] = s[p]
    BY <1>1
  <2>2. At(k) = {p}
    BY <1>1, <2>1 DEF KeysApart
  <2>3. Min({p}) = p
    BY <1>1 DEF Min
  <2> QED BY <2>1, <2>2, <2>3
<1>4. ContentsOf(s) = [k \in DOMAIN m |-> [body |-> s[Min(At(k))].body, exp |-> s[Min(At(k))].exp]]
  BY <1>2 DEF ContentsOf
<1> HIDE DEF At
<1>5. ContentsOf(s) = Remembered(m)
  BY <1>3, <1>4 DEF Remembered
<1> QED
  BY <1>5 DEF s, m

LEMMA ContentsNow ==
  ASSUME Sound(cache)
  PROVE  Contents = Remembered(items)
<1>1. ContentsOf(cache.evictList) = Remembered(cache.items)
  BY ContentsAre
<1>2. cache.evictList = evictList /\ cache.items = items
  BY DEF cache
<1> QED
  BY <1>1, <1>2 DEF Contents, ContentsOf

LEMMA ContentsNext ==
  ASSUME Sound(cache)'
  PROVE  Contents' = Remembered(items')
<1>1. (Contents = Remembered(items))'
  BY ContentsNow, PTL
<1> QED
  BY <1>1

(* Forgetting keys, and no more, is what the store allows at any step.     *)
Forgets(n, m) == DOMAIN n \subseteq DOMAIN m /\ \A k \in DOMAIN n : n[k] = m[k]

LEMMA ForgetsIsRestriction ==
  ASSUME NEW m, NEW n, Forgets(n, m)
  PROVE  IsRestriction(Remembered(n), Remembered(m))
<1>1. DOMAIN Remembered(n) = DOMAIN n /\ DOMAIN Remembered(m) = DOMAIN m
  BY DEF Remembered
<1>2. ASSUME NEW k \in DOMAIN n PROVE Remembered(n)[k] = Remembered(m)[k]
  BY DEF Forgets, Remembered
<1> QED
  BY <1>1, <1>2 DEF IsRestriction, Forgets

StoreStep == [Store!Next]_(Store!vars)

LEMMA MissStep ==
  ASSUME Inv, Inv', answer' = NoAnswer, now' = now, Forgets(items', items)
  PROVE  StoreStep
<1>1. Contents = Remembered(items) /\ Contents' = Remembered(items')
  BY ContentsNow, ContentsNext DEF Inv
<1>2. Store!Miss
  BY <1>1, ForgetsIsRestriction DEF Store!Miss, Store!IsRestriction, IsRestriction
<1> QED
  BY <1>2 DEF StoreStep, Store!Next

LEMMA StutterStep ==
  ASSUME UNCHANGED <<evictList, now, answer>>
  PROVE  StoreStep
<1>1. UNCHANGED Contents
  BY DEF Contents
<1> QED
  BY <1>1 DEF StoreStep, Store!vars

LEMMA EmptyIs ==
  ASSUME NEW m, DOMAIN m = {}
  PROVE  Remembered(m) = << >>
<1>1. Remembered(m) = [k \in {} |-> [body |-> m[k].body, exp |-> m[k].exp]]
  BY DEF Remembered
<1> QED
  BY <1>1

LEMMA InitStore == Init => Store!Init
<1> SUFFICES ASSUME Init PROVE Store!Init
  OBVIOUS
<1>1. Contents = Remembered(items)
  BY InitInv, ContentsNow DEF Inv
<1>2. DOMAIN items = {}
  BY DEF Init
<1> QED
  BY <1>1, <1>2, EmptyIs DEF Init, Store!Init

LEMMA HitStep ==
  ASSUME Inv, Inv', NEW k \in Keys, Hit(k)
  PROVE  StoreStep
<1>1. Contents = Remembered(items) /\ Contents' = Remembered(items)
  BY ContentsNow, ContentsNext DEF Inv, Hit
<1>2. k \in DOMAIN items /\ items[k] \in Item /\ now \in Nat
  BY CacheAssumption DEF Inv, TypeOK, Hit, Range
<1>3. k \in DOMAIN Contents /\ Contents[k] = [body |-> items[k].body, exp |-> items[k].exp]
  BY <1>1, <1>2 DEF Remembered
<1>4. now <= items[k].exp
  <2>1. items[k].exp \in Nat
    BY <1>2 DEF Item
  <2>2. ~(now > items[k].exp)
    BY DEF Hit, Expired
  <2> QED BY <1>2, <2>1, <2>2
<1>5. Store!Live(Contents[k])
  BY <1>3, <1>4 DEF Store!Live
<1>6. Forgets(items, items)
  BY DEF Forgets
<1>7. Store!Hit(k)
  BY <1>1, <1>3, <1>5, <1>6, ForgetsIsRestriction DEF Store!Hit, Store!IsRestriction,
    IsRestriction, Hit
<1> QED
  BY <1>7 DEF StoreStep, Store!Next

LEMMA RemoveStep ==
  ASSUME Inv, Inv', NEW k \in DOMAIN items, Become(removeElement(cache, items[k])),
         answer' = NoAnswer, now' = now
  PROVE  StoreStep
<1>1. Shrunk(cache, removeElement(cache, items[k]), {k}) /\ cache.items = items
  BY RemoveKeeps DEF cache
<1>2. Forgets(items', items)
  BY <1>1 DEF Shrunk, Become, Forgets
<1> QED
  BY <1>2, MissStep

LEMMA PutStoreStep ==
  ASSUME Inv, Inv', NEW f \in Fillers, Put(f)
  PROVE  StoreStep
<1> DEFINE e == NewItem(f)
           k == e.key
<1>1. PICK c : /\ PutKeeps(f, c, e)
               /\ \/ e.size > MaxBytes(limitMB) /\ Become(c)
                  \/ \E n \in 0..Len(c.evictList) : \E d : Stores(f, c, e, n, d)
  BY PutStep
<1>2. Contents = Remembered(items) /\ Contents' = Remembered(items')
  BY ContentsNow, ContentsNext DEF Inv
<1>3. /\ k = filling[f].key /\ e.body = filling[f].body /\ e.exp = now + filling[f].ttl
      /\ filling[f] \in Fill /\ answer' = NoAnswer /\ now' = now
  BY DEF Inv, TypeOK, Put, NewItem
<1>4. k \in Keys /\ e.body \in Bodies /\ filling[f].ttl \in TTLs
  BY <1>3 DEF Fill
<1> HIDE DEF e, k
<1>5. /\ \A j \in DOMAIN items' : j # k => j \in DOMAIN items /\ items'[j] = items[j]
      /\ k \in DOMAIN items' => items'[k] = e
  <2>1. DOMAIN c.items = DOMAIN items \ {k} /\ \A j \in DOMAIN c.items : c.items[j] = items[j]
    BY <1>1 DEF PutKeeps, k
  <2>2. CASE Become(c)
    BY <2>1, <2>2 DEF Become
  <2>3. CASE \E n \in 0..Len(c.evictList) : \E d : Stores(f, c, e, n, d)
    <3>0. PICK n \in 0..Len(c.evictList) : \E d : Stores(f, c, e, n, d)
      BY <2>3
    <3>1. PICK d : Stores(f, c, e, n, d)
      BY <3>0
    <3>2. /\ DOMAIN d.items \subseteq DOMAIN c.items
          /\ \A j \in DOMAIN d.items : d.items[j] = c.items[j]
      BY <3>1 DEF Stores, Evicted
    <3>3. /\ DOMAIN items' = DOMAIN d.items \cup {k} /\ items'[k] = e
          /\ \A j \in DOMAIN d.items : items'[j] = d.items[j]
      BY <3>1 DEF Stores, Pushed, Become, k
    <3> QED BY <2>1, <3>2, <3>3
  <2> QED BY <1>1, <2>2, <2>3
<1> DEFINE R == Restrict(Contents', DOMAIN Contents' \ {k})
<1>6. IsRestriction(R, Contents)
  <2>1. DOMAIN Contents = DOMAIN items /\ DOMAIN Contents' = DOMAIN items'
    BY <1>2 DEF Remembered
  <2>2. ASSUME NEW j \in DOMAIN items' \ {k} PROVE Contents'[j] = Contents[j]
    BY <1>2, <1>5 DEF Remembered
  <2>3. DOMAIN R = DOMAIN items' \ {k} /\ \A j \in DOMAIN R : R[j] = Contents'[j]
    BY <2>1 DEF Restrict
  <2> HIDE DEF R
  <2> QED BY <1>5, <2>1, <2>2, <2>3 DEF IsRestriction
<1>7. k \in DOMAIN Contents' => Contents'[k] = [body |-> e.body, exp |-> e.exp]
  BY <1>2, <1>5 DEF Remembered
<1>8. Store!Put(k, e.body, filling[f].ttl)
  BY <1>3, <1>6, <1>7 DEF Store!Put, Store!IsRestriction, Store!Restrict, IsRestriction, Restrict
<1> QED
  BY <1>4, <1>8 DEF StoreStep, Store!Next

LEMMA ClearStep ==
  ASSUME Inv, Inv', NEW l \in Links, ClearLinkCache(l)
  PROVE  StoreStep
<1>1. Contents = Remembered(items) /\ Contents' = Remembered(items')
  BY ContentsNow, ContentsNext DEF Inv
<1>2. Shrunk(cache, Without(cache, l), OfLink(l)) /\ cache.items = items
      /\ items' = Without(cache, l).items
  BY ClearKeeps DEF cache, ClearLinkCache, Become
<1>3. Forgets(items', items) /\ DOMAIN items' = DOMAIN items \ OfLink(l)
  BY <1>2 DEF Shrunk, Forgets
<1>4. DOMAIN Contents' = DOMAIN items'
  BY <1>1 DEF Remembered
<1>5. DOMAIN Contents' \cap OfLink(l) = {}
  BY <1>3, <1>4
<1>6. Store!ClearLink(l)
  BY <1>1, <1>3, <1>5, ForgetsIsRestriction DEF Store!ClearLink, Store!IsRestriction,
    IsRestriction, Store!OfLink, OfLink, ClearLinkCache
<1> QED
  BY <1>6 DEF StoreStep, Store!Next

LEMMA ClearAllStep ==
  ASSUME Inv, Inv', ClearAll
  PROVE  StoreStep
<1>1. Contents' = Remembered(items')
  BY ContentsNext DEF Inv
<1>2. DOMAIN items' = {}
  BY PurgedSound DEF ClearAll, Become
<1>3. Store!ClearAll
  BY <1>1, <1>2, EmptyIs DEF Store!ClearAll, ClearAll
<1> QED
  BY <1>3 DEF StoreStep, Store!Next

LEMMA NextStore ==
  ASSUME Inv, Inv', [Next]_vars
  PROVE  StoreStep
<1>1. ASSUME NEW k \in Keys, Get(k) PROVE StoreStep
  <2>1. CASE Hit(k)
    BY <2>1, HitStep
  <2>2. CASE GetExpired(k)
    BY <2>2, RemoveStep DEF GetExpired
  <2>3. CASE Miss(k)
    BY <2>3, MissStep DEF Miss, cacheVars, Forgets
  <2> QED BY <1>1, <2>1, <2>2, <2>3 DEF Get
<1>2. ASSUME NEW f \in Fillers, NEW fill \in Fill, CheckEnabled(f, fill) PROVE StoreStep
  BY <1>2, StutterStep DEF CheckEnabled, cacheVars
<1>3. ASSUME NEW f \in Fillers, Put(f) PROVE StoreStep
  BY <1>3, PutStoreStep
<1>4. ASSUME NEW k \in Keys, RemoveKey(k) PROVE StoreStep
  BY <1>4, RemoveStep DEF RemoveKey
<1>5. ASSUME NEW l \in Links, ClearLinkCache(l) PROVE StoreStep
  BY <1>5, ClearStep
<1>6. CASE ClearAll
  BY <1>6, ClearAllStep
<1>7. ASSUME NEW on \in BOOLEAN, NEW mb \in Limits, UpdateSettings(on, mb) PROVE StoreStep
  BY <1>7, StutterStep DEF UpdateSettings, cacheVars
<1>8. CASE Tick
  <2>1. UNCHANGED Contents
    BY <1>8 DEF Tick, cacheVars, Contents
  <2>2. Store!Tick
    BY <1>8, <2>1 DEF Tick, Store!Tick
  <2> QED BY <2>2 DEF StoreStep, Store!Next
<1>9. CASE UNCHANGED vars
  BY <1>9, StutterStep DEF vars, cacheVars
<1> QED
  BY <1>1, <1>2, <1>3, <1>4, <1>5, <1>6, <1>7, <1>8, <1>9 DEF Next

(* The cache implements the volatile store the proxy relies on: a lookup   *)
(* answers with nothing but the entry last put under the key, unexpired    *)
(* and not cleared since (Get, Put, ClearLinkCache, cache.go:66-161).      *)
THEOREM CacheIsVolatileStore == Spec => ImplementsVolatileStore
<1>1. Inv /\ Inv' /\ [Next]_vars => StoreStep
  BY NextStore
<1> QED
  BY <1>1, InitStore, AlwaysInv, PTL DEF Spec, StoreStep, ImplementsVolatileStore, Store!Spec
=============================================================================
