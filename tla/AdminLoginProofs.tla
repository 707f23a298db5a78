--------------------------- MODULE AdminLoginProofs ---------------------------
(***************************************************************************)
(* Proofs about AdminLogin for every number of requests, clients and       *)
(* passwords, and every limit and window.                                  *)
(***************************************************************************)
EXTENDS AdminLogin, FiniteSetTheorems, SequenceTheorems, WellFoundedInduction, TLAPS

(* The window                                                              *)

LEMMA LeastNatural ==
  ASSUME NEW T \in SUBSET Nat, T # {}
  PROVE  \E n \in T : \A m \in T : n <= m
<1> DEFINE R == OpToRel(<, Nat)
<1>1. \A m, n \in Nat : <<m, n>> \in R <=> m < n
  BY DEF OpToRel
<1>2. IsWellFoundedOn(R, Nat)
  BY NatLessThanWellFounded
<1> HIDE DEF R
<1>3. PICK n \in T : \A m \in T : ~(<<m, n>> \in R)
  BY <1>2, WFMin
<1>4. ASSUME NEW m \in T PROVE n <= m
  <2>1. m \in Nat /\ n \in Nat /\ ~(<<m, n>> \in R)
    BY <1>3
  <2>2. ~(m < n)
    BY <1>1, <2>1
  <2> QED BY <2>1, <2>2
<1> QED
  BY <1>4

(* What holds at 0 and passes from each position to the next holds at all  *)
(* of them.                                                                *)
LEMMA Upward ==
  ASSUME NEW m \in Nat, NEW T, 0 \in T,
         \A n \in 0..(m - 1) : n \in T => n + 1 \in T
  PROVE  \A n \in 0..m : n \in T
<1> SUFFICES ASSUME NEW b \in 0..m, b \notin T PROVE FALSE
  OBVIOUS
<1> DEFINE bad == {n \in 0..m : n \notin T}
<1>1. bad \in SUBSET Nat /\ b \in bad
  OBVIOUS
<1> HIDE DEF bad
<1>2. PICK n \in bad : \A k \in bad : n <= k
  BY <1>1, LeastNatural
<1>3. n \in 0..m /\ n \notin T /\ n # 0
  BY <1>2 DEF bad
<1>4. n - 1 \in 0..(m - 1) /\ n - 1 \in 0..m /\ n - 1 \notin bad
  BY <1>1, <1>2, <1>3
<1>5. n - 1 \in T
  BY <1>4 DEF bad
<1>6. (n - 1) + 1 \in T
  BY <1>4, <1>5
<1> QED
  BY <1>3, <1>6

(* The loop's equation: there is a function that satisfies it, so that the *)
(* one PrunedUpTo chooses does.                                          *)
LEMMA PrunedUpToDef ==
  ASSUME NEW s, Len(s) \in Nat
  PROVE  PrunedUpTo(s) = [n \in 0..Len(s) |->
           IF n = 0 THEN << >>
           ELSE IF s[n] < Window THEN Append(PrunedUpTo(s)[n - 1], s[n])
                ELSE PrunedUpTo(s)[n - 1]]
<1> DEFINE Keeps(f, m) ==
             f = [n \in 0..m |->
                    IF n = 0 THEN << >>
                    ELSE IF s[n] < Window THEN Append(f[n - 1], s[n]) ELSE f[n - 1]]
           T == {m \in 0..Len(s) : \E f : Keeps(f, m)}
<1>1. Keeps([n \in 0..0 |-> << >>], 0)
  OBVIOUS
<1>2. ASSUME NEW m \in 0..(Len(s) - 1), NEW f, Keeps(f, m) PROVE \E g : Keeps(g, m + 1)
  <2> DEFINE g == [n \in 0..(m + 1) |->
                     IF n = 0 THEN << >>
                     ELSE IF s[n] < Window THEN Append(f[n - 1], s[n]) ELSE f[n - 1]]
  <2>1. ASSUME NEW n \in 0..m PROVE g[n] = f[n]
    <3>1. g[n] = IF n = 0 THEN << >>
                 ELSE IF s[n] < Window THEN Append(f[n - 1], s[n]) ELSE f[n - 1]
      OBVIOUS
    <3>2. f[n] = IF n = 0 THEN << >>
                 ELSE IF s[n] < Window THEN Append(f[n - 1], s[n]) ELSE f[n - 1]
      BY <1>2, Zenon
    <3> QED BY <3>1, <3>2, Zenon
  <2>2. ASSUME NEW n \in 0..(m + 1)
        PROVE  g[n] = IF n = 0 THEN << >>
                      ELSE IF s[n] < Window THEN Append(g[n - 1], s[n]) ELSE g[n - 1]
    <3>1. n # 0 => n - 1 \in 0..m
      BY <2>2
    <3>2. g[n] = IF n = 0 THEN << >>
                 ELSE IF s[n] < Window THEN Append(f[n - 1], s[n]) ELSE f[n - 1]
      OBVIOUS
    <3> HIDE DEF g
    <3> QED BY <2>1, <3>1, <3>2
  <2>3. g = [n \in 0..(m + 1) |-> g[n]]
    OBVIOUS
  <2> HIDE DEF g
  <2>4. Keeps(g, m + 1)
    BY <2>2, <2>3, Zenon
  <2> QED BY <2>4
<1>3. \E f : Keeps(f, Len(s))
  <2> HIDE DEF Keeps
  <2>1. 0 \in T /\ \A m \in 0..(Len(s) - 1) : m \in T => m + 1 \in T
    BY <1>1, <1>2
  <2> HIDE DEF T
  <2>2. \A m \in 0..Len(s) : m \in T
    BY <2>1, Upward
  <2> QED BY <2>2 DEF T
<1> QED
  BY <1>3 DEF PrunedUpTo

(* What the loop does, position by position.                              *)
LEMMA PrunedUpToSteps ==
  ASSUME NEW s \in Seq(Age), NEW w, w = PrunedUpTo(s)
  PROVE  /\ w[0] = << >>
         /\ \A n \in 1..Len(s) : w[n] = IF s[n] < Window THEN Append(w[n - 1], s[n]) ELSE w[n - 1]
<1>1. Len(s) \in Nat
  OBVIOUS
<1>2. w = [n \in 0..Len(s) |->
             IF n = 0 THEN << >>
             ELSE IF s[n] < Window THEN Append(w[n - 1], s[n]) ELSE w[n - 1]]
  BY <1>1, PrunedUpToDef, Zenon
<1>3. ASSUME NEW n \in 0..Len(s)
      PROVE  w[n] = IF n = 0 THEN << >>
                    ELSE IF s[n] < Window THEN Append(w[n - 1], s[n]) ELSE w[n - 1]
  BY <1>2, Zenon
<1>4. 0 \in 0..Len(s) /\ \A n \in 1..Len(s) : n \in 0..Len(s) /\ n # 0
  BY <1>1
<1> QED
  BY <1>3, <1>4

(* Every failure of the list is in the window. *)
Fresh(s) == \A i \in 1..Len(s) : s[i] < Window

(* What pruneLoginAttempts leaves is a list of failures in the window, no  *)
(* longer than the one it was given.                                       *)
LEMMA PrunedFresh ==
  ASSUME NEW s \in Seq(Age)
  PROVE  /\ pruneLoginAttempts(s) \in Seq(Age)
         /\ Len(pruneLoginAttempts(s)) <= Len(s)
         /\ Fresh(pruneLoginAttempts(s))
<1>0. Len(s) \in Nat /\ \A n \in 1..Len(s) : s[n] \in Age
  OBVIOUS
<1>1. PICK w : w = PrunedUpTo(s)
  OBVIOUS
<1>2. /\ w[0] = << >>
      /\ \A n \in 1..Len(s) : w[n] = IF s[n] < Window THEN Append(w[n - 1], s[n]) ELSE w[n - 1]
  BY <1>1, PrunedUpToSteps
<1> DEFINE Good(q, n) == q \in Seq(Age) /\ Len(q) <= n /\ Fresh(q)
           T == {n \in 0..Len(s) : Good(w[n], n)}
<1>3. 0 \in T
  <2>1. Good(<< >>, 0)
    BY DEF Fresh
  <2>2. 0 \in 0..Len(s) /\ Good(w[0], 0)
    BY <1>0, <1>2, <2>1
  <2> QED  BY <2>2, Zenon
<1>4. ASSUME NEW n \in 0..(Len(s) - 1), n \in T PROVE n + 1 \in T
  <2>1. n + 1 \in 1..Len(s) /\ n + 1 \in 0..Len(s) /\ (n + 1) - 1 = n /\ n \in Nat
    BY <1>0, <1>4
  <2>2. PICK q : q = w[n]
    OBVIOUS
  <2>3. q \in Seq(Age) /\ Len(q) <= n /\ Fresh(q)
    BY <1>4, <2>2
  <2>4. w[n + 1] = IF s[n + 1] < Window THEN Append(q, s[n + 1]) ELSE q
    BY <1>2, <2>1, <2>2
  <2>5. s[n + 1] \in Age
    BY <1>0, <2>1
  <2>6. ASSUME s[n + 1] < Window PROVE Good(Append(q, s[n + 1]), n + 1)
    <3>1. /\ Append(q, s[n + 1]) \in Seq(Age) /\ Len(Append(q, s[n + 1])) = Len(q) + 1
          /\ Append(q, s[n + 1])[Len(q) + 1] = s[n + 1]
          /\ \A i \in 1..Len(q) : Append(q, s[n + 1])[i] = q[i]
      BY <2>3, <2>5
    <3>2. Len(q) \in Nat
      BY <2>3
    <3> QED  BY <2>1, <2>3, <2>6, <3>1, <3>2 DEF Fresh
  <2>7. Good(q, n + 1)
    BY <2>1, <2>3
  <2>8. Good(w[n + 1], n + 1)
    BY <2>4, <2>6, <2>7
  <2> QED  BY <2>1, <2>8
<1> HIDE DEF T
<1>5. \A n \in 0..Len(s) : n \in T
  BY <1>0, <1>3, <1>4, Upward
<1>6. Len(s) \in T
  BY <1>0, <1>5
<1> QED
  BY <1>1, <1>6 DEF T, pruneLoginAttempts

(* A list of failures in the window is kept as it is.                      *)
LEMMA NothingToPrune ==
  ASSUME NEW s \in Seq(Age), Fresh(s)
  PROVE  pruneLoginAttempts(s) = s
<1>0. Len(s) \in Nat /\ \A n \in 1..Len(s) : s[n] \in Age /\ s[n] < Window
  BY DEF Fresh
<1>1. PICK w : w = PrunedUpTo(s)
  OBVIOUS
<1>2. /\ w[0] = << >>
      /\ \A n \in 1..Len(s) : w[n] = Append(w[n - 1], s[n])
  BY <1>0, <1>1, PrunedUpToSteps
<1> DEFINE T == {n \in 0..Len(s) : w[n] = SubSeq(s, 1, n)}
<1>3. 0 \in T
  <2>1. SubSeq(s, 1, 0) = << >>
    BY <1>0
  <2>2. 0 \in 0..Len(s) /\ w[0] = SubSeq(s, 1, 0)
    BY <1>0, <1>2, <2>1
  <2> QED  BY <2>2, Zenon
<1>4. ASSUME NEW n \in 0..(Len(s) - 1), n \in T PROVE n + 1 \in T
  <2>1. n + 1 \in 1..Len(s) /\ n + 1 \in 0..Len(s) /\ (n + 1) - 1 = n
    BY <1>0, <1>4
  <2>2. w[n + 1] = Append(SubSeq(s, 1, n), s[n + 1])
    BY <1>2, <1>4, <2>1
  <2>3. Append(SubSeq(s, 1, n), s[n + 1]) = SubSeq(s, 1, n + 1)
    BY <1>0, <2>1
  <2> QED  BY <2>1, <2>2, <2>3
<1> HIDE DEF T
<1>5. \A n \in 0..Len(s) : n \in T
  BY <1>0, <1>3, <1>4, Upward
<1>6. Len(s) \in T
  BY <1>0, <1>5
<1>7. SubSeq(s, 1, Len(s)) = s
  BY <1>0
<1> QED
  BY <1>1, <1>6, <1>7 DEF T, pruneLoginAttempts

(* A check leaves the failures in the window as they were, and a record    *)
(* adds one to them.                                                       *)
LEMMA PrunedAgain ==
  ASSUME NEW s \in Seq(Age)
  PROVE  LET p == pruneLoginAttempts(s)
         IN pruneLoginAttempts(p) = p /\ pruneLoginAttempts(Append(p, 0)) = Append(p, 0)
<1> DEFINE p == pruneLoginAttempts(s)
<1>1. p \in Seq(Age) /\ Fresh(p)
  BY PrunedFresh
<1> HIDE DEF p
<1>2. 0 \in Age /\ 0 < Window
  BY AdminLoginAssumption DEF Age
<1>3. /\ Append(p, 0) \in Seq(Age) /\ Len(Append(p, 0)) = Len(p) + 1
      /\ Append(p, 0)[Len(p) + 1] = 0
      /\ \A i \in 1..Len(p) : Append(p, 0)[i] = p[i]
      /\ Len(p) \in Nat
  BY <1>1, <1>2
<1>4. Fresh(Append(p, 0))
  BY <1>1, <1>2, <1>3 DEF Fresh
<1> QED
  BY <1>1, <1>3, <1>4, NothingToPrune DEF p

-----------------------------------------------------------------------------
(* A record lengthens the list of its client by one at most, and touches   *)
(* no other.                                                               *)
LEMMA RecordedLength ==
  ASSUME attempts \in [Clients -> Seq(Age)], NEW c \in Clients
  PROVE  /\ Recorded(c) \in [Clients -> Seq(Age)]
         /\ Len(Recorded(c)[c]) <= Len(attempts[c]) + 1
         /\ \A d \in Clients \ {c} : Recorded(c)[d] = attempts[d]
<1> DEFINE p == pruneLoginAttempts(attempts[c])
<1>1. attempts[c] \in Seq(Age)
  OBVIOUS
<1>2. p \in Seq(Age) /\ Len(p) <= Len(attempts[c])
  BY <1>1, PrunedFresh
<1>3. 0 \in Age
  BY AdminLoginAssumption DEF Age
<1> HIDE DEF p
<1>4. Append(p, 0) \in Seq(Age) /\ Len(Append(p, 0)) = Len(p) + 1
  BY <1>2, <1>3
<1>5. Len(Append(p, 0)) <= Len(attempts[c]) + 1
  BY <1>1, <1>2, <1>4
<1>6. Recorded(c) = [attempts EXCEPT ![c] = Append(p, 0)]
  BY DEF Recorded, p
<1> QED
  BY <1>4, <1>5, <1>6

-----------------------------------------------------------------------------
LEMMA InitTyped == Init => TypeOK
<1> SUFFICES ASSUME Init PROVE TypeOK
  OBVIOUS
<1>1. << >> \in Seq(Age)
  OBVIOUS
<1>2. Idle \in Request
  BY DEF Request
<1> QED
  BY <1>1, <1>2, AdminLoginAssumption DEF Init, TypeOK

(* Each step, whichever it is, keeps the types.                            *)
LEMMA RecordTyped ==
  ASSUME TypeOK, NEW r \in Requests, WrongName(r) \/ Reject(r)
  PROVE  TypeOK' /\ req[r].client \in Clients
<1>1. req[r].client \in Clients
  BY DEF TypeOK, Request, Idle, WrongName, Reject
<1>2. attempts' \in [Clients -> Seq(Age)]
  BY <1>1, RecordedLength DEF TypeOK, WrongName, Reject
<1>3. req' \in [Requests -> Request]
  BY DEF TypeOK, WrongName, Reject, End, Request
<1> QED
  BY <1>1, <1>2, <1>3 DEF TypeOK, WrongName, Reject

LEMMA NextTyped == TypeOK /\ [Next]_vars => TypeOK'
<1> SUFFICES ASSUME TypeOK, [Next]_vars PROVE TypeOK'
  OBVIOUS
<1>1. ASSUME NEW r \in Requests, NEW c \in Clients, NEW p \in Passwords, Login(r, c, p)
      PROVE TypeOK'
  <2>1. attempts' \in [Clients -> Seq(Age)]
    <3>1. pruneLoginAttempts(attempts[c]) \in Seq(Age)
      BY PrunedFresh DEF TypeOK
    <3> QED
      BY <3>1, <1>1 DEF Login, Checked, TypeOK
  <2>2. [pc |-> "admitted", client |-> c, tried |-> p] \in Request
    BY DEF Request
  <2>3. req' \in [Requests -> Request]
    BY <2>2, <1>1 DEF Login, TypeOK
  <2> QED
    BY <2>1, <2>3, <1>1 DEF Login, TypeOK
<1>2. ASSUME NEW r \in Requests, WrongName(r) \/ Reject(r)
      PROVE TypeOK'
  BY <1>2, RecordTyped
<1>3. ASSUME NEW r \in Requests, ReadHash(r)
      PROVE TypeOK'
  <2>1. req[r].client \in Clients /\ req[r].tried \in Passwords
    BY <1>3 DEF ReadHash, TypeOK, Request, Idle
  <2>2. [pc |-> "compare", client |-> req[r].client, tried |-> req[r].tried, seen |-> password] \in Request
    BY <2>1 DEF TypeOK, Request
  <2> QED
    BY <2>2, <1>3 DEF ReadHash, TypeOK
<1>4. ASSUME NEW r \in Requests, ReadFails(r) \/ SaveFails(r)
      PROVE TypeOK'
  BY <1>4 DEF ReadFails, SaveFails, End, TypeOK, Request
<1>5. ASSUME NEW r \in Requests, Succeed(r)
      PROVE TypeOK'
  <2>1. << >> \in Seq(Age)
    OBVIOUS
  <2> QED
    BY <2>1, <1>5 DEF Succeed, Cleared, End, TypeOK, Request
<1>6. ASSUME NEW r \in Requests, NEW new \in Passwords, ChangePassword(r, new)
      PROVE TypeOK'
  <2>1. [pc |-> "save", new |-> new] \in Request
    BY DEF TypeOK, Request
  <2> QED
    BY <2>1, <1>6 DEF ChangePassword, TypeOK
<1>7. ASSUME NEW r \in Requests, SaveHash(r)
      PROVE TypeOK'
  <2>1. req[r].new \in Passwords
    BY <1>7 DEF SaveHash, TypeOK, Request, Idle
  <2> QED
    BY <2>1, <1>7 DEF SaveHash, End, TypeOK, Request
<1>8. CASE Tick
  <2> DEFINE older(c) == [i \in DOMAIN attempts[c] |->
                            IF attempts[c][i] < Window THEN attempts[c][i] + 1 ELSE Window]
  <2>1. ASSUME NEW c \in Clients PROVE older(c) \in Seq(Age)
    <3>1. /\ Len(attempts[c]) \in Nat /\ DOMAIN attempts[c] = 1..Len(attempts[c])
          /\ \A i \in 1..Len(attempts[c]) : attempts[c][i] \in Age
      BY <2>1 DEF TypeOK
    <3>2. ASSUME NEW i \in 1..Len(attempts[c]) PROVE older(c)[i] \in Age
      BY <3>1, <3>2, AdminLoginAssumption DEF Age
    <3>3. older(c) \in [1..Len(attempts[c]) -> Age]
      BY <3>1, <3>2
    <3> QED
      BY <3>1, <3>3, SeqDef
  <2>2. attempts' \in [Clients -> Seq(Age)]
    BY <2>1, <1>8 DEF Tick
  <2> QED
    BY <2>2, <1>8 DEF Tick, TypeOK
<1>9. CASE Restart
  <2>1. << >> \in Seq(Age) /\ Idle \in Request
    BY DEF Request
  <2> QED
    BY <2>1, <1>9 DEF Restart, TypeOK
<1>10. CASE UNCHANGED vars
  BY <1>10 DEF vars, TypeOK
<1> QED
  BY <1>1, <1>2, <1>3, <1>4, <1>5, <1>6, <1>7, <1>8, <1>9, <1>10 DEF Next

(* AdminLogin is type-correct: a login that compares has read a hash, and  *)
(* the database always holds one.                                          *)
THEOREM TypeCorrect == Spec => []TypeOK
<1>1. Init => TypeOK
  BY InitTyped
<1>2. TypeOK /\ [Next]_vars => TypeOK'
  BY NextTyped
<1> QED
  BY <1>1, <1>2, PTL DEF Spec

-----------------------------------------------------------------------------
LEMMA FlightsCounted ==
  \A c \in Clients : /\ IsFiniteSet(InFlight(c)) /\ Cardinality(InFlight(c)) \in Nat
                     /\ Cardinality(InFlight(c)) <= Cardinality(Requests)
<1> TAKE c \in Clients
<1>1. InFlight(c) \in SUBSET Requests /\ IsFiniteSet(Requests)
  BY AdminLoginAssumption DEF InFlight
<1> QED
  BY <1>1, FS_Subset, FS_CardinalityType

LEMMA RequestsCounted == Cardinality(Requests) \in Nat /\ MaxFailures \in Nat
  BY AdminLoginAssumption, FS_CardinalityType

(* What a step must do to keep the bound of one client: admit it with a    *)
(* list that is short enough, or add no more to the list than leaves the   *)
(* flight.                                                                 *)
Within(c) == Len(attempts[c]) + Cardinality(InFlight(c)) <= MaxFailures - 1 + Cardinality(Requests)

LEMMA ShortListWithin ==
  ASSUME NEW c \in Clients, TypeOK', Len(attempts'[c]) <= MaxFailures - 1
  PROVE  Within(c)'
<1>1. /\ Cardinality(InFlight(c))' \in Nat
      /\ Cardinality(InFlight(c))' <= Cardinality(Requests)
  <2>1. InFlight(c)' \in SUBSET Requests /\ IsFiniteSet(Requests)
    BY AdminLoginAssumption DEF InFlight
  <2> QED
    BY <2>1, FS_Subset, FS_CardinalityType
<1>2. Len(attempts'[c]) \in Nat
  BY DEF TypeOK
<1> QED
  BY <1>1, <1>2, RequestsCounted DEF Within

LEMMA NoLongerWithin ==
  ASSUME NEW c \in Clients, TypeOK, TypeOK', Within(c),
         Len(attempts'[c]) <= Len(attempts[c]), InFlight(c)' \in SUBSET InFlight(c)
  PROVE  Within(c)'
<1>1. /\ IsFiniteSet(InFlight(c)) /\ Cardinality(InFlight(c)) \in Nat
      /\ Cardinality(InFlight(c))' \in Nat
      /\ Cardinality(InFlight(c))' <= Cardinality(InFlight(c))
  BY FlightsCounted, FS_Subset, FS_CardinalityType
<1>2. Len(attempts'[c]) \in Nat /\ Len(attempts[c]) \in Nat
  BY DEF TypeOK
<1> QED
  BY <1>1, <1>2, RequestsCounted DEF Within

LEMMA RecordWithin ==
  ASSUME NEW c \in Clients, NEW r \in InFlight(c), TypeOK, TypeOK', Within(c),
         Len(attempts'[c]) <= Len(attempts[c]) + 1, InFlight(c)' = InFlight(c) \ {r}
  PROVE  Within(c)'
<1>1. /\ Cardinality(InFlight(c)) \in Nat
      /\ Cardinality(InFlight(c))' = Cardinality(InFlight(c)) - 1
  BY FlightsCounted, FS_RemoveElement
<1>2. Len(attempts'[c]) \in Nat /\ Len(attempts[c]) \in Nat
  BY DEF TypeOK
<1> QED
  BY <1>1, <1>2, RequestsCounted DEF Within

(* Leaving the handler takes r out of its client's flight and out of no    *)
(* other's.                                                                *)
LEMMA EndLands ==
  ASSUME TypeOK, NEW r \in Requests, End(r)
  PROVE  \A c \in Clients : InFlight(c)' = InFlight(c) \ {r}
<1> TAKE c \in Clients
<1>1. \A q \in Requests : req'[q] = IF q = r THEN Idle ELSE req[q]
  BY DEF End, TypeOK
<1> QED
  BY <1>1 DEF InFlight, Idle

LEMMA NextWithin ==
  ASSUME TypeOK, TypeOK', GuessesBounded, [Next]_vars
  PROVE  GuessesBounded'
<1> SUFFICES ASSUME NEW d \in Clients PROVE Within(d)'
  BY DEF GuessesBounded, Within
<1>0. Within(d)
  BY DEF GuessesBounded, Within
<1>len. Len(attempts[d]) \in Nat
  BY DEF TypeOK
<1>1. ASSUME NEW r \in Requests, NEW c \in Clients, NEW p \in Passwords, Login(r, c, p)
      PROVE Within(d)'
  <2>1. \A x \in Clients : attempts'[x] = IF x = c THEN pruneLoginAttempts(attempts[c]) ELSE attempts[x]
    BY <1>1 DEF Login, Checked, TypeOK
  <2>2. Len(attempts'[d]) <= Len(attempts[d])
    <3>1. Len(pruneLoginAttempts(attempts[d])) <= Len(attempts[d])
      BY PrunedFresh DEF TypeOK
    <3> QED  BY <2>1, <3>1, <1>len
  <2>3. CASE d = c /\ Admits(attempts'[c])
    <3>1. Len(attempts'[d]) <= MaxFailures - 1
      BY <2>3, AdminLoginAssumption DEF Admits, TypeOK
    <3> QED
      BY <3>1, ShortListWithin
  <2>4. CASE ~(d = c /\ Admits(attempts'[c]))
    <3>1. InFlight(d)' \in SUBSET InFlight(d)
      <4>1. CASE d # c /\ Admits(attempts'[c])
        <5>1. /\ req'[r] = [pc |-> "admitted", client |-> c, tried |-> p]
              /\ \A q \in Requests \ {r} : req'[q] = req[q]
          BY <4>1, <1>1 DEF Login, TypeOK
        <5>2. req'[r].client # d
          BY <5>1, <4>1
        <5> QED
          BY <5>1, <5>2 DEF InFlight
      <4>2. CASE ~Admits(attempts'[c])
        BY <4>2, <1>1 DEF Login, InFlight
      <4> QED
        BY <2>4, <4>1, <4>2
    <3> QED
      BY <3>1, <2>2, <1>0, NoLongerWithin
  <2> QED
    BY <2>3, <2>4
<1>2. ASSUME NEW r \in Requests, WrongName(r) \/ Reject(r)
      PROVE Within(d)'
  <2> DEFINE c == req[r].client
  <2>1. c \in Clients /\ r \in InFlight(c)
    BY <1>2, RecordTyped DEF WrongName, Reject, InFlight
  <2>2. InFlight(d)' = InFlight(d) \ {r}
    BY <1>2, EndLands DEF WrongName, Reject
  <2>3. /\ Len(attempts'[c]) <= Len(attempts[c]) + 1
        /\ \A x \in Clients \ {c} : attempts'[x] = attempts[x]
    BY <1>2, <2>1, RecordedLength DEF WrongName, Reject, TypeOK
  <2> HIDE DEF c
  <2>4. CASE d = c
    BY <2>1, <2>2, <2>3, <2>4, <1>0, RecordWithin
  <2>5. CASE d # c
    BY <2>2, <2>3, <2>5, <1>0, <1>len, NoLongerWithin
  <2> QED
    BY <2>4, <2>5
<1>3. ASSUME NEW r \in Requests, ReadHash(r)
      PROVE Within(d)'
  <2>1. /\ req'[r] = [pc |-> "compare", client |-> req[r].client, tried |-> req[r].tried, seen |-> password]
        /\ req[r].pc = "admitted"
        /\ \A q \in Requests \ {r} : req'[q] = req[q]
    BY <1>3 DEF ReadHash, TypeOK
  <2>2. req'[r].client = req[r].client
    BY <2>1
  <2>3. InFlight(d)' \in SUBSET InFlight(d)
    BY <2>1, <2>2 DEF InFlight
  <2> QED
    BY <2>3, <1>3, <1>0, <1>len, NoLongerWithin DEF ReadHash
<1>4. ASSUME NEW r \in Requests, ReadFails(r) \/ SaveFails(r) \/ SaveHash(r)
      PROVE Within(d)'
  <2>1. InFlight(d)' \in SUBSET InFlight(d)
    BY <1>4, EndLands DEF ReadFails, SaveFails, SaveHash
  <2> QED
    BY <2>1, <1>4, <1>0, <1>len, NoLongerWithin DEF ReadFails, SaveFails, SaveHash
<1>5. ASSUME NEW r \in Requests, Succeed(r)
      PROVE Within(d)'
  <2>1. InFlight(d)' \in SUBSET InFlight(d)
    BY <1>5, EndLands DEF Succeed
  <2>2. attempts'[d] = << >> \/ attempts'[d] = attempts[d]
    BY <1>5 DEF Succeed, Cleared, TypeOK
  <2>3. Len(attempts'[d]) <= Len(attempts[d])
    BY <2>2, <1>len
  <2> QED
    BY <2>1, <2>3, <1>0, NoLongerWithin
<1>6. ASSUME NEW r \in Requests, NEW new \in Passwords, ChangePassword(r, new)
      PROVE Within(d)'
  <2>1. /\ req'[r] = [pc |-> "save", new |-> new]
        /\ \A q \in Requests \ {r} : req'[q] = req[q]
    BY <1>6 DEF ChangePassword, TypeOK
  <2>2. InFlight(d)' \in SUBSET InFlight(d)
    BY <2>1 DEF InFlight
  <2> QED
    BY <2>2, <1>6, <1>0, <1>len, NoLongerWithin DEF ChangePassword
<1>7. CASE Tick
  <2>1. Len(attempts'[d]) = Len(attempts[d])
    BY <1>7 DEF Tick, TypeOK
  <2>2. InFlight(d)' = InFlight(d)
    BY <1>7 DEF Tick, InFlight
  <2> QED
    BY <2>1, <2>2, <1>0, <1>len, NoLongerWithin
<1>8. CASE Restart
  <2>1. Len(attempts'[d]) <= MaxFailures - 1
    BY <1>8, AdminLoginAssumption DEF Restart
  <2> QED
    BY <2>1, ShortListWithin
<1>9. CASE UNCHANGED vars
  BY <1>9, <1>0 DEF vars, Within, InFlight
<1> QED
  BY <1>1, <1>2, <1>3, <1>4, <1>5, <1>6, <1>7, <1>8, <1>9 DEF Next

(* A client never has more failures and logins on the way than one less    *)
(* than the maximum and one per request being served: what the limiter     *)
(* really bounds, for every number of goroutines that race past it.        *)
THEOREM GuessesStayBounded == Spec => []GuessesBounded
<1>1. Init => GuessesBounded
  <2> SUFFICES ASSUME Init, NEW c \in Clients PROVE Within(c)
    BY DEF GuessesBounded, Within
  <2>1. Len(attempts[c]) = 0
    BY DEF Init
  <2> QED
    BY <2>1, FlightsCounted, RequestsCounted, AdminLoginAssumption DEF Within
<1>2. TypeOK /\ TypeOK' /\ GuessesBounded /\ [Next]_vars => GuessesBounded'
  BY NextWithin
<1> QED
  BY <1>1, <1>2, TypeCorrect, PTL DEF Spec

-----------------------------------------------------------------------------
(* Failures are kept                                                       *)

(* What a step may do to the failures of c in the window.                  *)
Kept(c) ==
  \/ Recent(c)' = Recent(c)
  \/ Recent(c)' = Append(Recent(c), 0) /\ \E r \in InFlight(c) : WrongName(r) \/ Reject(r)
  \/ \E r \in InFlight(c) : Succeed(r)
  \/ Tick \/ Restart

LEMMA NextKeeps ==
  ASSUME TypeOK, [Next]_vars, NEW d \in Clients
  PROVE  Kept(d)
<1>1. attempts \in [Clients -> Seq(Age)]
  BY DEF TypeOK
<1>2. ASSUME attempts'[d] = attempts[d] PROVE Kept(d)
  BY <1>2 DEF Kept, Recent
<1>3. ASSUME NEW r \in Requests, NEW c \in Clients, NEW p \in Passwords, Login(r, c, p)
      PROVE  Kept(d)
  <2>1. attempts'[d] = IF d = c THEN pruneLoginAttempts(attempts[d]) ELSE attempts[d]
    BY <1>1, <1>3 DEF Login, Checked
  <2>2. pruneLoginAttempts(attempts'[d]) = pruneLoginAttempts(attempts[d])
    BY <1>1, <2>1, PrunedAgain
  <2> QED BY <2>2 DEF Kept, Recent
<1>4. ASSUME NEW r \in Requests, WrongName(r) \/ Reject(r) PROVE Kept(d)
  <2>1. PICK c \in Clients : c = req[r].client /\ r \in InFlight(c)
    BY <1>4, RecordTyped DEF WrongName, Reject, InFlight
  <2>2. attempts' = [attempts EXCEPT ![c] = Append(pruneLoginAttempts(attempts[c]), 0)]
    BY <1>4, <2>1 DEF WrongName, Reject, Recorded
  <2>3. CASE d # c
    BY <1>1, <1>2, <2>2, <2>3
  <2>4. CASE d = c
    <3>1. attempts'[d] = Append(pruneLoginAttempts(attempts[d]), 0)
      BY <1>1, <2>2, <2>4
    <3>2. pruneLoginAttempts(attempts'[d]) = Append(pruneLoginAttempts(attempts[d]), 0)
      BY <1>1, <3>1, PrunedAgain
    <3> QED BY <1>4, <2>1, <2>4, <3>2 DEF Kept, Recent
  <2> QED BY <2>3, <2>4
<1>5. ASSUME NEW r \in Requests, Succeed(r) PROVE Kept(d)
  <2>1. CASE r \in InFlight(d)
    BY <1>5, <2>1 DEF Kept
  <2>2. CASE r \notin InFlight(d)
    <3>1. d # req[r].client
      BY <1>5, <2>2 DEF Succeed, InFlight
    <3> QED BY <1>1, <1>2, <1>5, <3>1 DEF Succeed, Cleared
  <2> QED BY <2>1, <2>2
<1>6. ASSUME NEW r \in Requests,
             \/ ReadHash(r) \/ ReadFails(r) \/ SaveHash(r) \/ SaveFails(r)
             \/ \E new \in Passwords : ChangePassword(r, new)
      PROVE  Kept(d)
  BY <1>2, <1>6 DEF ReadHash, ReadFails, SaveHash, SaveFails, ChangePassword
<1>7. CASE Tick \/ Restart
  BY <1>7 DEF Kept
<1>8. CASE UNCHANGED vars
  BY <1>2, <1>8 DEF vars
<1> QED
  BY <1>3, <1>4, <1>5, <1>6, <1>7, <1>8 DEF Next

(* Spec => NoFailureForgotten: only time, a success of the same client or  *)
(* a restart forgives a failure, and only a failed login of the same       *)
(* client adds one, whoever else logs in, is refused or is checked         *)
(* meanwhile (auth.go:45-79).                                              *)
THEOREM FailuresKept == Spec => NoFailureForgotten
<1>1. TypeOK /\ [Next]_vars => \A c \in Clients : Kept(c)
  BY NextKeeps
<1>2. TypeOK /\ [Next]_vars =>
        [\A c \in Clients :
           \/ Recent(c)' = Recent(c)
           \/ Recent(c)' = Append(Recent(c), 0) /\ \E r \in InFlight(c) : WrongName(r) \/ Reject(r)
           \/ \E r \in InFlight(c) : Succeed(r)
           \/ Tick \/ Restart]_vars
  BY <1>1 DEF Kept
<1> QED
  BY <1>2, TypeCorrect, PTL DEF Spec, NoFailureForgotten
=============================================================================
