---------------------------- MODULE SoftTimer_proofs ---------------------------
(***************************************************************************)
(* The software timers, for every number of timers, every width of the     *)
(* counter, all durations and latencies, wherever an interrupt strikes and *)
(* whatever callbacks start and cancel: the list links exactly the running *)
(* timers; the timers whose starts were not misdated are in order of       *)
(* expiry, and none of their callbacks runs early; and none of them is     *)
(* late except while the compare register is astray.                       *)
(*                                                                         *)
(* A list is described by the sequence of its timers: `Linked(l, R, s, n)' *)
(* says that l links the n timers of R in the order of s. It is what the   *)
(* proofs have in place of an induction over the list.                     *)
(***************************************************************************)
EXTENDS SoftTimer, TLAPS, FiniteSetTheorems, NaturalsInduction, WellFoundedInduction

-----------------------------------------------------------------------------
(* Walking the list                                                        *)

Size == Cardinality(TimerIds)

LEMMA Ids == Size \in Nat /\ Size >= 1 /\ TimerIds = 0 .. Size - 1 /\ Null \notin TimerIds
<1>1. Size \in Nat
  BY TimersAssumption, FS_CardinalityType DEF Size
<1> QED BY <1>1, TimersAssumption DEF Size, Null

\* The least of a set of numbers.
LEMMA MinLeast ==
  ASSUME NEW S, S \subseteq Nat, S # {}
  PROVE  Min(S) \in S /\ \A y \in S : Min(S) =< y
<1>1. IsWellFoundedOn(OpToRel(<, Nat), Nat)
  BY NatLessThanWellFounded
<1>2. PICK x \in S : \A y \in S : ~ (<<y, x>> \in OpToRel(<, Nat))
  BY <1>1, WFMin
<1>3. ASSUME NEW y \in S PROVE x =< y
  <2>1. ~(y < x)
    BY <1>2 DEF OpToRel
  <2> QED BY <2>1
<1> QED BY <1>3 DEF Min

\* The timers of R by position, Null before the first and after the last one.
Linked(l, R, s, n) ==
  /\ n \in Nat /\ s[0] = Null /\ s[n + 1] = Null /\ l.head = s[1]
  /\ \A i \in 1 .. n : s[i] \in R /\ l.link[s[i]] = [next |-> s[i + 1], prev |-> s[i - 1]]
  /\ \A t \in R : \E i \in 1 .. n : s[i] = t
  /\ \A i, j \in 1 .. n : s[i] = s[j] => i = j

LEMMA WalkFollows ==
  ASSUME NEW l, NEW R, R \subseteq TimerIds, NEW s, NEW n, Linked(l, R, s, n)
  PROVE  Walk(l) = [k \in 0 .. Size |-> IF k =< n THEN s[k + 1] ELSE Null]
<1> DEFINE v == [k \in 0 .. Size |-> IF k =< n THEN s[k + 1] ELSE Null]
           Step(w, k) == IF k = 0 THEN l.head ELSE IF w[k - 1] = Null THEN Null ELSE l.link[w[k - 1]].next
           Follows(w) == w = [k \in 0 .. Size |-> Step(w, k)]
<1>1. Walk(l) = CHOOSE w : Follows(w)
  BY DEF Walk, Size
<1>2. Follows(v)
  <2>1. ASSUME NEW k \in 0 .. Size PROVE v[k] = Step(v, k)
    <3>1. CASE k = 0
      BY <3>1, Ids DEF Linked
    <3>2. CASE k \in 1 .. Size
      <4>1. k - 1 \in 0 .. Size /\ (k - 1) + 1 = k /\ n \in Nat
        BY <3>2, Ids DEF Linked
      <4>2. v[k - 1] = IF k - 1 =< n THEN s[k] ELSE Null
        BY <4>1
      <4>3. CASE k =< n
        <5>1. k \in 1 .. n /\ s[k] # Null /\ l.link[s[k]].next = s[k + 1]
          <6>1. k \in 1 .. n
            BY <3>2, <4>1, <4>3
          <6>2. s[k] \in R /\ l.link[s[k]] = [next |-> s[k + 1], prev |-> s[k - 1]]
            BY <6>1 DEF Linked
          <6>3. l.link[s[k]].next = s[k + 1]
            BY <6>2
          <6> QED BY <6>1, <6>2, <6>3, Ids
        <5> QED BY <3>2, <4>1, <4>2, <4>3, <5>1, Ids
      <4>4. CASE k = n + 1
        BY <3>2, <4>1, <4>2, <4>4, Ids DEF Linked
      <4>5. CASE k > n + 1
        BY <3>2, <4>1, <4>2, <4>5, Ids
      <4> QED BY <4>1, <4>3, <4>4, <4>5, <3>2
    <3> QED BY <3>1, <3>2, Ids
  <2> QED BY <2>1
<1>3. ASSUME NEW w, Follows(w) PROVE w = v
  <2> DEFINE D == {k \in 0 .. Size : w[k] # v[k]}
  <2>1. SUFFICES ASSUME D # {} PROVE FALSE
    BY <1>3
  <2>2. Min(D) \in D /\ \A y \in D : Min(D) =< y
    <3>1. D \subseteq Nat
      BY Ids
    <3> HIDE DEF D
    <3> QED BY <2>1, <3>1, MinLeast
  <2>3. PICK k \in D : \A y \in D : k =< y
    BY <2>2
  <2>4. w[k] = Step(w, k) /\ v[k] = Step(v, k)
    BY <1>2, <1>3, <2>3
  <2>5. k # 0
    BY <2>3, <2>4
  <2>6. k - 1 \in 0 .. Size /\ k - 1 \notin D
    BY <2>3, <2>5, Ids
  <2>7. w[k - 1] = v[k - 1]
    BY <2>6
  <2> QED BY <2>3, <2>4, <2>7
<1> HIDE DEF Follows, v
<1>4. Follows(Walk(l))
  BY <1>1, <1>2
<1>5. Walk(l) = v
  BY <1>3, <1>4
<1> QED BY <1>5 DEF v

-----------------------------------------------------------------------------
(* A timer linked behind the k-th one                                      *)

\* No timer expires before the one in front of it.
InOrder(ex, s, n) == \A i \in 1 .. n : i < n => ~ExpiresBefore(ex[s[i + 1]], ex[s[i]])

ListShape(l) ==
  /\ l = [head |-> l.head, link |-> l.link, free |-> l.free]
  /\ l.link = [u \in TimerIds |-> l.link[u]]

LEMMA LinkedFits ==
  ASSUME NEW l, NEW R, R \subseteq TimerIds, NEW s, NEW n, Linked(l, R, s, n)
  PROVE  /\ n \in 0 .. Size
         /\ ExistsBijection(1 .. n, R)
<1> DEFINE f == [i \in 1 .. n |-> s[i]]
<1>1. n \in Nat /\ \A i \in 1 .. n : f[i] \in R
  BY DEF Linked
<1>2. f \in [1 .. n -> R]
  BY <1>1
<1>3. \A i, j \in 1 .. n : f[i] = f[j] => i = j
  BY DEF Linked
<1>4. f \in Injection(1 .. n, R)
  BY <1>2, <1>3 DEF Injection, IsInjective
<1>5. f \in Surjection(1 .. n, R)
  <2>1. ASSUME NEW t \in R PROVE \E i \in 1 .. n : f[i] = t
    BY DEF Linked
  <2> QED BY <1>2, <2>1 DEF Surjection
<1>6. ExistsBijection(1 .. n, R)
  BY <1>4, <1>5 DEF ExistsBijection, Bijection
<1>7. f \in Injection(1 .. n, TimerIds)
  BY <1>4 DEF Injection
<1>8. Cardinality(1 .. n) =< Size
  BY <1>7, FS_Injection, TimersAssumption DEF Size
<1>9. Cardinality(1 .. n) = n
  BY <1>1, FS_Interval
<1> QED BY <1>1, <1>6, <1>8, <1>9, Ids

\* A timer put behind the k-th one.
LEMMA SpliceIn ==
  ASSUME NEW l, NEW R, R \subseteq TimerIds, NEW s, NEW n, Linked(l, R, s, n),
         NEW t \in TimerIds \ R, NEW k \in 0 .. n, NEW m,
         m.head = IF k = 0 THEN t ELSE l.head,
         \A u \in TimerIds :
           /\ u = t => m.link[u] = [next |-> s[k + 1], prev |-> s[k]]
           /\ u # t /\ u = s[k] => m.link[u] = [next |-> t, prev |-> l.link[u].prev]
           /\ u # t /\ u # s[k] /\ u = s[k + 1] => m.link[u] = [next |-> l.link[u].next, prev |-> t]
           /\ u # t /\ u # s[k] /\ u # s[k + 1] => m.link[u] = l.link[u],
         NEW r, r = [i \in 0 .. n + 2 |-> IF i =< k THEN s[i] ELSE IF i = k + 1 THEN t ELSE s[i - 1]]
  PROVE  Linked(m, R \cup {t}, r, n + 1)
<1>1. n \in Nat /\ s[0] = Null /\ s[n + 1] = Null /\ l.head = s[1]
  BY DEF Linked
<1>2. \A i \in 1 .. n : s[i] \in R /\ s[i] \in TimerIds /\ s[i] # t /\ s[i] # Null
  <2>1. \A i \in 1 .. n : s[i] \in R
    BY DEF Linked
  <2> QED BY <2>1, Ids
<1>3. \A i \in 1 .. n : l.link[s[i]].next = s[i + 1] /\ l.link[s[i]].prev = s[i - 1]
                        /\ l.link[s[i]] = [next |-> s[i + 1], prev |-> s[i - 1]]
  BY DEF Linked
<1>4. \A i, j \in 1 .. n : s[i] = s[j] => i = j
  BY DEF Linked
<1>5. /\ \A i \in 0 .. k : r[i] = s[i]
      /\ r[k + 1] = t
      /\ \A i \in k + 2 .. n + 2 : r[i] = s[i - 1]
  BY <1>1
<1>6. r[0] = Null /\ r[n + 2] = Null
  <2>1. 0 \in 0 .. k /\ n + 2 \in k + 2 .. n + 2 /\ (n + 2) - 1 = n + 1
    BY <1>1
  <2> QED BY <1>1, <1>5, <2>1
<1>7. m.head = r[1]
  <2>1. CASE k = 0
    BY <1>5, <2>1
  <2>2. CASE k # 0
    <3>1. 1 \in 0 .. k
      BY <1>1, <2>2
    <3> QED BY <1>1, <1>5, <2>2, <3>1
  <2> QED BY <2>1, <2>2
<1>8. ASSUME NEW i \in 1 .. n + 1
      PROVE  r[i] \in R \cup {t} /\ m.link[r[i]] = [next |-> r[i + 1], prev |-> r[i - 1]]
  <2>1. CASE i < k
    <3>1. i \in 1 .. n /\ k \in 1 .. n /\ i # k /\ i \in 0 .. k /\ i + 1 \in 0 .. k /\ i - 1 \in 0 .. k
      BY <1>1, <2>1
    <3>2. s[i] # s[k] /\ (k + 1 \in 1 .. n => s[i] # s[k + 1]) /\ s[i] # s[k + 1]
      <4>1. CASE k + 1 \in 1 .. n
        BY <1>4, <2>1, <3>1, <4>1
      <4>2. CASE k = n
        BY <1>1, <1>2, <1>4, <2>1, <3>1, <4>2
      <4> QED BY <1>1, <4>1, <4>2
    <3>3. m.link[s[i]] = l.link[s[i]]
      BY <1>2, <3>1, <3>2
    <3> QED BY <1>2, <1>3, <1>5, <3>1, <3>3
  <2>2. CASE i = k
    <3>1. i \in 1 .. n /\ i \in 0 .. k /\ i - 1 \in 0 .. k
      BY <1>1, <2>2
    <3>2. m.link[s[i]] = [next |-> t, prev |-> l.link[s[i]].prev]
      BY <1>2, <2>2, <3>1
    <3>3. m.link[s[i]] = [next |-> t, prev |-> s[i - 1]]
      BY <1>3, <3>1, <3>2
    <3> QED BY <1>2, <1>5, <2>2, <3>1, <3>3
  <2>3. CASE i = k + 1
    <3>1. k \in 0 .. k /\ i - 1 = k /\ i + 1 \in k + 2 .. n + 2 /\ (i + 1) - 1 = k + 1
      BY <1>1, <2>3
    <3>2. r[i] = t /\ r[i - 1] = s[k] /\ r[i + 1] = s[k + 1]
      BY <1>5, <2>3, <3>1
    <3> QED BY <3>2
  <2>4. CASE i = k + 2
    <3>1. /\ k + 1 \in 1 .. n /\ i \in k + 2 .. n + 2 /\ i + 1 \in k + 2 .. n + 2
          /\ i - 1 = k + 1 /\ (i + 1) - 1 = k + 2
      BY <1>1, <2>4
    <3>2. s[k + 1] # s[k]
      <4>1. CASE k = 0
        BY <1>1, <1>2, <3>1, <4>1
      <4>2. CASE k # 0
        <5>1. k \in 1 .. n /\ k + 1 # k
          BY <1>1, <4>2
        <5> QED BY <1>4, <3>1, <5>1
      <4> QED BY <4>1, <4>2
    <3>3. m.link[s[k + 1]] = [next |-> l.link[s[k + 1]].next, prev |-> t]
      BY <1>2, <3>1, <3>2
    <3>4. m.link[s[k + 1]] = [next |-> s[(k + 1) + 1], prev |-> t]
      BY <1>3, <3>1, <3>3
    <3>5. r[i] = s[k + 1] /\ r[i + 1] = s[k + 2] /\ r[i - 1] = t /\ (k + 1) + 1 = k + 2
      BY <1>1, <1>5, <3>1
    <3> QED BY <1>2, <3>1, <3>4, <3>5
  <2>5. CASE i > k + 2
    <3>1. /\ i - 1 \in 1 .. n /\ i \in k + 2 .. n + 2 /\ i + 1 \in k + 2 .. n + 2 /\ i - 1 \in k + 2 .. n + 2
          /\ (i - 1) + 1 = i /\ (i + 1) - 1 = i /\ k + 1 \in 1 .. n /\ k + 1 # i - 1
      BY <1>1, <2>5
    <3>2. s[i - 1] # s[k + 1]
      BY <1>4, <3>1
    <3>3. s[i - 1] # s[k]
      <4>1. CASE k = 0
        BY <1>1, <1>2, <3>1, <4>1
      <4>2. CASE k # 0
        <5>1. k \in 1 .. n /\ k # i - 1
          BY <1>1, <2>5, <4>2
        <5> QED BY <1>4, <3>1, <5>1
      <4> QED BY <4>1, <4>2
    <3>4. m.link[s[i - 1]] = l.link[s[i - 1]]
      BY <1>2, <3>1, <3>2, <3>3
    <3>5. m.link[s[i - 1]] = [next |-> s[(i - 1) + 1], prev |-> s[(i - 1) - 1]]
      BY <1>3, <3>1, <3>4
    <3>6. r[i] = s[i - 1] /\ r[i + 1] = s[i] /\ r[i - 1] = s[(i - 1) - 1]
      BY <1>5, <3>1
    <3> QED BY <1>2, <3>1, <3>5, <3>6
  <2> QED BY <1>1, <2>1, <2>2, <2>3, <2>4, <2>5
<1>9. ASSUME NEW u \in R \cup {t} PROVE \E i \in 1 .. n + 1 : r[i] = u
  <2>1. CASE u = t
    <3>1. k + 1 \in 1 .. n + 1
      BY <1>1
    <3> QED BY <1>5, <2>1, <3>1
  <2>2. CASE u \in R
    <3>1. PICK i \in 1 .. n : s[i] = u
      BY <2>2 DEF Linked
    <3>2. CASE i =< k
      <4>1. i \in 0 .. k /\ i \in 1 .. n + 1
        BY <1>1, <3>2
      <4> QED BY <1>5, <3>1, <4>1
    <3>3. CASE i > k
      <4>1. i + 1 \in k + 2 .. n + 2 /\ i + 1 \in 1 .. n + 1 /\ (i + 1) - 1 = i
        BY <1>1, <3>3
      <4> QED BY <1>5, <3>1, <4>1
    <3>4. i =< k \/ i > k
      BY <1>1
    <3> QED BY <3>2, <3>3, <3>4
  <2> QED BY <2>1, <2>2
<1>10. ASSUME NEW i \in 1 .. n + 1, NEW j \in 1 .. n + 1, r[i] = r[j] PROVE i = j
  <2> DEFINE at(x) == IF x =< k THEN x ELSE x - 1
  <2>1. \A x \in 1 .. n + 1 : x # k + 1 => at(x) \in 1 .. n /\ r[x] = s[at(x)]
    <3>1. ASSUME NEW x \in 1 .. n + 1, x =< k PROVE at(x) \in 1 .. n /\ r[x] = s[at(x)]
      BY <1>1, <1>5, <3>1
    <3>2. ASSUME NEW x \in 1 .. n + 1, x > k + 1 PROVE at(x) \in 1 .. n /\ r[x] = s[at(x)]
      <4>1. x \in k + 2 .. n + 2 /\ x - 1 \in 1 .. n /\ ~(x =< k)
        BY <1>1, <3>2
      <4> QED BY <1>5, <4>1
    <3> QED BY <1>1, <3>1, <3>2
  <2>2. CASE i # k + 1 /\ j # k + 1
    <3>1. at(i) = at(j)
      BY <1>4, <1>10, <2>1, <2>2
    <3> QED BY <1>1, <2>2, <3>1
  <2>3. CASE i = k + 1
    <3>1. r[i] = t
      BY <1>5, <2>3
    <3> QED BY <1>2, <1>10, <2>1, <2>3, <3>1
  <2>4. CASE j = k + 1
    <3>1. r[j] = t
      BY <1>5, <2>4
    <3> QED BY <1>2, <1>10, <2>1, <2>4, <3>1
  <2> QED BY <2>2, <2>3, <2>4
<1>11. (n + 1) + 1 = n + 2 /\ n + 1 \in Nat
  BY <1>1
<1> QED BY <1>6, <1>7, <1>8, <1>9, <1>10, <1>11 DEF Linked

-----------------------------------------------------------------------------
(* The j-th timer unlinked, and the order of expiry                        *)

\* The j-th timer taken out.
LEMMA SpliceOut ==
  ASSUME NEW l, NEW R, R \subseteq TimerIds, NEW s, NEW n, Linked(l, R, s, n),
         NEW j \in 1 .. n, NEW t, t = s[j], NEW m,
         m.head = IF t = l.head THEN s[j + 1] ELSE l.head,
         \A u \in TimerIds \ {t} :
           /\ u = s[j - 1] => m.link[u] = [next |-> s[j + 1], prev |-> l.link[u].prev]
           /\ u # s[j - 1] /\ u = s[j + 1] => m.link[u] = [next |-> l.link[u].next, prev |-> s[j - 1]]
           /\ u # s[j - 1] /\ u # s[j + 1] => m.link[u] = l.link[u],
         NEW r, r = [i \in 0 .. n |-> IF i < j THEN s[i] ELSE s[i + 1]]
  PROVE  Linked(m, R \ {t}, r, n - 1)
<1>1. n \in Nat /\ s[0] = Null /\ s[n + 1] = Null /\ l.head = s[1]
  BY DEF Linked
<1>2. \A i \in 1 .. n : s[i] \in R /\ s[i] \in TimerIds /\ s[i] # Null
  <2>1. \A i \in 1 .. n : s[i] \in R
    BY DEF Linked
  <2> QED BY <2>1, Ids
<1>3. \A i \in 1 .. n : l.link[s[i]].next = s[i + 1] /\ l.link[s[i]].prev = s[i - 1]
                        /\ l.link[s[i]] = [next |-> s[i + 1], prev |-> s[i - 1]]
  BY DEF Linked
<1>4. \A i, k \in 1 .. n : s[i] = s[k] => i = k
  BY DEF Linked
<1>5. \A i \in 1 .. n, k \in 0 .. n + 1 : s[i] = s[k] => i = k
  <2>1. ASSUME NEW i \in 1 .. n, NEW k \in 0 .. n + 1, s[i] = s[k] PROVE i = k
    <3>1. k # 0 /\ k # n + 1
      BY <1>1, <1>2, <2>1
    <3>2. k \in 1 .. n
      BY <1>1, <3>1
    <3> QED BY <1>4, <2>1, <3>2
  <2> QED BY <2>1
<1>6. /\ \A i \in 0 .. j - 1 : r[i] = s[i]
      /\ \A i \in j .. n : r[i] = s[i + 1]
  BY <1>1
<1>7. r[0] = Null /\ r[n] = Null
  <2>1. 0 \in 0 .. j - 1 /\ n \in j .. n
    BY <1>1
  <2> QED BY <1>1, <1>6, <2>1
<1>8. m.head = r[1]
  <2>1. CASE j = 1
    <3>1. t = l.head /\ 1 \in j .. n
      BY <1>1, <2>1
    <3> QED BY <1>6, <2>1, <3>1
  <2>2. CASE j # 1
    <3>1. 1 \in 1 .. n /\ 1 \in 0 .. j - 1
      BY <1>1, <2>2
    <3>2. s[1] # t
      BY <1>4, <2>2, <3>1
    <3> QED BY <1>1, <1>6, <3>1, <3>2
  <2> QED BY <2>1, <2>2
<1>9. ASSUME NEW i \in 1 .. n - 1
      PROVE  r[i] \in R \ {t} /\ m.link[r[i]] = [next |-> r[i + 1], prev |-> r[i - 1]]
  <2>1. CASE i < j - 1
    <3>1. /\ i \in 1 .. n /\ i \in 0 .. j - 1 /\ i + 1 \in 0 .. j - 1 /\ i - 1 \in 0 .. j - 1
          /\ j - 1 \in 0 .. n + 1 /\ j + 1 \in 0 .. n + 1 /\ i # j - 1 /\ i # j + 1 /\ i # j
      BY <1>1, <2>1
    <3>2. s[i] # s[j - 1] /\ s[i] # s[j + 1] /\ s[i] # t
      BY <1>4, <1>5, <3>1
    <3>3. m.link[s[i]] = l.link[s[i]]
      BY <1>2, <3>1, <3>2
    <3>4. r[i] = s[i] /\ r[i + 1] = s[i + 1] /\ r[i - 1] = s[i - 1]
      BY <1>6, <3>1
    <3> QED BY <1>2, <1>3, <3>1, <3>2, <3>3, <3>4
  <2>2. CASE i = j - 1
    <3>1. i \in 1 .. n /\ i \in 0 .. j - 1 /\ i - 1 \in 0 .. j - 1 /\ i + 1 \in j .. n /\ i + 1 = j /\ i # j
      BY <1>1, <2>2
    <3>2. s[i] # t
      BY <1>4, <3>1
    <3>3. m.link[s[i]] = [next |-> s[j + 1], prev |-> l.link[s[i]].prev]
      BY <1>2, <2>2, <3>1, <3>2
    <3>4. m.link[s[i]] = [next |-> s[j + 1], prev |-> s[i - 1]]
      BY <1>3, <3>1, <3>3
    <3>5. r[i] = s[i] /\ r[i + 1] = s[j + 1] /\ r[i - 1] = s[i - 1]
      BY <1>6, <3>1
    <3> QED BY <1>2, <3>1, <3>2, <3>4, <3>5
  <2>3. CASE i = j
    <3>1. /\ j + 1 \in 1 .. n /\ j - 1 \in 0 .. n + 1 /\ j + 1 # j - 1 /\ j + 1 # j
          /\ i \in j .. n /\ i + 1 \in j .. n /\ i - 1 \in 0 .. j - 1 /\ (j + 1) - 1 = j
      BY <1>1, <2>3
    <3>2. s[j + 1] # s[j - 1] /\ s[j + 1] # t
      BY <1>4, <1>5, <3>1
    <3>3. m.link[s[j + 1]] = [next |-> l.link[s[j + 1]].next, prev |-> s[j - 1]]
      BY <1>2, <3>1, <3>2
    <3>4. m.link[s[j + 1]] = [next |-> s[(j + 1) + 1], prev |-> s[j - 1]]
      BY <1>3, <3>1, <3>3
    <3>5. r[i] = s[j + 1] /\ r[i + 1] = s[(j + 1) + 1] /\ r[i - 1] = s[j - 1]
      BY <1>6, <2>3, <3>1
    <3> QED BY <1>2, <3>1, <3>2, <3>4, <3>5
  <2>4. CASE i > j
    <3>1. /\ i + 1 \in 1 .. n /\ j - 1 \in 0 .. n + 1 /\ j + 1 \in 0 .. n + 1
          /\ i + 1 # j - 1 /\ i + 1 # j + 1 /\ i + 1 # j
          /\ i \in j .. n /\ i + 1 \in j .. n /\ i - 1 \in j .. n /\ (i - 1) + 1 = (i + 1) - 1
      BY <1>1, <2>4
    <3>2. s[i + 1] # s[j - 1] /\ s[i + 1] # s[j + 1] /\ s[i + 1] # t
      BY <1>4, <1>5, <3>1
    <3>3. m.link[s[i + 1]] = l.link[s[i + 1]]
      BY <1>2, <3>1, <3>2
    <3>4. m.link[s[i + 1]] = [next |-> s[(i + 1) + 1], prev |-> s[(i + 1) - 1]]
      BY <1>3, <3>1, <3>3
    <3>5. r[i] = s[i + 1] /\ r[i + 1] = s[(i + 1) + 1] /\ r[i - 1] = s[(i + 1) - 1]
      BY <1>6, <3>1
    <3> QED BY <1>2, <3>1, <3>2, <3>4, <3>5
  <2>5. i < j - 1 \/ i = j - 1 \/ i = j \/ i > j
    BY <1>1
  <2> QED BY <2>1, <2>2, <2>3, <2>4, <2>5
<1>10. ASSUME NEW u \in R \ {t} PROVE \E i \in 1 .. n - 1 : r[i] = u
  <2>1. PICK i \in 1 .. n : s[i] = u
    BY DEF Linked
  <2>2. CASE i < j
    <3>1. i \in 0 .. j - 1 /\ i \in 1 .. n - 1
      BY <1>1, <2>2
    <3> QED BY <1>6, <2>1, <3>1
  <2>3. CASE i > j
    <3>1. i - 1 \in j .. n /\ i - 1 \in 1 .. n - 1 /\ (i - 1) + 1 = i
      BY <1>1, <2>3
    <3> QED BY <1>6, <2>1, <3>1
  <2>4. i < j \/ i > j
    BY <1>1, <2>1
  <2> QED BY <2>2, <2>3, <2>4
<1>11. ASSUME NEW i \in 1 .. n - 1, NEW k \in 1 .. n - 1, r[i] = r[k] PROVE i = k
  <2> DEFINE at(x) == IF x < j THEN x ELSE x + 1
  <2>1. \A x \in 1 .. n - 1 : at(x) \in 1 .. n /\ r[x] = s[at(x)]
    <3>1. ASSUME NEW x \in 1 .. n - 1, x < j PROVE at(x) \in 1 .. n /\ r[x] = s[at(x)]
      <4>1. x \in 0 .. j - 1 /\ x \in 1 .. n
        BY <1>1, <3>1
      <4> QED BY <1>6, <3>1, <4>1
    <3>2. ASSUME NEW x \in 1 .. n - 1, ~(x < j) PROVE at(x) \in 1 .. n /\ r[x] = s[at(x)]
      <4>1. x \in j .. n /\ x + 1 \in 1 .. n
        BY <1>1, <3>2
      <4> QED BY <1>6, <3>2, <4>1
    <3> QED BY <3>1, <3>2
  <2>2. at(i) \in 1 .. n /\ at(k) \in 1 .. n /\ s[at(i)] = s[at(k)]
    BY <1>11, <2>1
  <2> HIDE DEF at
  <2>3. at(i) = at(k)
    BY <1>4, <2>2
  <2> QED BY <1>1, <2>3 DEF at
<1>12. n - 1 \in Nat /\ (n - 1) + 1 = n
  BY <1>1
<1> QED BY <1>7, <1>8, <1>9, <1>10, <1>11, <1>12 DEF Linked

\* Order of expiry: total, so it survives the removal of a timer.
Expiries == [us : 0 .. Modulus - 1, era : Nat]

LEMMA OrderTransitive ==
  ASSUME NEW a \in Expiries, NEW b \in Expiries, NEW c \in Expiries,
         ~ExpiresBefore(b, a), ~ExpiresBefore(c, b)
  PROVE  ~ExpiresBefore(c, a)
BY TimersAssumption DEF ExpiresBefore, Expiries

LEMMA RemovalOrder ==
  ASSUME NEW s, NEW n \in Nat, NEW ex, \A i \in 1 .. n : ex[s[i]] \in Expiries, InOrder(ex, s, n),
         NEW j \in 1 .. n, NEW r, r = [i \in 0 .. n |-> IF i < j THEN s[i] ELSE s[i + 1]]
  PROVE  InOrder(ex, r, n - 1)
<1> SUFFICES ASSUME NEW i \in 1 .. n - 1, i < n - 1 PROVE ~ExpiresBefore(ex[r[i + 1]], ex[r[i]])
  BY DEF InOrder
<1>1. i \in 1 .. n /\ i + 1 \in 1 .. n /\ i + 2 \in 1 .. n /\ i < n /\ i + 1 < n /\ (i + 1) + 1 = i + 2
  OBVIOUS
<1>2. ~ExpiresBefore(ex[s[i + 1]], ex[s[i]]) /\ ~ExpiresBefore(ex[s[i + 2]], ex[s[i + 1]])
  BY <1>1 DEF InOrder
<1>3. ~ExpiresBefore(ex[s[i + 2]], ex[s[i]])
  BY <1>1, <1>2, OrderTransitive
<1>4. \/ r[i] = s[i] /\ r[i + 1] = s[i + 1]
      \/ r[i] = s[i] /\ r[i + 1] = s[i + 2]
      \/ r[i] = s[i + 1] /\ r[i + 1] = s[i + 2]
  <2>1. CASE i + 1 < j
    BY <1>1, <2>1
  <2>2. CASE i + 1 = j
    BY <1>1, <2>2
  <2>3. CASE i + 1 > j
    BY <1>1, <2>3
  <2> QED BY <1>1, <2>1, <2>2, <2>3
<1> QED BY <1>2, <1>3, <1>4

LEMMA InsertionOrder ==
  ASSUME NEW s, NEW n \in Nat, NEW ex, InOrder(ex, s, n), NEW t, NEW k \in 0 .. n,
         k > 0 => ExpiresBefore(ex[s[k]], ex[t]), k < n => ~ExpiresBefore(ex[s[k + 1]], ex[t]),
         \A i \in 1 .. n : ex[s[i]] \in Expiries, ex[t] \in Expiries,
         NEW r, r = [i \in 0 .. n + 2 |-> IF i =< k THEN s[i] ELSE IF i = k + 1 THEN t ELSE s[i - 1]]
  PROVE  InOrder(ex, r, n + 1)
<1> SUFFICES ASSUME NEW i \in 1 .. n + 1, i < n + 1 PROVE ~ExpiresBefore(ex[r[i + 1]], ex[r[i]])
  BY DEF InOrder
<1>1. i \in 0 .. n + 2 /\ i + 1 \in 0 .. n + 2 /\ i \in 1 .. n /\ (i + 1) - 1 = i
  OBVIOUS
<1>2. CASE i < k
  <2>1. r[i] = s[i] /\ r[i + 1] = s[i + 1] /\ i < n
    BY <1>1, <1>2
  <2> QED BY <1>1, <2>1 DEF InOrder
<1>3. CASE i = k
  <2>1. r[i] = s[k] /\ r[i + 1] = t /\ k > 0 /\ k \in 1 .. n
    BY <1>1, <1>3
  <2>2. ASSUME NEW a \in Expiries, NEW b \in Expiries, ExpiresBefore(a, b) PROVE ~ExpiresBefore(b, a)
    BY <2>2, TimersAssumption DEF ExpiresBefore, Expiries
  <2> QED BY <2>1, <2>2
<1>4. CASE i = k + 1
  <2>1. r[i] = t /\ r[i + 1] = s[k + 1] /\ k < n
    BY <1>1, <1>4
  <2> QED BY <2>1
<1>5. CASE i > k + 1
  <2>1. r[i] = s[i - 1] /\ r[i + 1] = s[i] /\ i - 1 \in 1 .. n /\ i - 1 < n /\ (i - 1) + 1 = i
    BY <1>1, <1>5
  <2> QED BY <2>1 DEF InOrder
<1> QED BY <1>2, <1>3, <1>4, <1>5

-----------------------------------------------------------------------------
(* soft_timer_start and prv_remove_timer on the list                       *)

Links == [next : TimerIds \cup {Null}, prev : TimerIds \cup {Null}]

LEMMA Places ==
  ASSUME NEW l, NEW R, R \subseteq TimerIds, NEW s, NEW n, Linked(l, R, s, n)
  PROVE  \A i \in 0 .. n + 1 : s[i] \in TimerIds \cup {Null} /\ (s[i] # Null => s[i] \in R)
<1>1. n \in Nat /\ s[0] = Null /\ s[n + 1] = Null
  BY DEF Linked
<1>2. \A i \in 1 .. n : s[i] \in R
  BY DEF Linked
<1>3. ASSUME NEW i \in 0 .. n + 1 PROVE i = 0 \/ i = n + 1 \/ i \in 1 .. n
  BY <1>1
<1> QED BY <1>1, <1>2, <1>3

\* The least place at which timer t may stand.
Found(l, ex, t) == Min({i \in DOMAIN Walk(l) : Walk(l)[i] = Null \/ ~ExpiresBefore(ex[Walk(l)[i]], ex[t])})

Put(l, t, prev, next) ==
  [l EXCEPT !.head = IF prev = Null THEN t ELSE @,
            !.link = [u \in TimerIds |->
                        CASE u = t    -> [next |-> next, prev |-> prev]
                          [] u = prev -> [@[u] EXCEPT !.next = t]
                          [] u = next -> [@[u] EXCEPT !.prev = t]
                          [] OTHER    -> @[u]]]

LEMMA InsertedPuts ==
  ASSUME NEW l, NEW ex, NEW t
  PROVE  Inserted(l, ex, t) = Put(l, t, IF Found(l, ex, t) = 0 THEN Null ELSE Walk(l)[Found(l, ex, t) - 1],
                                  Walk(l)[Found(l, ex, t)])
BY DEF Inserted, Put, Found

FoundAt(l, ex, t, s, n, k) ==
  /\ k \in 0 .. n /\ k = Found(l, ex, t)
  /\ Walk(l)[k] = s[k + 1] /\ (k > 0 => Walk(l)[k - 1] = s[k])
  /\ k > 0 => ExpiresBefore(ex[s[k]], ex[t])
  /\ k < n => ~ExpiresBefore(ex[s[k + 1]], ex[t])

\* The place the loop of soft_timer_start finds.
LEMMA InsertionPlace ==
  ASSUME NEW l, NEW R, R \subseteq TimerIds, NEW s, NEW n, Linked(l, R, s, n), NEW ex, NEW t
  PROVE  \E k : FoundAt(l, ex, t, s, n, k)
<1>1. PICK w, k : w = Walk(l) /\ k = Found(l, ex, t)
  OBVIOUS
<1>2. w = [i \in 0 .. Size |-> IF i =< n THEN s[i + 1] ELSE Null]
  <2>1. Walk(l) = [i \in 0 .. Size |-> IF i =< n THEN s[i + 1] ELSE Null]
    BY WalkFollows
  <2> QED BY <1>1, <2>1
<1>3. DOMAIN w = 0 .. Size /\ n \in 0 .. Size /\ Size \in Nat
  BY <1>2, Ids, LinkedFits
<1> DEFINE K == {i \in DOMAIN w : w[i] = Null \/ ~ExpiresBefore(ex[w[i]], ex[t])}
<1>4. k = Min(K)
  BY <1>1 DEF Found
<1>5. n \in K
  <2>1. w[n] = s[n + 1] /\ s[n + 1] = Null
    BY <1>2, <1>3 DEF Linked
  <2> QED BY <1>3, <2>1
<1>6. K \subseteq Nat
  BY <1>3
<1>7. k \in K /\ \A i \in K : k =< i
  <2> HIDE DEF K
  <2> QED BY <1>4, <1>5, <1>6, MinLeast
<1>8. k \in 0 .. n
  BY <1>3, <1>5, <1>6, <1>7
<1>9. w[k] = s[k + 1]
  BY <1>2, <1>3, <1>8
<1>10. ASSUME k > 0 PROVE w[k - 1] = s[k] /\ ExpiresBefore(ex[s[k]], ex[t])
  <2>1. k - 1 \in DOMAIN w /\ k - 1 \notin K /\ k - 1 =< n /\ (k - 1) + 1 = k
    <3>1. n \in Nat /\ k - 1 \in 0 .. Size /\ k - 1 =< n /\ (k - 1) + 1 = k /\ ~(k =< k - 1)
      BY <1>3, <1>8, <1>10
    <3> HIDE DEF K
    <3> QED BY <1>3, <1>7, <3>1
  <2>2. w[k - 1] = s[k]
    BY <1>2, <1>3, <2>1
  <2> QED BY <2>1, <2>2
<1>11. ASSUME k < n PROVE ~ExpiresBefore(ex[s[k + 1]], ex[t])
  <2>1. s[k + 1] \in R /\ s[k + 1] # Null
    <3>1. k + 1 \in 1 .. n
      BY <1>3, <1>8, <1>11
    <3>2. s[k + 1] \in R
      BY <3>1 DEF Linked
    <3> QED BY <3>2, Ids
  <2> QED BY <1>7, <1>9, <2>1
<1>12. FoundAt(l, ex, t, s, n, k)
  BY <1>1, <1>8, <1>9, <1>10, <1>11 DEF FoundAt
<1> QED BY <1>12

LEMMA InsertedLinked ==
  ASSUME NEW l, ListShape(l), l.link \in [TimerIds -> Links], NEW R, R \subseteq TimerIds,
         NEW s, NEW n, Linked(l, R, s, n), NEW ex, ex \in [TimerIds -> Expiries], InOrder(ex, s, n),
         NEW t \in TimerIds \ R
  PROVE  /\ ListShape(Inserted(l, ex, t))
         /\ Inserted(l, ex, t).free = l.free
         /\ Inserted(l, ex, t).link \in [TimerIds -> Links]
         /\ \A u \in TimerIds \ (R \cup {t}) : Inserted(l, ex, t).link[u] = l.link[u]
         /\ \E r : Linked(Inserted(l, ex, t), R \cup {t}, r, n + 1) /\ InOrder(ex, r, n + 1)
<1>1. PICK k : FoundAt(l, ex, t, s, n, k)
  BY InsertionPlace
<1>2. /\ k \in 0 .. n /\ k = Found(l, ex, t)
      /\ Walk(l)[k] = s[k + 1] /\ (k > 0 => Walk(l)[k - 1] = s[k])
      /\ k > 0 => ExpiresBefore(ex[s[k]], ex[t])
      /\ k < n => ~ExpiresBefore(ex[s[k + 1]], ex[t])
  BY <1>1 DEF FoundAt
<1>3. PICK prev, next : prev = s[k] /\ next = s[k + 1]
  OBVIOUS
<1>4. n \in Nat /\ s[0] = Null /\ \A i \in 0 .. n + 1 : s[i] \in TimerIds \cup {Null} /\ (s[i] # Null => s[i] \in R)
  BY Places DEF Linked
<1>5. /\ prev \in TimerIds \cup {Null} /\ (prev # Null => prev \in R)
      /\ next \in TimerIds \cup {Null} /\ (next # Null => next \in R)
  BY <1>2, <1>3, <1>4
<1>6. prev = Null <=> k = 0
  <2>1. CASE k = 0
    BY <1>3, <1>4, <2>1
  <2>2. CASE k # 0
    <3>1. k \in 1 .. n
      BY <1>2, <1>4, <2>2
    <3>2. s[k] \in R
      BY <3>1 DEF Linked
    <3> QED BY <1>3, <2>2, <3>2, Ids
  <2> QED BY <2>1, <2>2
<1>7. (IF k = 0 THEN Null ELSE Walk(l)[k - 1]) = prev /\ Walk(l)[k] = next
  BY <1>2, <1>3, <1>6
<1>apart. prev # t /\ next # t /\ t # Null /\ (prev = next => prev = Null)
  <2>1. prev # t /\ next # t /\ t # Null
    BY <1>5, Ids
  <2>2. ASSUME prev = next, prev # Null PROVE FALSE
    <3>1. k \in 1 .. n
      BY <1>2, <1>4, <1>6, <2>2
    <3>2. k + 1 # n + 1
      BY <1>3, <2>2 DEF Linked
    <3>3. k + 1 \in 1 .. n /\ k + 1 # k
      BY <1>4, <3>1, <3>2
    <3> QED BY <1>3, <2>2, <3>1, <3>3 DEF Linked
  <2> QED BY <2>1, <2>2
<1> DEFINE link(u) == CASE u = t    -> [next |-> next, prev |-> prev]
                        [] u = prev -> [l.link[u] EXCEPT !.next = t]
                        [] u = next -> [l.link[u] EXCEPT !.prev = t]
                        [] OTHER    -> l.link[u]
<1>8. PICK m : m = Inserted(l, ex, t)
  OBVIOUS
<1>9. m = [l EXCEPT !.head = IF prev = Null THEN t ELSE @, !.link = [u \in TimerIds |-> link(u)]]
  <2>1. m = Put(l, t, prev, next)
    BY <1>2, <1>7, <1>8, InsertedPuts
  <2> QED BY <2>1 DEF Put
<1>10. /\ m.head = (IF prev = Null THEN t ELSE l.head) /\ m.free = l.free
       /\ m.link = [u \in TimerIds |-> link(u)]
       /\ m = [head |-> m.head, link |-> m.link, free |-> m.free]
  <2> HIDE DEF link
  <2>1. PICK h, q, f : l = [head |-> h, link |-> q, free |-> f]
    BY DEF ListShape
  <2> QED BY <1>9, <2>1
<1>11. ASSUME NEW u \in TimerIds
       PROVE  /\ u = t => m.link[u] = [next |-> next, prev |-> prev]
              /\ u # t /\ u = prev => m.link[u] = [next |-> t, prev |-> l.link[u].prev]
              /\ u # t /\ u # prev /\ u = next => m.link[u] = [next |-> l.link[u].next, prev |-> t]
              /\ u # t /\ u # prev /\ u # next => m.link[u] = l.link[u]
  <2>1. m.link[u] = link(u)
    <3> HIDE DEF link
    <3> QED BY <1>10
  <2>2. PICK a, b : l.link[u] = [next |-> a, prev |-> b]
    BY DEF Links
  <2>3. [l.link[u] EXCEPT !.next = t] = [next |-> t, prev |-> b] /\ [l.link[u] EXCEPT !.prev = t] = [next |-> a, prev |-> t]
    BY <2>2
  <2>4. l.link[u].next = a /\ l.link[u].prev = b
    BY <2>2
  <2>5. CASE u = t
    BY <1>apart, <2>1, <2>5
  <2>6. CASE u # t /\ u = prev
    BY <1>apart, <2>1, <2>3, <2>4, <2>6, Ids
  <2>7. CASE u # t /\ u # prev /\ u = next
    BY <1>apart, <2>1, <2>3, <2>4, <2>7, Ids
  <2>8. CASE u # t /\ u # prev /\ u # next
    BY <1>apart, <2>1, <2>8
  <2> QED BY <2>5, <2>6, <2>7, <2>8
<1>12. ASSUME NEW u \in TimerIds PROVE m.link[u] \in Links
  <2>1. l.link[u] \in Links /\ l.link[u].next \in TimerIds \cup {Null} /\ l.link[u].prev \in TimerIds \cup {Null}
    BY DEF Links
  <2>2. /\ [next |-> next, prev |-> prev] \in Links /\ [next |-> t, prev |-> l.link[u].prev] \in Links
        /\ [next |-> l.link[u].next, prev |-> t] \in Links
    BY <1>5, <2>1 DEF Links
  <2> QED BY <1>11, <2>1, <2>2
<1>13. m.link \in [TimerIds -> Links] /\ ListShape(m)
  <2>1. DOMAIN m.link = TimerIds
    <3> HIDE DEF link
    <3> QED BY <1>10
  <2>2. m.link = [u \in TimerIds |-> m.link[u]]
    <3> HIDE DEF link
    <3> QED BY <1>10
  <2> QED BY <1>10, <1>12, <2>2 DEF ListShape
<1>14. \A u \in TimerIds \ (R \cup {t}) : m.link[u] = l.link[u]
  BY <1>5, <1>11, Ids
<1> DEFINE r == [i \in 0 .. n + 2 |-> IF i =< k THEN s[i] ELSE IF i = k + 1 THEN t ELSE s[i - 1]]
<1>15. Linked(m, R \cup {t}, r, n + 1)
  <2>1. m.head = IF k = 0 THEN t ELSE l.head
    BY <1>6, <1>10
  <2>2. /\ \A u \in TimerIds :
           /\ u = t => m.link[u] = [next |-> s[k + 1], prev |-> s[k]]
           /\ u # t /\ u = s[k] => m.link[u] = [next |-> t, prev |-> l.link[u].prev]
           /\ u # t /\ u # s[k] /\ u = s[k + 1] => m.link[u] = [next |-> l.link[u].next, prev |-> t]
           /\ u # t /\ u # s[k] /\ u # s[k + 1] => m.link[u] = l.link[u]
    BY <1>3, <1>11
  <2>3. \E q : q = r
    OBVIOUS
  <2> HIDE DEF r
  <2>4. PICK q : q = r
    BY <2>3
  <2>5. q = [i \in 0 .. n + 2 |-> IF i =< k THEN s[i] ELSE IF i = k + 1 THEN t ELSE s[i - 1]]
    BY <2>4 DEF r
  <2>6. Linked(m, R \cup {t}, q, n + 1)
    BY <1>2, <2>1, <2>2, <2>5, SpliceIn
  <2> QED BY <2>4, <2>6
<1>16. InOrder(ex, r, n + 1)
  <2>1. \A i \in 1 .. n : ex[s[i]] \in Expiries
    <3>1. \A i \in 1 .. n : s[i] \in TimerIds
      BY DEF Linked
    <3> QED BY <3>1
  <2>2. ex[t] \in Expiries
    OBVIOUS
  <2> HIDE DEF r
  <2>3. PICK q : q = r
    OBVIOUS
  <2>4. q = [i \in 0 .. n + 2 |-> IF i =< k THEN s[i] ELSE IF i = k + 1 THEN t ELSE s[i - 1]]
    BY <2>3 DEF r
  <2>5. /\ k > 0 => ExpiresBefore(ex[s[k]], ex[t])
        /\ k < n => ~ExpiresBefore(ex[s[k + 1]], ex[t])
        /\ n \in Nat /\ k \in 0 .. n
    BY <1>2, <1>4
  <2>6. InOrder(ex, q, n + 1)
    BY <2>1, <2>2, <2>4, <2>5, InsertionOrder
  <2> QED BY <2>3, <2>6
<1> HIDE DEF r, link
<1> QED BY <1>8, <1>10, <1>13, <1>14, <1>15, <1>16

\* prv_remove_timer of a timer of the list.
LEMMA RemovedLinked ==
  ASSUME NEW l, l.link \in [TimerIds -> Links], NEW R, R \subseteq TimerIds,
         NEW s, NEW n, Linked(l, R, s, n), NEW ex, ex \in [TimerIds -> Expiries], InOrder(ex, s, n),
         NEW t \in R
  PROVE  /\ ListShape(Removed(l, t))
         /\ Removed(l, t).free = l.free \cup {t}
         /\ Removed(l, t).link \in [TimerIds -> Links]
         /\ Removed(l, t).link[t] = Unlinked
         /\ \A u \in TimerIds \ R : Removed(l, t).link[u] = l.link[u]
         /\ n - 1 \in Nat
         /\ \E r : Linked(Removed(l, t), R \ {t}, r, n - 1) /\ InOrder(ex, r, n - 1)
<1>1. PICK j \in 1 .. n : s[j] = t
  BY DEF Linked
<1>2. l.link[t] = [next |-> s[j + 1], prev |-> s[j - 1]]
  BY <1>1 DEF Linked
<1>3. PICK prev, next : prev = s[j - 1] /\ next = s[j + 1]
  OBVIOUS
<1>4. n \in Nat /\ \A i \in 0 .. n + 1 : s[i] \in TimerIds \cup {Null} /\ (s[i] # Null => s[i] \in R)
  BY Places DEF Linked
<1>5. /\ prev \in TimerIds \cup {Null} /\ (prev # Null => prev \in R)
      /\ next \in TimerIds \cup {Null} /\ (next # Null => next \in R)
  <2>1. j - 1 \in 0 .. n + 1 /\ j + 1 \in 0 .. n + 1
    BY <1>4
  <2> QED BY <1>3, <1>4, <2>1
<1>6. l.link[t].next = next /\ l.link[t].prev = prev
  BY <1>2, <1>3
<1>apart. prev # t /\ next # t /\ (prev = next => prev = Null)
  <2>1. \A i, k \in 1 .. n : s[i] = s[k] => i = k
    BY DEF Linked
  <2>2. prev # Null => j - 1 \in 1 .. n
    BY <1>3, <1>4 DEF Linked
  <2>3. next # Null => j + 1 \in 1 .. n
    BY <1>3, <1>4 DEF Linked
  <2>4. j - 1 # j /\ j + 1 # j /\ j - 1 # j + 1 /\ t # Null
    BY <1>4, Ids
  <2> QED BY <1>1, <1>3, <2>1, <2>2, <2>3, <2>4
<1> DEFINE link(u) == CASE u = t    -> Unlinked
                        [] u = prev -> [l.link[u] EXCEPT !.next = next]
                        [] u = next -> [l.link[u] EXCEPT !.prev = prev]
                        [] OTHER    -> l.link[u]
<1>7. PICK m : m = Removed(l, t)
  OBVIOUS
<1>8. m = [head |-> IF t = l.head THEN next ELSE l.head, link |-> [u \in TimerIds |-> link(u)],
           free |-> l.free \cup {t}]
  BY <1>6, <1>7 DEF Removed
<1>9. /\ m.head = (IF t = l.head THEN next ELSE l.head) /\ m.free = l.free \cup {t}
      /\ m.link = [u \in TimerIds |-> link(u)]
      /\ m = [head |-> m.head, link |-> m.link, free |-> m.free]
  <2> HIDE DEF link
  <2> QED BY <1>8
<1>10. ASSUME NEW u \in TimerIds
       PROVE  /\ u = t => m.link[u] = Unlinked
              /\ u # t /\ u = prev => m.link[u] = [next |-> next, prev |-> l.link[u].prev]
              /\ u # t /\ u # prev /\ u = next => m.link[u] = [next |-> l.link[u].next, prev |-> prev]
              /\ u # t /\ u # prev /\ u # next => m.link[u] = l.link[u]
  <2>1. m.link[u] = link(u)
    <3> HIDE DEF link
    <3> QED BY <1>9
  <2>2. PICK a, b : l.link[u] = [next |-> a, prev |-> b]
    BY DEF Links
  <2>3. /\ [l.link[u] EXCEPT !.next = next] = [next |-> next, prev |-> b]
        /\ [l.link[u] EXCEPT !.prev = prev] = [next |-> a, prev |-> prev]
    BY <2>2
  <2>4. l.link[u].next = a /\ l.link[u].prev = b
    BY <2>2
  <2>5. CASE u = t
    BY <1>apart, <2>1, <2>5
  <2>6. CASE u # t /\ u = prev
    BY <1>apart, <2>1, <2>3, <2>4, <2>6, Ids
  <2>7. CASE u # t /\ u # prev /\ u = next
    BY <1>apart, <2>1, <2>3, <2>4, <2>7, Ids
  <2>8. CASE u # t /\ u # prev /\ u # next
    BY <1>apart, <2>1, <2>8
  <2> QED BY <2>5, <2>6, <2>7, <2>8
<1>11. ASSUME NEW u \in TimerIds PROVE m.link[u] \in Links
  <2>1. l.link[u] \in Links /\ l.link[u].next \in TimerIds \cup {Null} /\ l.link[u].prev \in TimerIds \cup {Null}
    BY DEF Links
  <2>2. Unlinked \in Links
    BY DEF Unlinked, Links
  <2>3. [next |-> next, prev |-> l.link[u].prev] \in Links /\ [next |-> l.link[u].next, prev |-> prev] \in Links
    BY <1>5, <2>1 DEF Links
  <2> QED BY <1>10, <2>1, <2>2, <2>3
<1>12. m.link \in [TimerIds -> Links] /\ ListShape(m)
  <2>1. m.link = [u \in TimerIds |-> m.link[u]]
    <3> HIDE DEF link
    <3> QED BY <1>9
  <2> QED BY <1>9, <1>11, <2>1 DEF ListShape
<1>13. \A u \in TimerIds \ R : m.link[u] = l.link[u]
  BY <1>5, <1>10, Ids
<1>14. m.link[t] = Unlinked
  BY <1>10
<1> HIDE DEF link
<1> DEFINE r == [i \in 0 .. n |-> IF i < j THEN s[i] ELSE s[i + 1]]
<1>15. PICK q : q = r
  OBVIOUS
<1>16. q = [i \in 0 .. n |-> IF i < j THEN s[i] ELSE s[i + 1]]
  BY <1>15
<1> HIDE DEF r
<1>17. Linked(m, R \ {t}, q, n - 1)
  <2>1. m.head = IF t = l.head THEN s[j + 1] ELSE l.head
    BY <1>3, <1>9
  <2>2. \A u \in TimerIds \ {t} :
           /\ u = s[j - 1] => m.link[u] = [next |-> s[j + 1], prev |-> l.link[u].prev]
           /\ u # s[j - 1] /\ u = s[j + 1] => m.link[u] = [next |-> l.link[u].next, prev |-> s[j - 1]]
           /\ u # s[j - 1] /\ u # s[j + 1] => m.link[u] = l.link[u]
    BY <1>3, <1>10
  <2> QED BY <1>1, <1>16, <2>1, <2>2, SpliceOut
<1>18. InOrder(ex, q, n - 1)
  <2>1. \A i \in 1 .. n : ex[s[i]] \in Expiries
    <3>1. \A i \in 1 .. n : s[i] \in TimerIds
      BY DEF Linked
    <3> QED BY <3>1
  <2> QED BY <1>4, <1>16, <2>1, RemovalOrder
<1>19. n - 1 \in Nat
  BY <1>4
<1> QED BY <1>7, <1>9, <1>12, <1>13, <1>14, <1>17, <1>18, <1>19

-----------------------------------------------------------------------------
(* Lists and pools                                                         *)

\* The running timers form the list, the others are linked to nothing.
WellLinked(l, ex, X) ==
  /\ ListShape(l) /\ l.link \in [TimerIds -> Links] /\ ex \in [TimerIds -> Expiries]
  /\ l.free \subseteq TimerIds /\ X \subseteq TimerIds /\ l.free \cap X = {}
  /\ \A u \in l.free \cup X : l.link[u] = Unlinked
  /\ \E s, n : Linked(l, TimerIds \ (l.free \cup X), s, n) /\ InOrder(ex, s, n)

LEMMA OrderLocal ==
  ASSUME NEW l, NEW R, NEW s, NEW n, Linked(l, R, s, n), NEW ex, InOrder(ex, s, n),
         NEW ey, \A u \in R : ey[u] = ex[u]
  PROVE  InOrder(ey, s, n)
<1> SUFFICES ASSUME NEW i \in 1 .. n, i < n PROVE ~ExpiresBefore(ey[s[i + 1]], ey[s[i]])
  BY DEF InOrder
<1>1. n \in Nat /\ i + 1 \in 1 .. n
  BY DEF Linked
<1>2. s[i] \in R /\ s[i + 1] \in R
  BY <1>1 DEF Linked
<1>3. ~ExpiresBefore(ex[s[i + 1]], ex[s[i]])
  BY DEF InOrder
<1> QED BY <1>2, <1>3

\* A list with the same links is linked the same way.
LEMMA LinkedSame ==
  ASSUME NEW l, NEW R, NEW s, NEW n, Linked(l, R, s, n), NEW m, m.head = l.head,
         \A u \in R : m.link[u] = l.link[u]
  PROVE  Linked(m, R, s, n)
<1>1. ASSUME NEW i \in 1 .. n PROVE s[i] \in R /\ m.link[s[i]] = [next |-> s[i + 1], prev |-> s[i - 1]]
  <2>1. s[i] \in R /\ l.link[s[i]] = [next |-> s[i + 1], prev |-> s[i - 1]]
    BY DEF Linked
  <2>2. m.link[s[i]] = l.link[s[i]]
    BY <2>1
  <2> QED BY <2>1, <2>2
<1>2. n \in Nat /\ s[0] = Null /\ s[n + 1] = Null /\ m.head = s[1]
  BY DEF Linked
<1>3. (\A t \in R : \E i \in 1 .. n : s[i] = t) /\ (\A i, j \in 1 .. n : s[i] = s[j] => i = j)
  BY DEF Linked
<1> QED BY <1>1, <1>2, <1>3 DEF Linked

\* objpool_get_node
LEMMA TakenWell ==
  ASSUME NEW l, NEW ex, NEW X, WellLinked(l, ex, X), NEW t \in l.free,
         NEW m, m = [l EXCEPT !.free = @ \ {t}]
  PROVE  WellLinked(m, ex, X \cup {t})
<1>1. /\ ListShape(l) /\ l.link \in [TimerIds -> Links] /\ ex \in [TimerIds -> Expiries]
      /\ l.free \subseteq TimerIds /\ X \subseteq TimerIds /\ l.free \cap X = {}
      /\ \A u \in l.free \cup X : l.link[u] = Unlinked
  BY DEF WellLinked
<1>2. /\ m.head = l.head /\ m.link = l.link /\ m.free = l.free \ {t}
      /\ m = [head |-> m.head, link |-> m.link, free |-> m.free]
  <2>1. PICK h, q, f : l = [head |-> h, link |-> q, free |-> f]
    BY <1>1 DEF ListShape
  <2> QED BY <2>1
<1>3. ListShape(m)
  BY <1>1, <1>2 DEF ListShape
<1>4. m.free \cup (X \cup {t}) = l.free \cup X /\ m.free \cap (X \cup {t}) = {} /\ t \in TimerIds
  BY <1>1, <1>2
<1>5. PICK s, n : Linked(l, TimerIds \ (l.free \cup X), s, n) /\ InOrder(ex, s, n)
  BY DEF WellLinked
<1>6. Linked(m, TimerIds \ (l.free \cup X), s, n)
  BY <1>2, <1>5, LinkedSame
<1> QED
  <2>1. Linked(m, TimerIds \ (m.free \cup (X \cup {t})), s, n)
    BY <1>4, <1>6
  <2>2. /\ m.link \in [TimerIds -> Links]
        /\ m.free \subseteq TimerIds /\ X \cup {t} \subseteq TimerIds
        /\ \A u \in m.free \cup (X \cup {t}) : m.link[u] = Unlinked
    BY <1>1, <1>2, <1>4
  <2> QED BY <1>1, <1>3, <1>4, <1>5, <2>1, <2>2 DEF WellLinked

LEMMA InsertedWell ==
  ASSUME NEW l, NEW ex, NEW X, WellLinked(l, ex, X), NEW t \in X,
         NEW ey \in [TimerIds -> Expiries], \A u \in TimerIds \ {t} : ey[u] = ex[u], NEW m, m = Inserted(l, ey, t)
  PROVE  WellLinked(m, ey, X \ {t}) /\ m.free = l.free
<1>1. /\ ListShape(l) /\ l.link \in [TimerIds -> Links] /\ ex \in [TimerIds -> Expiries]
      /\ l.free \subseteq TimerIds /\ X \subseteq TimerIds /\ l.free \cap X = {}
      /\ \A u \in l.free \cup X : l.link[u] = Unlinked
  BY DEF WellLinked
<1>2. PICK R : R = TimerIds \ (l.free \cup X)
  OBVIOUS
<1>3. PICK s, n : Linked(l, R, s, n) /\ InOrder(ex, s, n)
  BY <1>2 DEF WellLinked
<1>4. R \subseteq TimerIds /\ t \in TimerIds \ R
  BY <1>1, <1>2
<1>5. ey \in [TimerIds -> Expiries] /\ \A u \in R : ey[u] = ex[u]
  BY <1>1, <1>4
<1>6. InOrder(ey, s, n)
  BY <1>3, <1>5, OrderLocal
<1>7. /\ ListShape(Inserted(l, ey, t))
      /\ Inserted(l, ey, t).free = l.free
      /\ Inserted(l, ey, t).link \in [TimerIds -> Links]
      /\ \A u \in TimerIds \ (R \cup {t}) : Inserted(l, ey, t).link[u] = l.link[u]
      /\ \E r : Linked(Inserted(l, ey, t), R \cup {t}, r, n + 1) /\ InOrder(ey, r, n + 1)
  BY <1>1, <1>3, <1>4, <1>5, <1>6, InsertedLinked
<1>8. /\ ListShape(m) /\ m.free = l.free /\ m.link \in [TimerIds -> Links]
      /\ \A u \in TimerIds \ (R \cup {t}) : m.link[u] = l.link[u]
  BY <1>7
<1>9. PICK r : Linked(m, R \cup {t}, r, n + 1) /\ InOrder(ey, r, n + 1)
  BY <1>7
<1>10. TimerIds \ (m.free \cup (X \ {t})) = R \cup {t} /\ m.free \cap (X \ {t}) = {} /\ X \ {t} \subseteq TimerIds
  BY <1>1, <1>2, <1>8
<1>11. \A u \in m.free \cup (X \ {t}) : m.link[u] = Unlinked
  <2>1. ASSUME NEW u \in m.free \cup (X \ {t}) PROVE u \in TimerIds \ (R \cup {t}) /\ u \in l.free \cup X
    BY <1>1, <1>2, <1>8
  <2> QED BY <1>1, <1>8, <2>1
<1>12. Linked(m, TimerIds \ (m.free \cup (X \ {t})), r, n + 1)
  BY <1>9, <1>10
<1>13. m.free \subseteq TimerIds
  BY <1>1, <1>8
<1> QED BY <1>5, <1>8, <1>9, <1>10, <1>11, <1>12, <1>13 DEF WellLinked

\* A timer that is not in the list is linked to nothing: to remove it changes no link.
LEMMA RemovedFree ==
  ASSUME NEW l, l.link \in [TimerIds -> Links], NEW t \in TimerIds, l.link[t] = Unlinked, l.head # t
  PROVE  /\ ListShape(Removed(l, t))
         /\ Removed(l, t).head = l.head
         /\ Removed(l, t).free = l.free \cup {t}
         /\ Removed(l, t).link = l.link
<1>1. l.link[t].next = Null /\ l.link[t].prev = Null
  BY DEF Unlinked
<1> DEFINE link(u) == CASE u = t    -> Unlinked
                        [] u = Null -> [l.link[u] EXCEPT !.next = Null]
                        [] u = Null -> [l.link[u] EXCEPT !.prev = Null]
                        [] OTHER    -> l.link[u]
<1>2. PICK m : m = Removed(l, t)
  OBVIOUS
<1>3. m = [head |-> IF t = l.head THEN Null ELSE l.head, link |-> [u \in TimerIds |-> link(u)],
           free |-> l.free \cup {t}]
  BY <1>1, <1>2 DEF Removed
<1>4. \A u \in TimerIds : link(u) = l.link[u]
  <2>1. ASSUME NEW u \in TimerIds PROVE link(u) = l.link[u]
    <3>1. u # Null
      BY Ids
    <3>2. CASE u = t
      BY <3>1, <3>2
    <3>3. CASE u # t
      BY <3>1, <3>3
    <3> QED BY <3>2, <3>3
  <2> QED BY <2>1
<1> HIDE DEF link
<1>5. /\ m.head = l.head /\ m.free = l.free \cup {t} /\ m.link = [u \in TimerIds |-> link(u)]
      /\ m = [head |-> m.head, link |-> m.link, free |-> m.free]
  BY <1>3
<1>6. m.link = l.link
  BY <1>4, <1>5
<1>7. ListShape(m)
  BY <1>5, <1>6 DEF ListShape
<1> QED BY <1>2, <1>5, <1>6, <1>7

LEMMA RemovedWell ==
  ASSUME NEW l, NEW ex, NEW X, WellLinked(l, ex, X), NEW t \in TimerIds \ X,
         NEW ey \in [TimerIds -> Expiries], \A u \in TimerIds \ {t} : ey[u] = ex[u], NEW m, m = Removed(l, t)
  PROVE  WellLinked(m, ey, X) /\ m.free = l.free \cup {t}
<1>1. /\ ListShape(l) /\ l.link \in [TimerIds -> Links] /\ ex \in [TimerIds -> Expiries]
      /\ l.free \subseteq TimerIds /\ X \subseteq TimerIds /\ l.free \cap X = {}
      /\ \A u \in l.free \cup X : l.link[u] = Unlinked
  BY DEF WellLinked
<1>2. PICK R : R = TimerIds \ (l.free \cup X)
  OBVIOUS
<1>3. PICK s, n : Linked(l, R, s, n) /\ InOrder(ex, s, n)
  BY <1>2 DEF WellLinked
<1>4. R \subseteq TimerIds /\ t \in TimerIds
  BY <1>2
<1>6. ey \in [TimerIds -> Expiries] /\ \A u \in R \ {t} : ey[u] = ex[u]
  BY <1>1, <1>4
<1>7. CASE t \in R
  <2>1. /\ ListShape(Removed(l, t))
        /\ Removed(l, t).free = l.free \cup {t}
        /\ Removed(l, t).link \in [TimerIds -> Links]
        /\ Removed(l, t).link[t] = Unlinked
        /\ \A u \in TimerIds \ R : Removed(l, t).link[u] = l.link[u]
        /\ n - 1 \in Nat
        /\ \E r : Linked(Removed(l, t), R \ {t}, r, n - 1) /\ InOrder(ex, r, n - 1)
    BY <1>1, <1>3, <1>4, <1>7, RemovedLinked
  <2>2. /\ ListShape(m) /\ m.free = l.free \cup {t} /\ m.link \in [TimerIds -> Links]
        /\ m.link[t] = Unlinked /\ \A u \in TimerIds \ R : m.link[u] = l.link[u]
    BY <2>1
  <2>3. PICK r : Linked(m, R \ {t}, r, n - 1) /\ InOrder(ex, r, n - 1)
    BY <2>1
  <2>4. InOrder(ey, r, n - 1)
    BY <1>6, <2>3, OrderLocal
  <2>5. /\ TimerIds \ (m.free \cup X) = R \ {t} /\ m.free \cap X = {} /\ m.free \subseteq TimerIds
    BY <1>1, <1>2, <1>4, <2>2
  <2>6. \A u \in m.free \cup X : m.link[u] = Unlinked
    <3>1. ASSUME NEW u \in m.free \cup X, u # t PROVE u \in TimerIds \ R /\ u \in l.free \cup X
      BY <1>1, <1>2, <2>2, <3>1
    <3> QED BY <1>1, <2>2, <3>1
  <2>7. Linked(m, TimerIds \ (m.free \cup X), r, n - 1)
    BY <2>3, <2>5
  <2> QED BY <1>1, <1>6, <2>2, <2>4, <2>5, <2>6, <2>7 DEF WellLinked
<1>8. CASE t \notin R
  <2>1. l.link[t] = Unlinked
    BY <1>1, <1>2, <1>8
  <2>2. l.head # t
    <3>1. n \in Nat /\ l.head = s[1] /\ s[n + 1] = Null
      BY <1>3 DEF Linked
    <3>2. CASE n = 0
      BY <3>1, <3>2, Ids
    <3>3. CASE n # 0
      <4>1. 1 \in 1 .. n
        BY <3>1, <3>3
      <4>2. s[1] \in R
        BY <1>3, <4>1 DEF Linked
      <4> QED BY <1>8, <3>1, <4>2
    <3> QED BY <3>2, <3>3
  <2>3. /\ ListShape(Removed(l, t))
        /\ Removed(l, t).head = l.head
        /\ Removed(l, t).free = l.free \cup {t}
        /\ Removed(l, t).link = l.link
    BY <1>1, <2>1, <2>2, RemovedFree
  <2>4. ListShape(m) /\ m.head = l.head /\ m.free = l.free \cup {t} /\ m.link = l.link
    BY <2>3
  <2>5. TimerIds \ (m.free \cup X) = R /\ m.free \cap X = {} /\ m.free \subseteq TimerIds
    BY <1>1, <1>2, <1>8, <2>4
  <2>6. Linked(m, R, s, n)
    BY <1>3, <2>4, LinkedSame
  <2>7. InOrder(ey, s, n)
    <3>1. \A u \in R : ey[u] = ex[u]
      BY <1>6, <1>8
    <3> QED BY <1>3, <3>1, OrderLocal
  <2>8. \A u \in m.free \cup X : m.link[u] = Unlinked
    BY <1>1, <2>1, <2>4
  <2>9. Linked(m, TimerIds \ (m.free \cup X), s, n)
    BY <2>5, <2>6
  <2>10. m.link \in [TimerIds -> Links]
    BY <1>1, <2>4
  <2> QED BY <1>1, <1>6, <2>4, <2>5, <2>7, <2>8, <2>9, <2>10 DEF WellLinked
<1> QED BY <1>7, <1>8

-----------------------------------------------------------------------------
(* Expiries: the counter and the number of its rollovers                   *)

\* The counter's arithmetic.
LEMMA ModSmall == ASSUME NEW m \in Nat \ {0}, NEW a \in 0 .. m - 1 PROVE a % m = a
OBVIOUS
LEMMA ModWrap == ASSUME NEW m \in Nat \ {0}, NEW a \in m .. 2 * m - 1 PROVE a % m = a - m
OBVIOUS
LEMMA ModRange == ASSUME NEW m \in Nat \ {0}, NEW a \in Nat PROVE a % m \in 0 .. m - 1
OBVIOUS
LEMMA ModPlus ==
  ASSUME NEW m \in Nat \ {0}, NEW a \in Nat, NEW q \in Nat, NEW r \in 0 .. m - 1, a = q * m + r
  PROVE  a % m = r
OBVIOUS
LEMMA EraLength == ASSUME NEW m \in Nat \ {0}, NEW a \in Nat PROVE (a + 1) * m = a * m + m /\ a * m \in Nat
OBVIOUS
LEMMA EraLater == ASSUME NEW m \in Nat \ {0}, NEW a \in Nat, NEW b \in Nat, a < b PROVE a * m + m =< b * m
OBVIOUS

Compares == [at : 0 .. Modulus - 1, enabled : BOOLEAN]

Expiry(ex) == ex.era * Modulus + ex.us

\* Every running timer whose start was not misdated expires when it should.
Exact(s, X) == \A u \in TimerIds \ (s.list.free \cup X \cup s.misdated) : s.deadline[u] = Expiry(s.expiry[u])

Fields(s) == s = [list |-> s.list, expiry |-> s.expiry, compare |-> s.compare, deadline |-> s.deadline,
                  misdated |-> s.misdated, astray |-> s.astray]

\* The timers, with those of X taken from the pool and not yet linked.
WellTimers(s, X) ==
  /\ Fields(s)
  /\ WellLinked(s.list, s.expiry, X)
  /\ s.compare \in Compares
  /\ s.deadline \in [TimerIds -> Nat]
  /\ s.misdated \subseteq TimerIds /\ s.astray \in BOOLEAN
  /\ Exact(s, X)

\* soft_timer_start: the expiry it computes.
LEMMA ExpiryComputed ==
  ASSUME NEW count \in 0 .. Modulus - 1, NEW duration \in 0 .. Modulus - 1, NEW c \in Nat, NEW us,
         us = (count + duration) % Modulus, NEW e, e = [us |-> us, era |-> c + IF us < count THEN 1 ELSE 0]
  PROVE  e \in Expiries /\ us \in 0 .. Modulus - 1 /\ Expiry(e) = c * Modulus + count + duration
<1>1. Modulus \in Nat \ {0}
  BY TimersAssumption
<1>2. CASE count + duration < Modulus
  <2>1. us = count + duration
    BY <1>1, <1>2, ModSmall
  <2>2. ~(us < count) /\ us \in 0 .. Modulus - 1 /\ c + 0 = c
    BY <1>1, <1>2, <2>1
  <2>3. e = [us |-> us, era |-> c]
    BY <2>2
  <2>4. c * Modulus \in Nat
    BY <1>1, EraLength
  <2> QED BY <2>1, <2>2, <2>3, <2>4 DEF Expiry, Expiries
<1>3. CASE ~(count + duration < Modulus)
  <2>1. count + duration \in Modulus .. 2 * Modulus - 1
    BY <1>1, <1>3
  <2>2. us = count + duration - Modulus
    BY <1>1, <2>1, ModWrap
  <2>3. us < count /\ us \in 0 .. Modulus - 1 /\ c + 1 \in Nat
    BY <1>1, <2>1, <2>2
  <2>4. e = [us |-> us, era |-> c + 1]
    BY <2>3
  <2>5. (c + 1) * Modulus = c * Modulus + Modulus /\ c * Modulus \in Nat
    BY <1>1, EraLength
  <2>6. e.era * Modulus + e.us = c * Modulus + Modulus + us
    BY <2>4, <2>5
  <2> QED BY <1>1, <2>2, <2>3, <2>4, <2>5, <2>6 DEF Expiry, Expiries
<1> QED BY <1>2, <1>3

LEMMA StartedWell ==
  ASSUME NEW s, NEW X, WellTimers(s, X), NEW t \in X, rollover \in Nat,
         NEW count \in 0 .. Modulus - 1, NEW duration \in 0 .. Modulus - 1, NEW at \in Nat,
         NEW v, v = Started(s, t, count, duration, at)
  PROVE  WellTimers(v, X \ {t}) /\ v.list.free = s.list.free
<1>1. /\ WellLinked(s.list, s.expiry, X) /\ Exact(s, X)
      /\ s.compare \in Compares /\ s.deadline \in [TimerIds -> Nat]
      /\ s.misdated \subseteq TimerIds /\ s.astray \in BOOLEAN
  BY DEF WellTimers
<1>2. t \in TimerIds /\ s.expiry \in [TimerIds -> Expiries]
  BY <1>1 DEF WellLinked
<1>3. PICK us : us = (count + duration) % Modulus
  OBVIOUS
<1>4. PICK e : e = [us |-> us, era |-> rollover + IF us < count THEN 1 ELSE 0]
  OBVIOUS
<1>5. e \in Expiries /\ us \in 0 .. Modulus - 1 /\ Expiry(e) = rollover * Modulus + count + duration
  BY <1>3, <1>4, ExpiryComputed
<1>6. PICK ex : ex = [s.expiry EXCEPT ![t] = e]
  OBVIOUS
<1>7. ex \in [TimerIds -> Expiries] /\ ex[t] = e /\ \A u \in TimerIds \ {t} : ex[u] = s.expiry[u]
  BY <1>2, <1>5, <1>6
<1>8. PICK l : l = Inserted(s.list, ex, t)
  OBVIOUS
<1>9. WellLinked(l, ex, X \ {t}) /\ l.free = s.list.free
  BY <1>1, <1>7, <1>8, InsertedWell
<1>10. PICK dl : dl = [s.deadline EXCEPT ![t] = at + duration]
  OBVIOUS
<1>11. dl \in [TimerIds -> Nat] /\ dl[t] = at + duration /\ \A u \in TimerIds \ {t} : dl[u] = s.deadline[u]
  <2>1. at + duration \in Nat
    OBVIOUS
  <2> QED BY <1>1, <1>2, <1>10, <2>1
<1>12. PICK c : c = IF l.head = t THEN [at |-> us, enabled |-> TRUE] ELSE s.compare
  OBVIOUS
<1>13. c \in Compares
  BY <1>1, <1>5, <1>12 DEF Compares
<1>14. PICK m : m = IF Misdates(count, at) THEN s.misdated \cup {t} ELSE s.misdated \ {t}
  OBVIOUS
<1>15. /\ m \subseteq TimerIds /\ \A u \in TimerIds \ {t} : u \in s.misdated <=> u \in m
       /\ t \notin m => ~Misdates(count, at)
  BY <1>1, <1>2, <1>14
<1>16. PICK a : a = IF l.head = t THEN Misdates(count, at) \/ at + duration =< now ELSE s.astray
  OBVIOUS
<1>17. a \in BOOLEAN
  BY <1>1, <1>16, Zenon
<1>18. v = [list |-> l, expiry |-> ex, compare |-> c, deadline |-> dl, misdated |-> m, astray |-> a]
  BY <1>3, <1>4, <1>6, <1>8, <1>10, <1>12, <1>14, <1>16 DEF Started
<1>19. v.list = l /\ v.expiry = ex /\ v.compare = c /\ v.deadline = dl /\ v.misdated = m /\ v.astray = a
  BY <1>18
<1>20. Fields(v)
  BY <1>18 DEF Fields
<1>21. Exact(v, X \ {t})
  <2>1. ASSUME NEW u \in TimerIds \ (l.free \cup (X \ {t}) \cup m) PROVE dl[u] = Expiry(ex[u])
    <3>1. CASE u = t
      <4>1. at = rollover * Modulus + count
        BY <1>15, <2>1, <3>1 DEF Misdates
      <4> QED BY <1>5, <1>7, <1>11, <3>1, <4>1
    <3>2. CASE u # t
      <4>1. u \in TimerIds \ (s.list.free \cup X \cup s.misdated)
        BY <1>9, <1>15, <2>1, <3>2
      <4>2. s.deadline[u] = Expiry(s.expiry[u])
        BY <1>1, <4>1 DEF Exact
      <4> QED BY <1>7, <1>11, <3>2, <4>2
    <3> QED BY <3>1, <3>2
  <2> QED BY <1>19, <2>1 DEF Exact
<1> QED BY <1>9, <1>11, <1>13, <1>15, <1>17, <1>19, <1>20, <1>21 DEF WellTimers

LEMMA CancelledWell ==
  ASSUME NEW s, NEW X, WellTimers(s, X), NEW t \in TimerIds \ X, NEW v, v = Cancelled(s, t)
  PROVE  WellTimers(v, X) /\ v.list.free = s.list.free \cup {t}
<1>1. /\ WellLinked(s.list, s.expiry, X) /\ Exact(s, X) /\ Fields(s)
      /\ s.compare \in Compares /\ s.deadline \in [TimerIds -> Nat]
      /\ s.misdated \subseteq TimerIds /\ s.astray \in BOOLEAN
  BY DEF WellTimers
<1>2. t \in TimerIds /\ s.expiry \in [TimerIds -> Expiries]
  BY <1>1 DEF WellLinked
<1>3. PICK ex : ex = [s.expiry EXCEPT ![t] = Zeroed]
  OBVIOUS
<1>4. ex \in [TimerIds -> Expiries] /\ \A u \in TimerIds \ {t} : ex[u] = s.expiry[u]
  <2>1. Zeroed \in Expiries
    BY TimersAssumption DEF Zeroed, Expiries
  <2> QED BY <1>2, <1>3, <2>1
<1>5. PICK l : l = Removed(s.list, t)
  OBVIOUS
<1>6. WellLinked(l, ex, X) /\ l.free = s.list.free \cup {t}
  BY <1>1, <1>4, <1>5, RemovedWell
<1>7. PICK a, b, c, d, m, o : /\ a = s.list /\ b = s.expiry /\ c = s.compare /\ d = s.deadline
                             /\ m = s.misdated /\ o = s.astray
  OBVIOUS
<1>8. /\ s = [list |-> a, expiry |-> b, compare |-> c, deadline |-> d, misdated |-> m, astray |-> o]
      /\ ex = [b EXCEPT ![t] = Zeroed]
  BY <1>1, <1>3, <1>7 DEF Fields
<1>9. v = [s EXCEPT !.list = l, !.expiry[t] = Zeroed, !.misdated = @ \ {t}]
  BY <1>5 DEF Cancelled
<1>10. v = [list |-> l, expiry |-> ex, compare |-> c, deadline |-> d, misdated |-> m \ {t}, astray |-> o]
  BY <1>8, <1>9
<1>11. /\ v.list = l /\ v.expiry = ex /\ v.compare = s.compare /\ v.deadline = s.deadline
       /\ v.misdated = s.misdated \ {t} /\ v.astray = s.astray
  BY <1>7, <1>10
<1>12. Fields(v)
  BY <1>10 DEF Fields
<1>13. Exact(v, X)
  <2>1. ASSUME NEW u \in TimerIds \ (l.free \cup X \cup (s.misdated \ {t})) PROVE s.deadline[u] = Expiry(ex[u])
    <3>1. u \in TimerIds \ (s.list.free \cup X \cup s.misdated) /\ u # t
      BY <1>6
    <3>2. s.deadline[u] = Expiry(s.expiry[u])
      BY <1>1, <3>1 DEF Exact
    <3> QED BY <1>4, <3>1, <3>2
  <2> QED BY <1>11, <2>1 DEF Exact
<1>14. s.misdated \ {t} \subseteq TimerIds
  BY <1>1
<1> QED BY <1>1, <1>6, <1>11, <1>12, <1>13, <1>14 DEF WellTimers

\* Taking a free timer from the pool.
LEMMA TakenKeeps ==
  ASSUME NEW s, NEW X, WellTimers(s, X), NEW t \in s.list.free, NEW v,
         v = [s EXCEPT !.list.free = @ \ {t}]
  PROVE  /\ WellTimers(v, X \cup {t})
         /\ v.list = [s.list EXCEPT !.free = @ \ {t}] /\ v.list.head = s.list.head
         /\ v.expiry = s.expiry /\ v.compare = s.compare /\ v.deadline = s.deadline
         /\ v.misdated = s.misdated /\ v.astray = s.astray
<1>1. /\ WellLinked(s.list, s.expiry, X) /\ Exact(s, X) /\ Fields(s)
      /\ s.compare \in Compares /\ s.deadline \in [TimerIds -> Nat]
      /\ s.misdated \subseteq TimerIds /\ s.astray \in BOOLEAN
  BY DEF WellTimers
<1>2. PICK a, b, c, d, m, o : /\ a = s.list /\ b = s.expiry /\ c = s.compare /\ d = s.deadline
                             /\ m = s.misdated /\ o = s.astray
  OBVIOUS
<1>3. PICK l : l = [a EXCEPT !.free = @ \ {t}]
  OBVIOUS
<1>4. WellLinked(l, b, X \cup {t})
  BY <1>1, <1>2, <1>3, TakenWell
<1>5. v = [list |-> l, expiry |-> b, compare |-> c, deadline |-> d, misdated |-> m, astray |-> o]
  <2>1. s = [list |-> a, expiry |-> b, compare |-> c, deadline |-> d, misdated |-> m, astray |-> o]
    BY <1>1, <1>2 DEF Fields
  <2> QED BY <1>3, <2>1
<1>6. v.list = l /\ v.expiry = b /\ v.compare = c /\ v.deadline = d /\ v.misdated = m /\ v.astray = o
  BY <1>5
<1>7. l.free = s.list.free \ {t} /\ l.head = s.list.head
  <2>1. a = [head |-> a.head, link |-> a.link, free |-> a.free]
    BY <1>1, <1>2 DEF WellLinked, ListShape
  <2>2. PICK h, q, f : a = [head |-> h, link |-> q, free |-> f]
    BY <2>1
  <2> QED BY <1>2, <1>3, <2>2
<1>8. Exact(v, X \cup {t})
  <2>1. ASSUME NEW u \in TimerIds \ (l.free \cup (X \cup {t}) \cup m) PROVE d[u] = Expiry(b[u])
    <3>1. u \in TimerIds \ (s.list.free \cup X \cup s.misdated)
      BY <1>2, <1>7
    <3> QED BY <1>1, <1>2, <3>1 DEF Exact
  <2> QED BY <1>6, <2>1 DEF Exact
<1>9. Fields(v)
  BY <1>5 DEF Fields
<1>10. WellTimers(v, X \cup {t})
  BY <1>1, <1>2, <1>4, <1>6, <1>8, <1>9 DEF WellTimers
<1> QED BY <1>2, <1>3, <1>6, <1>7, <1>10

\* The timer a start takes.
LEMMA FreeTaken ==
  ASSUME NEW s, NEW X, WellTimers(s, X), s.list.free # {}
  PROVE  Min(s.list.free) \in s.list.free /\ Min(s.list.free) \in TimerIds \ X
<1>1. s.list.free \subseteq TimerIds /\ s.list.free \cap X = {}
  BY DEF WellTimers, WellLinked
<1>2. s.list.free \subseteq Nat
  BY <1>1, Ids
<1> QED BY <1>1, <1>2, MinLeast

\* A start takes a free timer, which is none of X.
LEMMA AfterStartWell ==
  ASSUME NEW s, NEW X, WellTimers(s, X), rollover \in Nat, now \in Nat,
         NEW d \in 0 .. Modulus - 1, NEW v, v = AfterStart(s, d)
  PROVE  WellTimers(v, X)
<1>1. CASE d < MinTime \/ s.list.free = {}
  <2>1. v = s
    BY <1>1 DEF AfterStart
  <2> QED BY <2>1
<1>2. CASE ~(d < MinTime \/ s.list.free = {})
  <2>1. PICK t : t = Min(s.list.free)
    OBVIOUS
  <2>2. t \in s.list.free /\ t \in TimerIds \ X
    BY <1>2, <2>1, FreeTaken
  <2>3. PICK r : r = [s EXCEPT !.list.free = @ \ {t}]
    OBVIOUS
  <2>4. WellTimers(r, X \cup {t})
    BY <2>2, <2>3, TakenKeeps
  <2>5. v = Started(r, t, Counter, d, now)
    BY <1>2, <2>1, <2>3 DEF AfterStart
  <2>6. Counter \in 0 .. Modulus - 1
    <3>1. Modulus \in Nat \ {0}
      BY TimersAssumption
    <3> QED BY <3>1, ModRange DEF Counter
  <2>7. t \in X \cup {t}
    OBVIOUS
  <2>8. WellTimers(v, (X \cup {t}) \ {t})
    BY <2>4, <2>5, <2>6, <2>7, StartedWell
  <2>9. (X \cup {t}) \ {t} = X
    BY <2>2
  <2> QED BY <2>8, <2>9
<1> QED BY <1>1, <1>2

-----------------------------------------------------------------------------
(* The invariant of the list                                               *)

\* The timer of a start in progress, out of the pool and not in the list.
Pending == {starting.id} \cap TimerIds

ListInv ==
  /\ now \in StartTime .. Horizon /\ rollover \in Nat /\ lag \in 0 .. Latency
  /\ cc1 \in BOOLEAN /\ update \in BOOLEAN /\ handler \in {"out", "fire", "update"}
  /\ \/ starting = NotStarting
     \/ /\ starting.id \in TimerIds /\ starting.count \in 0 .. Modulus - 1
        /\ starting.duration \in 0 .. Modulus - 1 /\ starting.at \in Nat
  /\ WellTimers(Timers, Pending)

LEMMA Numbers ==
  /\ Modulus \in Nat \ {0} /\ StartTime \in Nat /\ StartTime =< Horizon /\ Horizon \in Nat /\ Latency \in Nat
  /\ Durations \subseteq 0 .. Modulus - 1
BY TimersAssumption

LEMMA TimersParts ==
  /\ Timers.list = list /\ Timers.expiry = expiry /\ Timers.compare = compare /\ Timers.deadline = deadline
  /\ Timers.misdated = misdated /\ Timers.astray = astray /\ Fields(Timers)
BY DEF Timers, Fields

LEMMA BecomeGood ==
  ASSUME NEW s, NEW X, WellTimers(s, X), BecomeTimers(s)
  PROVE  Timers' = s
BY DEF WellTimers, Fields, BecomeTimers, Timers

LEMMA HeadRuns ==
  ASSUME NEW l, NEW ex, NEW X, WellLinked(l, ex, X), l.head \in TimerIds
  PROVE  l.head \notin l.free \cup X
<1>1. PICK s, n : Linked(l, TimerIds \ (l.free \cup X), s, n)
  BY DEF WellLinked
<1>2. n \in Nat /\ l.head = s[1] /\ s[n + 1] = Null
  BY <1>1 DEF Linked
<1>3. CASE n = 0
  BY <1>2, <1>3, Ids
<1>4. CASE n # 0
  <2>1. 1 \in 1 .. n
    BY <1>2, <1>4
  <2>2. s[1] \in TimerIds \ (l.free \cup X)
    BY <1>1, <2>1 DEF Linked
  <2> QED BY <1>2, <2>2
<1> QED BY <1>3, <1>4

LEMMA CounterRange == ASSUME ListInv PROVE now \in Nat /\ Counter \in 0 .. Modulus - 1
<1>1. now \in Nat
  BY Numbers DEF ListInv
<1> QED BY <1>1, Numbers, ModRange DEF Counter

\* What a callback makes of the timers, and then the removal of its own timer.
LEMMA CallbackWell ==
  ASSUME ListInv, NEW t \in TimerIds, t = list.head, NEW s \in AfterCallback(t)
  PROVE  WellTimers(Cancelled(s, t), Pending)
<1>1. WellTimers(Timers, Pending) /\ rollover \in Nat /\ now \in Nat
  BY CounterRange DEF ListInv
<1>2. t \in TimerIds \ Pending
  <2>1. WellLinked(list, expiry, Pending)
    BY <1>1, TimersParts DEF WellTimers
  <2> QED BY <2>1, HeadRuns
<1>3. ASSUME NEW d \in Asked PROVE WellTimers(AfterStart(Timers, d), Pending)
  <2>1. d \in 0 .. Modulus - 1
    BY Numbers DEF Asked
  <2> QED BY <1>1, <2>1, AfterStartWell
<1>4. WellTimers(s, Pending)
  <2>1. CASE s = Timers
    BY <1>1, <2>1
  <2>2. CASE \E d \in Asked : s = AfterStart(Timers, d)
    BY <1>3, <2>2
  <2>3. CASE \E u \in TimerIds \ {starting.id} : s = Cancelled(Timers, u)
    <3>1. PICK u \in TimerIds \ {starting.id} : s = Cancelled(Timers, u)
      BY <2>3
    <3>2. u \in TimerIds \ Pending
      BY DEF Pending
    <3> QED BY <1>1, <3>1, <3>2, CancelledWell
  <2>4. CASE \E d \in Asked : s = Cancelled(AfterStart(Timers, d), t)
    <3>1. PICK d \in Asked : s = Cancelled(AfterStart(Timers, d), t)
      BY <2>4
    <3>2. WellTimers(AfterStart(Timers, d), Pending)
      BY <1>3
    <3> QED BY <1>2, <3>1, <3>2, CancelledWell
  <2> QED BY <2>1, <2>2, <2>3, <2>4 DEF AfterCallback
<1> QED BY <1>2, <1>4, CancelledWell

LEMMA ListInit == ASSUME Init PROVE ListInv
<1>1. /\ now = StartTime /\ rollover = 0 /\ cc1 = FALSE /\ update = FALSE /\ handler = "out"
      /\ starting = NotStarting /\ lag = 0
  BY DEF Init
<1>2. PICK q : q = [t \in TimerIds |-> Unlinked]
  OBVIOUS
<1>3. list = [head |-> Null, link |-> q, free |-> TimerIds]
  BY <1>2 DEF Init
<1>4. list.head = Null /\ list.link = q /\ list.free = TimerIds
  BY <1>3
<1>5. starting.id = Null
  BY <1>1 DEF NotStarting
<1>6. Pending = {}
  BY <1>5, Ids DEF Pending
<1>7. ListShape(list)
  <2>1. q = [u \in TimerIds |-> q[u]]
    BY <1>2
  <2>2. list = [head |-> list.head, link |-> list.link, free |-> list.free]
    BY <1>3
  <2> QED BY <1>4, <2>1, <2>2 DEF ListShape
<1>8. list.link \in [TimerIds -> Links] /\ \A u \in list.free \cup Pending : list.link[u] = Unlinked
  <2>1. Unlinked \in Links
    BY DEF Unlinked, Links
  <2> QED BY <1>2, <1>4, <1>6, <2>1
<1>9. expiry \in [TimerIds -> Expiries]
  <2>1. Zeroed \in Expiries
    BY TimersAssumption DEF Zeroed, Expiries
  <2> QED BY <2>1 DEF Init
<1>10. \E s, n : Linked(list, TimerIds \ (list.free \cup Pending), s, n) /\ InOrder(expiry, s, n)
  <2>1. PICK s : s = [i \in 0 .. 1 |-> Null]
    OBVIOUS
  <2>2. TimerIds \ (list.free \cup Pending) = {}
    BY <1>4
  <2>3. s[0] = Null /\ s[0 + 1] = Null /\ s[1] = Null
    BY <2>1
  <2>4. Linked(list, {}, s, 0)
    BY <1>4, <2>3 DEF Linked
  <2>5. InOrder(expiry, s, 0)
    BY DEF InOrder
  <2> QED BY <2>2, <2>4, <2>5
<1>11. WellLinked(list, expiry, Pending)
  BY <1>4, <1>6, <1>7, <1>8, <1>9, <1>10 DEF WellLinked
<1>12. compare \in Compares /\ deadline \in [TimerIds -> Nat]
  BY Numbers DEF Init, Compares
<1>13. WellTimers(Timers, Pending)
  <2>1. misdated \subseteq TimerIds /\ astray \in BOOLEAN
    BY DEF Init
  <2>2. Exact(Timers, Pending)
    BY <1>4, TimersParts DEF Exact
  <2> QED BY <1>11, <1>12, <2>1, <2>2, TimersParts DEF WellTimers
<1>14. now \in StartTime .. Horizon /\ rollover \in Nat /\ lag \in 0 .. Latency
  BY <1>1, Numbers
<1> QED BY <1>1, <1>13, <1>14 DEF ListInv

LEMMA ListNext == ASSUME ListInv, [Next]_vars PROVE ListInv'
<1>0. WellTimers(Timers, Pending) /\ rollover \in Nat
  BY DEF ListInv
<1>w. /\ WellLinked(list, expiry, Pending) /\ compare \in Compares /\ deadline \in [TimerIds -> Nat]
      /\ misdated \subseteq TimerIds /\ astray \in BOOLEAN /\ Exact(Timers, Pending)
  BY <1>0, TimersParts DEF WellTimers
<1>1. ASSUME NEW d \in Durations, soft_timer_start(d) PROVE ListInv'
  <2>1. PICK t : t = Min(list.free)
    OBVIOUS
  <2>2. /\ list' = [list EXCEPT !.free = @ \ {t}]
        /\ starting' = [id |-> t, count |-> Counter, duration |-> d, at |-> now]
        /\ UNCHANGED <<now, rollover, expiry, compare, cc1, update, handler, lag, deadline, misdated, astray>>
        /\ starting = NotStarting /\ list.free # {}
    BY <1>1, <2>1 DEF soft_timer_start, histories
  <2>3. t \in list.free /\ t \in TimerIds
    <3>1. list.free \subseteq TimerIds
      BY <1>w DEF WellLinked
    <3> QED BY <2>1, <2>2, <3>1, Ids, MinLeast
  <2>4. Pending = {}
    BY <2>2, Ids DEF Pending, NotStarting
  <2>5. Pending' = {t}
    BY <2>2, <2>3 DEF Pending
  <2>6. PICK v : v = [Timers EXCEPT !.list.free = @ \ {t}]
    OBVIOUS
  <2>7. WellTimers(v, {t})
    <3>1. t \in Timers.list.free
      BY <2>3, TimersParts
    <3>2. WellTimers(v, Pending \cup {t})
      BY <1>0, <2>6, <3>1, TakenKeeps
    <3> QED BY <2>4, <3>2
  <2>8. Timers' = v
    BY <2>2, <2>6 DEF Timers
  <2>9. WellTimers(Timers', Pending')
    BY <2>5, <2>7, <2>8
  <2>11. (WellTimers(Timers, Pending))'
    BY <2>9
  <2>12. d \in 0 .. Modulus - 1 /\ Counter \in 0 .. Modulus - 1 /\ now \in Nat
    BY CounterRange, Numbers
  <2>13. /\ starting'.id \in TimerIds /\ starting'.count \in 0 .. Modulus - 1
         /\ starting'.duration \in 0 .. Modulus - 1 /\ starting'.at \in Nat
    BY <2>2, <2>3, <2>12
  <2> QED BY <2>2, <2>11, <2>13 DEF ListInv
<1>2. CASE InsertStarted
  <2>1. /\ starting # NotStarting /\ starting' = NotStarting
        /\ BecomeTimers(Started(Timers, starting.id, starting.count, starting.duration, starting.at))
        /\ UNCHANGED <<now, rollover, cc1, update, handler, lag>>
    BY <1>2 DEF InsertStarted
  <2>2. /\ starting.id \in TimerIds /\ starting.count \in 0 .. Modulus - 1
        /\ starting.duration \in 0 .. Modulus - 1 /\ starting.at \in Nat
    BY <2>1 DEF ListInv
  <2>3. PICK t, c, d, a : t = starting.id /\ c = starting.count /\ d = starting.duration /\ a = starting.at
    OBVIOUS
  <2>4. PICK v : v = Started(Timers, t, c, d, a)
    OBVIOUS
  <2>5. Pending = {t} /\ t \in TimerIds
    BY <2>2, <2>3 DEF Pending
  <2>6. WellTimers(v, Pending \ {t})
    <3>1. t \in Pending /\ c \in 0 .. Modulus - 1 /\ d \in 0 .. Modulus - 1 /\ a \in Nat
      BY <2>2, <2>3, <2>5
    <3> QED BY <1>0, <2>4, <3>1, StartedWell
  <2>7. Pending' = {} /\ Pending \ {t} = {}
    BY <2>1, <2>5, Ids DEF Pending, NotStarting
  <2>8. Timers' = v
    <3>1. BecomeTimers(v)
      BY <2>1, <2>3, <2>4
    <3> QED BY <2>6, <3>1, BecomeGood
  <2>9. WellTimers(Timers', Pending')
    BY <2>6, <2>7, <2>8
  <2> QED BY <2>1, <2>9 DEF ListInv
<1>3. ASSUME NEW t \in TimerIds, soft_timer_cancel(t) PROVE ListInv'
  <2>1. /\ starting = NotStarting /\ BecomeTimers(Cancelled(Timers, t))
        /\ UNCHANGED <<now, rollover, cc1, update, handler, starting, lag>>
    BY <1>3 DEF soft_timer_cancel
  <2>2. Pending = {} /\ Pending' = Pending
    BY <2>1, Ids DEF Pending, NotStarting
  <2>3. WellTimers(Cancelled(Timers, t), Pending)
    BY <1>0, <2>2, CancelledWell
  <2>4. Timers' = Cancelled(Timers, t)
    BY <2>1, <2>3, BecomeGood
  <2>5. WellTimers(Timers', Pending')
    BY <2>2, <2>3, <2>4
  <2> QED BY <2>1, <2>5 DEF ListInv
<1>4. ASSUME NEW t \in TimerIds, RunCallback(t) PROVE ListInv'
  <2>1. PICK s \in AfterCallback(t) : BecomeTimers(Cancelled(s, t))
    BY <1>4 DEF RunCallback
  <2>2. t = list.head /\ UNCHANGED <<now, rollover, cc1, update, handler, starting, lag>>
    BY <1>4 DEF RunCallback
  <2>3. Pending' = Pending
    BY <2>2 DEF Pending
  <2>4. WellTimers(Cancelled(s, t), Pending)
    BY <2>2, CallbackWell
  <2>5. Timers' = Cancelled(s, t)
    BY <2>1, <2>4, BecomeGood
  <2>6. WellTimers(Timers', Pending')
    BY <2>3, <2>4, <2>5
  <2> QED BY <2>2, <2>6 DEF ListInv
<1>5. ASSUME UNCHANGED <<list, expiry, starting, deadline, misdated>>, compare' \in Compares, astray' \in BOOLEAN
      PROVE  (WellTimers(Timers, Pending))' /\ Pending' = Pending
  <2>1. Pending' = Pending
    BY <1>5 DEF Pending
  <2>2. PICK v : v = Timers'
    OBVIOUS
  <2>3. v = [list |-> list, expiry |-> expiry, compare |-> compare', deadline |-> deadline,
             misdated |-> misdated, astray |-> astray']
    BY <1>5, <2>2 DEF Timers
  <2>4. /\ v.list = list /\ v.expiry = expiry /\ v.compare = compare' /\ v.deadline = deadline
        /\ v.misdated = misdated /\ v.astray = astray'
    BY <2>3
  <2>5. Fields(v)
    BY <2>3 DEF Fields
  <2>6. Exact(v, Pending)
    BY <1>w, <2>4, TimersParts DEF Exact
  <2>7. WellTimers(v, Pending)
    BY <1>w, <1>5, <2>4, <2>5, <2>6 DEF WellTimers
  <2>8. WellTimers(Timers', Pending')
    BY <2>1, <2>2, <2>7
  <2> QED BY <2>1, <2>8
<1>6. CASE TIM2_IRQHandler
  <2>1. UNCHANGED <<now, rollover, list, expiry, cc1, update, starting, lag, deadline, misdated, astray>> /\ handler' \in {"fire", "update"}
    BY <1>6 DEF TIM2_IRQHandler, histories
  <2>2. compare' \in Compares
    <3>1. compare' = compare \/ compare' = [compare EXCEPT !.enabled = FALSE]
      BY <1>6 DEF TIM2_IRQHandler, histories
    <3> QED BY <1>w, <3>1 DEF Compares
  <2>3. (WellTimers(Timers, Pending))'
    BY <1>5, <1>w, <2>1, <2>2
  <2> QED BY <2>1, <2>3 DEF ListInv
<1>7. CASE SetCompare
  <2>1. UNCHANGED <<now, rollover, list, expiry, update, starting, lag, deadline, misdated>> /\ handler' = "update" /\ cc1' = FALSE
    BY <1>7 DEF SetCompare
  <2>2. compare' \in Compares
    <3>1. CASE list.head = Null
      BY <1>7, <1>w, <3>1 DEF SetCompare
    <3>2. CASE list.head # Null
      <4>1. compare' = [at |-> NextCompare, enabled |-> TRUE]
        BY <1>7, <3>2 DEF SetCompare
      <4>2. list.head \in TimerIds
        <5>1. PICK R : R = TimerIds \ (list.free \cup Pending)
          OBVIOUS
        <5>2. PICK s, n : Linked(list, R, s, n)
          BY <1>w, <5>1 DEF WellLinked
        <5>3. list.head = s[1] /\ n \in Nat /\ 1 \in 0 .. n + 1 /\ R \subseteq TimerIds
          BY <5>1, <5>2 DEF Linked
        <5>4. \A i \in 0 .. n + 1 : s[i] \in TimerIds \cup {Null} /\ (s[i] # Null => s[i] \in R)
          BY <5>2, <5>3, Places
        <5> QED BY <3>2, <5>3, <5>4
      <4>3. PICK us, least : us = expiry[list.head].us /\ least = (Counter + MinTime) % Modulus
        OBVIOUS
      <4>4. us \in 0 .. Modulus - 1
        <5>1. expiry[list.head] \in Expiries
          BY <1>w, <4>2 DEF WellLinked
        <5> QED BY <4>3, <5>1 DEF Expiries
      <4>5. least \in 0 .. Modulus - 1
        <5>1. Counter + MinTime \in Nat
          BY CounterRange, TimersAssumption
        <5> QED BY <4>3, <5>1, Numbers, ModRange
      <4>6. Max({us, least}) \in {us, least}
        <5>1. us =< least \/ least =< us
          BY <4>4, <4>5
        <5>2. \E x \in {us, least} : \A y \in {us, least} : x >= y
          BY <4>4, <4>5, <5>1
        <5> QED BY <5>2 DEF Max
      <4>7. NextCompare \in {us, least}
        BY <4>3, <4>6 DEF NextCompare
      <4> QED BY <4>1, <4>4, <4>5, <4>7 DEF Compares
    <3> QED BY <3>1, <3>2
  <2>3. astray' \in BOOLEAN
    BY <1>7, Zenon DEF SetCompare
  <2>4. (WellTimers(Timers, Pending))'
    BY <1>5, <2>1, <2>2, <2>3
  <2> QED BY <2>1, <2>4 DEF ListInv
<1>8. CASE CountRollover
  <2>1. /\ UNCHANGED <<now, list, expiry, compare, cc1, starting, lag, deadline, misdated, astray>>
        /\ handler' = "out" /\ update' = FALSE /\ rollover' \in {rollover, rollover + 1}
    BY <1>8 DEF CountRollover, histories
  <2>2. (WellTimers(Timers, Pending))'
    BY <1>5, <1>w, <2>1
  <2>3. rollover' \in Nat
    BY <1>0, <2>1
  <2> QED BY <2>1, <2>2, <2>3 DEF ListInv
<1>9. CASE Tick
  <2>1. UNCHANGED <<rollover, list, expiry, compare, handler, starting, deadline, misdated, astray>>
    BY <1>9 DEF Tick, histories
  <2>2. (WellTimers(Timers, Pending))'
    BY <1>5, <1>w, <2>1
  <2>3. now' \in StartTime .. Horizon
    BY <1>9, Numbers DEF Tick, ListInv
  <2>4. lag' \in 0 .. Latency
    BY <1>9, Numbers DEF Tick, ListInv
  <2>5. update' \in BOOLEAN
    BY <1>9 DEF Tick, ListInv
  <2>6. cc1' \in BOOLEAN
    <3>1. compare.enabled \in BOOLEAN /\ cc1 \in BOOLEAN
      BY <1>w DEF Compares, ListInv
    <3>2. cc1' \in {TRUE, cc1 \/ compare.enabled} \/ cc1' = cc1
      BY <1>9 DEF Tick, histories
    <3> QED BY <3>1, <3>2
  <2> QED BY <2>1, <2>2, <2>3, <2>4, <2>5, <2>6 DEF ListInv
<1>10. CASE UNCHANGED vars
  <2>1. UNCHANGED <<now, rollover, list, expiry, compare, cc1, update, handler, starting, lag, deadline, misdated, astray>>
    BY <1>10 DEF vars, histories
  <2>2. (WellTimers(Timers, Pending))'
    BY <1>5, <1>w, <2>1
  <2> QED BY <2>1, <2>2 DEF ListInv
<1> QED BY <1>1, <1>2, <1>3, <1>4, <1>6, <1>7, <1>8, <1>9, <1>10 DEF Next

-----------------------------------------------------------------------------
(* The list links the running timers                                       *)

LEMMA AlwaysListInv == Spec => []ListInv
<1>1. Init => ListInv
  BY ListInit
<1>2. ListInv /\ [Next]_vars => ListInv'
  BY ListNext
<1> QED BY <1>1, <1>2, PTL DEF Spec

\* The timers of the list and the running ones are the same.
LEMMA RunningPending == ASSUME ListInv PROVE Running = TimerIds \ (list.free \cup Pending)
BY DEF Running, Pending

LEMMA ListLinks == ASSUME ListInv PROVE ListLinksRunning
<1>1. /\ WellLinked(list, expiry, Pending) /\ compare \in Compares
      /\ misdated \subseteq TimerIds /\ astray \in BOOLEAN
  BY TimersParts DEF ListInv, WellTimers
<1>2. PICK R : R = Running /\ R = TimerIds \ (list.free \cup Pending)
  BY RunningPending
<1>3. PICK s, n : Linked(list, R, s, n)
  BY <1>1, <1>2 DEF WellLinked
<1>4. R \subseteq TimerIds
  BY <1>2
<1>5. n \in 0 .. Size /\ ExistsBijection(1 .. n, R) /\ Size \in Nat
  BY <1>3, <1>4, LinkedFits, Ids
<1>6. TypeOK
  <2>1. list.link \in [TimerIds -> Links] /\ expiry \in [TimerIds -> Expiries] /\ list.free \subseteq TimerIds
    BY <1>1 DEF WellLinked
  <2>2. list.head \in TimerIds \cup {Null}
    <3>1. list.head = s[1] /\ 1 \in 0 .. n + 1
      BY <1>3, <1>5 DEF Linked
    <3>2. \A i \in 0 .. n + 1 : s[i] \in TimerIds \cup {Null} /\ (s[i] # Null => s[i] \in R)
      BY <1>3, <1>4, Places
    <3> QED BY <3>1, <3>2
  <2>3. starting.id \in TimerIds \cup {Null}
    BY DEF ListInv, NotStarting
  <2> QED BY <1>1, <2>1, <2>2, <2>3 DEF TypeOK, ListInv, Links, Expiries, Compares
<1>7. PICK w : w = Walk(list)
  OBVIOUS
<1>8. w = [k \in 0 .. Size |-> IF k =< n THEN s[k + 1] ELSE Null]
  <2>1. Walk(list) = [k \in 0 .. Size |-> IF k =< n THEN s[k + 1] ELSE Null]
    BY <1>3, <1>4, WalkFollows
  <2> QED BY <1>7, <2>1
<1>9. \A k \in 0 .. n - 1 : w[k] = s[k + 1] /\ s[k + 1] \in R /\ w[k] # Null
  <2>1. ASSUME NEW k \in 0 .. n - 1 PROVE w[k] = s[k + 1] /\ s[k + 1] \in R
    <3>1. k \in 0 .. Size /\ k =< n /\ k + 1 \in 1 .. n
      BY <1>5
    <3> QED BY <1>3, <1>8, <3>1 DEF Linked
  <2> QED BY <1>4, <2>1, Ids
<1>10. DOMAIN w = 0 .. Size /\ \A k \in 0 .. Size : k >= n => w[k] = Null
  <2>1. s[n + 1] = Null
    BY <1>3 DEF Linked
  <2> QED BY <1>5, <1>8, <2>1
<1>11. PICK met : met = {k \in DOMAIN w : w[k] # Null}
  OBVIOUS
<1>12. met = 0 .. n - 1
  <2>1. ASSUME NEW k \in met PROVE k \in 0 .. n - 1
    BY <1>5, <1>10, <1>11
  <2>2. ASSUME NEW k \in 0 .. n - 1 PROVE k \in met
    BY <1>5, <1>9, <1>10, <1>11
  <2> QED BY <2>1, <2>2
<1>13. {w[k] : k \in met} = Running
  <2>1. ASSUME NEW k \in met PROVE w[k] \in R
    BY <1>9, <1>12
  <2>2. ASSUME NEW t \in R PROVE \E k \in met : w[k] = t
    <3>1. PICK i \in 1 .. n : s[i] = t
      BY <1>3 DEF Linked
    <3>2. i - 1 \in 0 .. n - 1 /\ (i - 1) + 1 = i
      BY <1>5
    <3>3. w[i - 1] = t
      BY <1>9, <3>1, <3>2
    <3> QED BY <1>12, <3>2, <3>3
  <2> QED BY <1>2, <2>1, <2>2
<1>14. Cardinality(met) = Cardinality(Running)
  <2>1. Cardinality(met) = n
    <3>1. Cardinality(0 .. n - 1) = IF 0 > n - 1 THEN 0 ELSE (n - 1) - 0 + 1
      BY <1>5, FS_Interval
    <3> QED BY <1>5, <1>12, <3>1
  <2>2. Cardinality(1 .. n) = n /\ IsFiniteSet(1 .. n)
    BY <1>5, FS_Interval
  <2>3. Cardinality(R) = Cardinality(1 .. n)
    BY <1>5, <2>2, FS_Bijection
  <2> QED BY <1>2, <2>1, <2>2, <2>3
<1>15. ASSUME NEW k \in met PROVE list.link[w[k]].prev = IF k = 0 THEN Null ELSE w[k - 1]
  <2>1. k \in 0 .. n - 1 /\ k + 1 \in 1 .. n /\ (k + 1) - 1 = k /\ n \in Nat
    BY <1>5, <1>12
  <2>2. w[k] = s[k + 1]
    BY <1>9, <2>1
  <2>3. list.link[s[k + 1]] = [next |-> s[(k + 1) + 1], prev |-> s[(k + 1) - 1]]
    BY <1>3, <2>1 DEF Linked
  <2>4. list.link[w[k]].prev = s[k]
    BY <2>1, <2>2, <2>3
  <2>5. CASE k = 0
    BY <1>3, <2>4, <2>5 DEF Linked
  <2>6. CASE k # 0
    <3>1. k - 1 \in 0 .. n - 1 /\ (k - 1) + 1 = k
      BY <2>1, <2>6
    <3> QED BY <1>9, <2>4, <2>6, <3>1
  <2> QED BY <2>5, <2>6
<1>16. /\ {Walk(list)[k] : k \in {k \in DOMAIN Walk(list) : Walk(list)[k] # Null}} = Running
       /\ Cardinality({k \in DOMAIN Walk(list) : Walk(list)[k] # Null}) = Cardinality(Running)
       /\ \A k \in {k \in DOMAIN Walk(list) : Walk(list)[k] # Null} :
             list.link[Walk(list)[k]].prev = IF k = 0 THEN Null ELSE Walk(list)[k - 1]
  BY <1>7, <1>11, <1>13, <1>14, <1>15
<1> QED BY <1>6, <1>16 DEF ListLinksRunning

\* Theorem: in every behaviour the list reaches exactly the running timers, each once, and the
\* links back agree with the links forth, so that prv_remove_timer, which trusts both, never cuts
\* off a timer (soft_timer.c:157-200). It holds with interrupted starts and with both flags pending.
THEOREM ListAlwaysLinksRunning == Spec => []ListLinksRunning
<1>1. ListInv => ListLinksRunning
  BY ListLinks
<1> QED BY <1>1, AlwaysListInv, PTL

-----------------------------------------------------------------------------
(* Order and time                                                          *)

\* The eras of the counter: those counted, and one more while a rollover is pending.
Eras == rollover + IF update THEN 1 ELSE 0

\* The time is that of the counter in its era, and a rollover is counted before the next one.
TimeInv ==
  /\ ListInv
  /\ now = Eras * Modulus + Counter
  /\ update => Counter =< lag

LEMMA ErasRange == ASSUME ListInv PROVE Eras \in Nat /\ (~update => Eras = rollover)
BY DEF ListInv, Eras

LEMMA TimeInit == ASSUME Init PROVE TimeInv
<1>1. ListInv
  BY ListInit
<1>2. now = StartTime /\ rollover = 0 /\ update = FALSE /\ starting = NotStarting /\ list.free = TimerIds
  BY DEF Init
<1>3. Counter = StartTime
  <2>1. StartTime \in 0 .. Modulus - 1
    BY TimersAssumption
  <2> QED BY <1>2, <2>1, Numbers, ModSmall DEF Counter
<1>4. now = Eras * Modulus + Counter
  <2>1. Eras = 0
    BY <1>2 DEF Eras
  <2> QED BY <1>2, <1>3, <2>1, Numbers
<1> QED BY <1>1, <1>2, <1>4 DEF TimeInv

\* The counter moves on by one.
LEMMA TickTime ==
  ASSUME TimeInv, Tick, ListInv'
  PROVE  now' = Eras' * Modulus + Counter' /\ (update' => Counter' =< lag')
<1>1. /\ now' = now + 1 /\ rollover' = rollover /\ handler' = handler
      /\ update' = (update \/ (now + 1) % Modulus = 0)
      /\ lag' = IF Engaged THEN lag + 1 ELSE 0
      /\ Engaged => lag < Latency
  BY DEF Tick
<1>2. /\ now = Eras * Modulus + Counter /\ now \in Nat /\ Counter \in 0 .. Modulus - 1 /\ Eras \in Nat
      /\ update \in BOOLEAN /\ rollover \in Nat /\ lag \in 0 .. Latency
      /\ update => Counter =< lag
  BY CounterRange, ErasRange DEF TimeInv, ListInv
<1>3. Counter' = (now + 1) % Modulus
  BY <1>1 DEF Counter
<1>4. Latency \in 0 .. Modulus - 1 /\ Modulus \in Nat \ {0}
  BY TimersAssumption
<1>5. CASE Counter < Modulus - 1
  <2>1. Counter + 1 \in 0 .. Modulus - 1 /\ now + 1 \in Nat /\ now + 1 = Eras * Modulus + (Counter + 1)
    <3>1. Eras * Modulus \in Nat
      BY <1>2, <1>4, EraLength
    <3> QED BY <1>2, <1>4, <1>5, <3>1
  <2>2. (now + 1) % Modulus = Counter + 1
    BY <1>2, <1>4, <2>1, ModPlus
  <2>3. update' = update
    BY <1>1, <1>2, <2>2
  <2>4. Eras' = Eras
    BY <1>1, <2>3 DEF Eras
  <2>5. now' = Eras' * Modulus + Counter'
    BY <1>1, <1>3, <2>1, <2>2, <2>4
  <2>6. ASSUME update' PROVE Counter' =< lag'
    <3>1. update /\ Engaged
      BY <2>3, <2>6 DEF Engaged
    <3> QED BY <1>1, <1>2, <1>3, <1>4, <2>2, <3>1
  <2> QED BY <1>1, <2>5, <2>6
<1>6. CASE Counter = Modulus - 1
  <2>1. ~update
    <3>1. ASSUME update PROVE FALSE
      <4>1. Engaged
        BY <3>1 DEF Engaged
      <4> QED BY <1>1, <1>2, <1>4, <1>6, <3>1, <4>1
    <3> QED BY <3>1
  <2>2. now + 1 = (Eras + 1) * Modulus + 0 /\ Eras + 1 \in Nat /\ now + 1 \in Nat /\ 0 \in 0 .. Modulus - 1
    <3>1. (Eras + 1) * Modulus = Eras * Modulus + Modulus /\ Eras * Modulus \in Nat
      BY <1>2, <1>4, EraLength
    <3> QED BY <1>2, <1>4, <1>6, <3>1
  <2>3. (now + 1) % Modulus = 0
    BY <1>4, <2>2, ModPlus
  <2>4. update' = TRUE
    BY <1>1, <2>3
  <2>5. Eras' = Eras + 1
    BY <1>1, <1>2, <2>1, <2>4 DEF Eras
  <2>6. now' = Eras' * Modulus + Counter'
    BY <1>1, <1>3, <2>2, <2>3, <2>5
  <2>7. Counter' =< lag'
    <3>1. Counter' = 0 /\ lag' \in Nat
      BY <1>1, <1>2, <1>3, <1>4, <2>3
    <3> QED BY <3>1
  <2> QED BY <1>1, <2>4, <2>6, <2>7
<1> QED BY <1>2, <1>4, <1>5, <1>6

LEMMA TimeNext == ASSUME TimeInv, [Next]_vars PROVE TimeInv'
<1>1. ListInv /\ ListInv'
  BY ListNext DEF TimeInv
<1>2. now = Eras * Modulus + Counter /\ (update => Counter =< lag)
  BY DEF TimeInv
<1>3. CASE UNCHANGED <<now, rollover, update, lag>>
  <2>1. Eras' = Eras /\ Counter' = Counter
    BY <1>3 DEF Eras, Counter
  <2> QED BY <1>1, <1>2, <1>3, <2>1 DEF TimeInv
<1>4. CASE CountRollover
  <2>1. now' = now /\ update' = FALSE /\ rollover' = IF update THEN rollover + 1 ELSE rollover
    BY <1>4 DEF CountRollover
  <2>2. Eras' = Eras
    <3>1. update \in BOOLEAN /\ rollover \in Nat
      BY <1>1 DEF ListInv
    <3> QED BY <2>1, <3>1 DEF Eras
  <2>3. Counter' = Counter
    BY <2>1 DEF Counter
  <2> QED BY <1>1, <1>2, <2>1, <2>2, <2>3 DEF TimeInv
<1>5. CASE Tick
  BY <1>1, <1>5, TickTime DEF TimeInv
<1>6. CASE \/ \E d \in Durations : soft_timer_start(d)
           \/ InsertStarted
           \/ \E t \in TimerIds : soft_timer_cancel(t)
           \/ TIM2_IRQHandler
           \/ \E t \in TimerIds : RunCallback(t)
           \/ SetCompare
           \/ UNCHANGED vars
  <2>1. UNCHANGED <<now, rollover, update, lag>>
    BY <1>6 DEF soft_timer_start, InsertStarted, soft_timer_cancel, TIM2_IRQHandler, RunCallback, SetCompare, vars
  <2> QED BY <1>3, <2>1
<1> QED BY <1>4, <1>5, <1>6 DEF Next

LEMMA AlwaysTimeInv == Spec => []TimeInv
<1>1. Init => TimeInv
  BY TimeInit
<1>2. TimeInv /\ [Next]_vars => TimeInv'
  BY TimeNext
<1> QED BY <1>1, <1>2, PTL DEF Spec

LEMMA ExpiryOrder ==
  ASSUME NEW a \in Expiries, NEW b \in Expiries, ~ExpiresBefore(b, a)
  PROVE  Expiry(a) =< Expiry(b)
<1>1. PICK x, y, p, q : x = a.us /\ y = b.us /\ p = a.era /\ q = b.era
  OBVIOUS
<1>2. x \in 0 .. Modulus - 1 /\ y \in 0 .. Modulus - 1 /\ p \in Nat /\ q \in Nat
  BY <1>1 DEF Expiries
<1>3. p < q \/ (p = q /\ x =< y)
  BY <1>1, <1>2, Numbers DEF ExpiresBefore
<1>4. p * Modulus \in Nat /\ q * Modulus \in Nat
  BY <1>2, Numbers, EraLength
<1>5. CASE p < q
  <2>1. p * Modulus + Modulus =< q * Modulus
    BY <1>2, <1>5, Numbers, EraLater
  <2> QED BY <1>1, <1>2, <1>4, <2>1, Numbers DEF Expiry
<1>6. CASE p = q /\ x =< y
  <2>1. p * Modulus + x =< q * Modulus + y
    BY <1>2, <1>4, <1>6, Numbers
  <2> QED BY <1>1, <2>1 DEF Expiry
<1> QED BY <1>3, <1>5, <1>6

LEMMA OrderKept == ASSUME ListInv PROVE ListInOrder
<1>1. WellLinked(list, expiry, Pending) /\ ListInv /\ Exact(Timers, Pending)
  BY TimersParts DEF ListInv, WellTimers
<1>2. PICK R : R = Running /\ R = TimerIds \ (list.free \cup Pending)
  BY <1>1, RunningPending
<1>3. PICK s, n : Linked(list, R, s, n) /\ InOrder(expiry, s, n)
  BY <1>1, <1>2 DEF WellLinked
<1>4. expiry \in [TimerIds -> Expiries] /\ R \subseteq TimerIds
  BY <1>1, <1>2 DEF WellLinked
<1> SUFFICES ASSUME NEW t \in R \ misdated, list.link[t].next # Null, list.link[t].next \notin misdated
             PROVE  deadline[t] =< deadline[list.link[t].next]
  BY <1>2 DEF ListInOrder
<1>5. PICK i \in 1 .. n : s[i] = t
  BY <1>3 DEF Linked
<1>6. n \in Nat /\ s[n + 1] = Null /\ list.link[t] = [next |-> s[i + 1], prev |-> s[i - 1]]
  BY <1>3, <1>5 DEF Linked
<1>7. list.link[t].next = s[i + 1]
  BY <1>6
<1>8. i + 1 \in 1 .. n /\ i < n
  BY <1>6, <1>7
<1>9. s[i + 1] \in R
  BY <1>3, <1>8 DEF Linked
<1>10. ~ExpiresBefore(expiry[s[i + 1]], expiry[s[i]])
  BY <1>3, <1>8 DEF InOrder
<1>11. expiry[t] \in Expiries /\ expiry[s[i + 1]] \in Expiries
  BY <1>4, <1>9
<1>12. Expiry(expiry[t]) =< Expiry(expiry[s[i + 1]])
  BY <1>5, <1>10, <1>11, ExpiryOrder
<1>13. deadline[t] = Expiry(expiry[t]) /\ deadline[s[i + 1]] = Expiry(expiry[s[i + 1]])
  BY <1>1, <1>2, <1>7, <1>9, TimersParts DEF Exact
<1> QED BY <1>7, <1>12, <1>13

\* Theorem: of two neighbours in the list whose starts read the counter and the rollover count of the
\* same era, the first is due first, over any number of rollovers, wherever the interrupt strikes and
\* whatever misdated timers are in the list (soft_timer.c:1-3).
THEOREM ListAlwaysInOrder == Spec => []ListInOrder
<1>1. ListInv => ListInOrder
  BY OrderKept
<1> QED BY <1>1, AlwaysListInv, PTL

LEMMA FiresInTime ==
  ASSUME TimeInv, NEW t \in TimerIds \ misdated, RunCallback(t)
  PROVE  deadline[t] =< now + Offset
<1>1. /\ WellLinked(list, expiry, Pending) /\ ListInv /\ Exact(Timers, Pending)
      /\ now = Eras * Modulus + Counter
      /\ t = list.head /\ Expired(t)
  BY TimersParts DEF TimeInv, ListInv, WellTimers, RunCallback
<1>2. rollover \in Nat /\ update \in BOOLEAN /\ Counter \in 0 .. Modulus - 1
  BY <1>1, CounterRange DEF ListInv
<1>3. t \in TimerIds \ (list.free \cup Pending)
  BY <1>1, HeadRuns
<1>4. deadline[t] = Expiry(expiry[t])
  BY <1>1, <1>3, TimersParts DEF Exact
<1>5. PICK us, era : us = expiry[t].us /\ era = expiry[t].era
  OBVIOUS
<1>6. us \in 0 .. Modulus - 1 /\ era \in Nat
  <2>1. expiry[t] \in Expiries
    BY <1>1 DEF WellLinked
  <2> QED BY <1>5, <2>1 DEF Expiries
<1>7. Offset \in Nat /\ Modulus \in Nat \ {0} /\ Counter + Offset \in Nat
  BY <1>2, TimersAssumption
<1>8. deadline[t] = era * Modulus + us /\ era * Modulus \in Nat /\ rollover * Modulus \in Nat
  BY <1>2, <1>4, <1>5, <1>6, <1>7, EraLength DEF Expiry
<1>9. now >= rollover * Modulus + Counter
  <2>1. CASE update
    <3>1. Eras = rollover + 1 /\ (rollover + 1) * Modulus = rollover * Modulus + Modulus
      BY <1>2, <1>7, <2>1, EraLength DEF Eras
    <3> QED BY <1>1, <1>2, <1>7, <1>8, <3>1
  <2>2. CASE ~update
    <3>1. Eras = rollover
      BY <1>2, <2>2 DEF Eras
    <3> QED BY <1>1, <1>2, <1>7, <1>8, <3>1
  <2> QED BY <2>1, <2>2
<1>10. now \in Nat
  BY <1>1, CounterRange
<1>11. CASE era < rollover
  <2>1. era * Modulus + Modulus =< rollover * Modulus
    BY <1>2, <1>6, <1>7, <1>11, EraLater
  <2> QED BY <1>2, <1>6, <1>7, <1>8, <1>9, <1>10, <2>1
<1>12. CASE era = rollover /\ us =< (Counter + Offset) % Modulus
  <2>1. us =< Counter + Offset
    <3>1. CASE Counter + Offset < Modulus
      <4>1. (Counter + Offset) % Modulus = Counter + Offset
        BY <1>2, <1>7, <3>1, ModSmall
      <4> QED BY <1>12, <4>1
    <3>2. CASE ~(Counter + Offset < Modulus)
      BY <1>2, <1>6, <1>7, <3>2
    <3> QED BY <3>1, <3>2
  <2> QED BY <1>2, <1>6, <1>7, <1>8, <1>9, <1>10, <1>12, <2>1
<1> QED BY <1>1, <1>5, <1>11, <1>12 DEF Expired

\* Theorem: the callback of a timer whose start was not misdated runs at most `Offset' before its
\* time, in whatever era of the counter and although the handler may find the rollover count one
\* behind (soft_timer.c:204-217).
THEOREM CallbacksNeverEarly == Spec => NeverEarly
<1>1. TimeInv /\ [Next]_vars
      => [\A t \in TimerIds \ misdated : RunCallback(t) => deadline[t] =< now + Offset]_vars
  BY FiresInTime
<1> QED BY <1>1, AlwaysTimeInv, PTL DEF Spec, NeverEarly

-----------------------------------------------------------------------------
(* The compare register: the head of the list is served in time            *)

DueOf(s) == Expiry(s.expiry[s.list.head])
EraOf(s) == s.expiry[s.list.head].era

\* The compare register matches within a minimum interval of the head's expiry,
Soon(s) == \E n \in Nat : now < n /\ n % Modulus = s.compare.at /\ n =< DueOf(s) + MinTime

\* or after the rollover that ends the head's era: a head that is due counts as one to come while
\* the offset wraps.
Rolls(s) ==
  LET n == (EraOf(s) + 1) * Modulus + s.compare.at
  IN s.compare.at < MinTime /\ now < n /\ n =< now + Modulus /\ n =< DueOf(s) + 2 * MinTime + Latency

Awaited(s) == s.list.head # Null => s.astray = TRUE \/ (s.compare.enabled /\ (Soon(s) \/ Rolls(s)))

\* Once it has matched, a head of this era is late by the time served so far at most.
InTime(s) == now =< DueOf(s) + MinTime + lag
AfterRollover(s) ==
  EraOf(s) < Eras /\ Counter < MinTime + lag /\ now =< DueOf(s) + 2 * MinTime + Latency + lag
Served(s) == s.list.head # Null => s.astray = TRUE \/ InTime(s) \/ AfterRollover(s)

\* While the compare register is not astray, its match is awaited or its interrupt served.
DueInv ==
  /\ TimeInv
  /\ IF cc1 \/ handler = "fire" THEN Served(Timers) ELSE Awaited(Timers)

LEMMA TimerNumbers ==
  /\ Modulus \in Nat \ {0} /\ MinTime \in 1 .. Modulus - 1 /\ Offset \in 0 .. MinTime - 1
  /\ Latency \in Nat /\ Horizon \in Nat
BY TimersAssumption

\* The head is the first of the running timers.
LEMMA HeadFirst ==
  ASSUME NEW l, NEW ex, NEW X, WellLinked(l, ex, X), NEW t \in TimerIds \ (l.free \cup X)
  PROVE  l.head \in TimerIds \ (l.free \cup X) /\ ~ExpiresBefore(ex[t], ex[l.head])
<1> DEFINE R == TimerIds \ (l.free \cup X)
<1>1. PICK s, n : Linked(l, R, s, n) /\ InOrder(ex, s, n)
  BY DEF WellLinked
<1>2. ex \in [TimerIds -> Expiries]
  BY DEF WellLinked
<1>3. PICK p \in 1 .. n : s[p] = t
  BY <1>1 DEF Linked
<1>4. n \in Nat /\ 1 \in 1 .. n /\ l.head = s[1]
  BY <1>1, <1>3 DEF Linked
<1>5. \A i \in 1 .. n : s[i] \in R /\ ex[s[i]] \in Expiries
  BY <1>1, <1>2 DEF Linked
<1>6. \A i \in 1 .. n : i < n => ~ExpiresBefore(ex[s[i + 1]], ex[s[i]])
  BY <1>1 DEF InOrder
<1> DEFINE D == {i \in 1 .. n : ExpiresBefore(ex[s[i]], ex[s[1]])}
<1>7. D = {}
  <2>1. SUFFICES ASSUME D # {} PROVE FALSE
    OBVIOUS
  <2>2. Min(D) \in D /\ \A y \in D : Min(D) =< y
    <3>1. D \subseteq Nat
      BY <1>4
    <3> HIDE DEF D
    <3> QED BY <2>1, <3>1, MinLeast
  <2>3. PICK k \in D : \A y \in D : k =< y
    BY <2>2
  <2>4. k \in 1 .. n /\ ExpiresBefore(ex[s[k]], ex[s[1]])
    BY <2>3
  <2>5. k # 1
    <3>1. ex[s[1]] \in Expiries
      BY <1>4, <1>5
    <3>2. ~ExpiresBefore(ex[s[1]], ex[s[1]])
      BY <3>1, Numbers DEF ExpiresBefore, Expiries
    <3> QED BY <2>4, <3>2
  <2>6. k - 1 \in 1 .. n /\ k - 1 < n /\ (k - 1) + 1 = k
    BY <1>4, <2>4, <2>5
  <2>7. k - 1 \notin D
    BY <2>3, <2>6
  <2>8. ~ExpiresBefore(ex[s[k - 1]], ex[s[1]])
    BY <2>6, <2>7
  <2>9. ~ExpiresBefore(ex[s[k]], ex[s[k - 1]])
    BY <1>6, <2>6
  <2>10. ~ExpiresBefore(ex[s[k]], ex[s[1]])
    BY <1>4, <1>5, <2>4, <2>6, <2>8, <2>9, OrderTransitive
  <2> QED BY <2>4, <2>10
<1>8. ~ExpiresBefore(ex[s[p]], ex[s[1]])
  BY <1>7
<1> QED BY <1>3, <1>4, <1>5, <1>8

LEMMA HeadDue ==
  ASSUME NEW s, NEW X, WellTimers(s, X), NEW t \in TimerIds \ (s.list.free \cup X)
  PROVE  /\ s.list.head \in TimerIds \ (s.list.free \cup X)
         /\ DueOf(s) \in Nat /\ Expiry(s.expiry[t]) \in Nat /\ DueOf(s) =< Expiry(s.expiry[t])
         /\ EraOf(s) \in Nat /\ s.expiry[t].era \in Nat /\ EraOf(s) =< s.expiry[t].era
         /\ s.expiry[t].us \in 0 .. Modulus - 1
<1>1. WellLinked(s.list, s.expiry, X)
  BY DEF WellTimers
<1>2. PICK h : h = s.list.head
  OBVIOUS
<1>3. h \in TimerIds \ (s.list.free \cup X) /\ ~ExpiresBefore(s.expiry[t], s.expiry[h])
  BY <1>1, <1>2, HeadFirst
<1>4. s.expiry[h] \in Expiries /\ s.expiry[t] \in Expiries
  BY <1>1, <1>3 DEF WellLinked
<1>5. Expiry(s.expiry[h]) =< Expiry(s.expiry[t])
  BY <1>3, <1>4, ExpiryOrder
<1>6. s.expiry[h].era \in Nat /\ s.expiry[t].era \in Nat /\ s.expiry[h].era =< s.expiry[t].era
      /\ s.expiry[t].us \in 0 .. Modulus - 1
  BY <1>3, <1>4 DEF Expiries, ExpiresBefore
<1>7. ASSUME NEW e \in Expiries PROVE Expiry(e) \in Nat
  <2>1. e.era \in Nat /\ e.us \in Nat
    BY Numbers DEF Expiries
  <2>2. e.era * Modulus \in Nat
    BY <2>1, Numbers, EraLength
  <2> QED BY <2>1, <2>2 DEF Expiry
<1>8. DueOf(s) = Expiry(s.expiry[h]) /\ EraOf(s) = s.expiry[h].era
  BY <1>2 DEF DueOf, EraOf
<1> QED BY <1>2, <1>3, <1>4, <1>5, <1>6, <1>7, <1>8

\* Another running timer becomes the head.
LEMMA HeadMoves ==
  ASSUME NEW s, NEW X, WellTimers(s, X), NEW v, v.astray = s.astray, v.compare = s.compare,
         NEW t, t = v.list.head, t \in TimerIds \ (s.list.free \cup X), v.expiry[t] = s.expiry[t],
         now \in Nat, lag \in Nat, Eras \in Nat, Counter \in Nat, now = Eras * Modulus + Counter
  PROVE  (Awaited(s) => Awaited(v)) /\ (Served(s) => Served(v))
<1>1. PICK d, e, g, f, u, a, c, r :
        d = DueOf(s) /\ e = EraOf(s) /\ g = DueOf(v) /\ f = EraOf(v) /\ u = s.expiry[t].us
        /\ a = s.compare.at /\ c = Counter /\ r = Eras
  OBVIOUS
<1>2. /\ s.list.head \in TimerIds
      /\ d \in Nat /\ g \in Nat /\ d =< g /\ e \in Nat /\ f \in Nat /\ e =< f
      /\ u \in 0 .. Modulus - 1 /\ g = f * Modulus + u
  <2>1. g = Expiry(s.expiry[t]) /\ f = s.expiry[t].era
    BY <1>1 DEF DueOf, EraOf
  <2>2. g = f * Modulus + u
    BY <1>1, <2>1 DEF Expiry
  <2>3. s.list.head \in TimerIds /\ d \in Nat /\ e \in Nat
    BY <1>1, HeadDue
  <2>4. g \in Nat /\ d =< g
    <3>1. Expiry(s.expiry[t]) \in Nat /\ DueOf(s) =< Expiry(s.expiry[t])
      BY HeadDue
    <3> QED BY <1>1, <2>1, <3>1
  <2>5. f \in Nat /\ e =< f /\ u \in 0 .. Modulus - 1
    <3>1. s.expiry[t].era \in Nat /\ EraOf(s) =< s.expiry[t].era /\ s.expiry[t].us \in 0 .. Modulus - 1
      BY HeadDue
    <3> QED BY <1>1, <2>1, <3>1
  <2> QED BY <2>2, <2>3, <2>4, <2>5
<1>3. s.list.head # Null /\ v.compare.at = a /\ v.compare.enabled = s.compare.enabled
  BY <1>1, <1>2, Ids
<1>4. a \in 0 .. Modulus - 1
  BY <1>1 DEF WellTimers, Compares
<1>5. Modulus \in Nat \ {0} /\ MinTime \in Nat /\ Latency \in Nat /\ (e + 1) * Modulus \in Nat /\ f * Modulus \in Nat
      /\ r * Modulus \in Nat
  BY <1>1, <1>2, TimerNumbers, EraLength
<1>7. Soon(s) => Soon(v)
  BY <1>1, <1>2, <1>3, <1>5 DEF Soon
<1>8. ASSUME Rolls(s) PROVE Soon(v) \/ Rolls(v)
  <2>1. PICK n : n = (e + 1) * Modulus + a
    OBVIOUS
  <2>2. a < MinTime /\ now < n /\ n =< now + Modulus /\ n =< d + 2 * MinTime + Latency /\ n \in Nat
    BY <1>1, <1>4, <1>5, <1>8, <2>1 DEF Rolls
  <2>3. CASE f = e
    <3>1. n =< g + 2 * MinTime + Latency
      BY <1>2, <1>5, <2>2
    <3> QED BY <1>1, <1>3, <2>1, <2>2, <2>3, <3>1 DEF Rolls
  <2>4. CASE f > e
    <3>1. (e + 1) * Modulus =< f * Modulus
      <4>1. (e + 1) * Modulus = e * Modulus + Modulus /\ e * Modulus + Modulus =< f * Modulus
        BY <1>2, <1>5, <2>4, EraLength, EraLater
      <4> QED BY <4>1
    <3>2. n =< g + MinTime
      BY <1>2, <1>4, <1>5, <2>1, <2>2, <3>1
    <3>3. n % Modulus = a
      <4>1. e + 1 \in Nat
        BY <1>2
      <4> QED BY <1>4, <1>5, <2>1, <2>2, <4>1, ModPlus
    <3> QED BY <1>1, <1>3, <2>2, <3>2, <3>3 DEF Soon
  <2> QED BY <1>2, <2>3, <2>4
<1>9. InTime(s) => InTime(v)
  BY <1>1, <1>2, <1>5 DEF InTime
<1>10. ASSUME AfterRollover(s) PROVE InTime(v) \/ AfterRollover(v)
  <2>1. e < r /\ c < MinTime + lag /\ now =< d + 2 * MinTime + Latency + lag
    BY <1>1, <1>10 DEF AfterRollover
  <2>2. CASE f < r
    <3>1. now =< g + 2 * MinTime + Latency + lag
      BY <1>2, <1>5, <2>1
    <3> QED BY <1>1, <2>1, <2>2, <3>1 DEF AfterRollover
  <2>3. CASE ~(f < r)
    <3>0. r \in Nat /\ now = r * Modulus + c
      BY <1>1
    <3>1. r * Modulus =< f * Modulus
      <4>1. CASE f = r
        BY <1>5, <4>1
      <4>2. CASE r < f
        <5>1. r * Modulus + Modulus =< f * Modulus
          BY <1>2, <1>5, <3>0, <4>2, EraLater
        <5> QED BY <1>5, <5>1
      <4> QED BY <1>2, <2>3, <3>0, <4>1, <4>2
    <3>2. now =< g + MinTime + lag
      BY <1>1, <1>2, <1>5, <2>1, <3>0, <3>1
    <3> QED BY <1>1, <3>2 DEF InTime
  <2> QED BY <2>2, <2>3
<1>11. Awaited(s) => Awaited(v)
  BY <1>3, <1>7, <1>8 DEF Awaited
<1>12. Served(s) => Served(v)
  BY <1>3, <1>9, <1>10 DEF Served
<1> QED BY <1>11, <1>12

LEMMA InsertedHead ==
  ASSUME NEW l, ListShape(l), NEW ex, NEW t
  PROVE  Inserted(l, ex, t).head \in {t, l.head}
<1>1. PICK p, q : Inserted(l, ex, t) = Put(l, t, p, q)
  BY InsertedPuts
<1>2. PICK h, k, f : l = [head |-> h, link |-> k, free |-> f]
  BY DEF ListShape
<1> QED BY <1>1, <1>2 DEF Put

\* A timer started keeps the head awaited, or becomes it and sets the compare register.
LEMMA StartKeeps ==
  ASSUME NEW s, NEW X, WellTimers(s, X), NEW t \in X, rollover \in Nat, now \in Nat, lag \in Nat,
         NEW c \in 0 .. Modulus - 1, NEW d \in 0 .. Modulus - 1, NEW at \in Nat,
         NEW v, v = Started(s, t, c, d, at)
  PROVE  (Awaited(s) => Awaited(v)) /\ (Served(s) => Served(v))
<1>1. /\ WellLinked(s.list, s.expiry, X) /\ s.deadline \in [TimerIds -> Nat]
  BY DEF WellTimers
<1>2. t \in TimerIds /\ s.expiry \in [TimerIds -> Expiries] /\ ListShape(s.list)
  BY <1>1 DEF WellLinked
<1>3. PICK us : us = (c + d) % Modulus
  OBVIOUS
<1>4. PICK e : e = [us |-> us, era |-> rollover + IF us < c THEN 1 ELSE 0]
  OBVIOUS
<1>5. e \in Expiries /\ us \in 0 .. Modulus - 1 /\ Expiry(e) = rollover * Modulus + c + d
  BY <1>3, <1>4, ExpiryComputed
<1>6. PICK ex : ex = [s.expiry EXCEPT ![t] = e]
  OBVIOUS
<1>7. PICK l : l = Inserted(s.list, ex, t)
  OBVIOUS
<1>8. PICK k : k = IF l.head = t THEN [at |-> us, enabled |-> TRUE] ELSE s.compare
  OBVIOUS
<1>9. PICK o : o = IF l.head = t THEN Misdates(c, at) \/ at + d =< now ELSE s.astray
  OBVIOUS
<1>10. v.list = l /\ v.expiry = ex /\ v.compare = k /\ v.astray = o
  BY <1>3, <1>4, <1>6, <1>7, <1>8, <1>9 DEF Started
<1>11. l.head \in {t, s.list.head}
  BY <1>2, <1>7, InsertedHead
<1>12. CASE l.head = t /\ o = TRUE
  BY <1>10, <1>12 DEF Awaited, Served
<1>13. CASE l.head = t /\ o # TRUE
  <2>1. at = rollover * Modulus + c /\ ~(at + d =< now)
    BY <1>9, <1>13, Zenon DEF Misdates
  <2>2. DueOf(v) = at + d /\ k.at = us /\ k.enabled = TRUE
    <3>1. v.expiry[v.list.head] = e
      BY <1>2, <1>6, <1>10, <1>13
    <3>2. DueOf(v) = Expiry(e)
      BY <3>1 DEF DueOf
    <3>3. rollover * Modulus \in Nat
      BY TimerNumbers, EraLength
    <3> QED BY <1>5, <1>8, <1>13, <2>1, <3>2, <3>3
  <2>3. (at + d) % Modulus = us
    <3>1. e.us = us /\ e.era \in Nat
      BY <1>4, <1>5 DEF Expiries
    <3>2. e.era * Modulus + e.us = at + d
      <4>1. rollover * Modulus \in Nat
        BY TimerNumbers, EraLength
      <4> QED BY <1>5, <2>1, <4>1 DEF Expiry
    <3>3. PICK n, q : n = at + d /\ q = e.era
      OBVIOUS
    <3>4. n \in Nat /\ q \in Nat /\ n = q * Modulus + us
      BY <3>1, <3>2, <3>3
    <3>5. n % Modulus = us
      BY <1>5, <3>4, TimerNumbers, ModPlus
    <3> QED BY <3>3, <3>5
  <2>4. at + d \in Nat /\ now < at + d /\ at + d =< DueOf(v) + MinTime /\ now =< DueOf(v) + MinTime + lag
    <3>1. at + d \in Nat
      BY TimerNumbers
    <3> QED BY <2>1, <2>2, <3>1, TimerNumbers
  <2>5. Soon(v)
    BY <1>10, <2>2, <2>3, <2>4 DEF Soon
  <2>6. InTime(v)
    BY <2>4 DEF InTime
  <2> QED BY <1>10, <2>2, <2>5, <2>6 DEF Awaited, Served
<1>14. CASE l.head # t
  <2>1. l.head = s.list.head /\ k = s.compare /\ o = s.astray
    BY <1>8, <1>9, <1>11, <1>14
  <2>2. ASSUME s.list.head # Null PROVE DueOf(v) = DueOf(s) /\ EraOf(v) = EraOf(s)
    <3>1. s.list.head \in TimerIds
      <4>1. PICK r, n : Linked(s.list, TimerIds \ (s.list.free \cup X), r, n)
        BY <1>1 DEF WellLinked
      <4>2. TimerIds \ (s.list.free \cup X) \subseteq TimerIds
        OBVIOUS
      <4>3. n \in Nat /\ s.list.head = r[1] /\ 1 \in 0 .. n + 1
        BY <4>1 DEF Linked
      <4>4. r[1] \in TimerIds \cup {Null}
        BY <4>1, <4>2, <4>3, Places
      <4> QED BY <2>2, <4>3, <4>4
    <3>2. ex[s.list.head] = s.expiry[s.list.head]
      BY <1>2, <1>6, <1>14, <2>1, <3>1
    <3> QED BY <1>10, <2>1, <3>2 DEF DueOf, EraOf
  <2>3. v.list.head = s.list.head /\ v.compare = s.compare /\ v.astray = s.astray
    BY <1>10, <2>1
  <2>4. ASSUME s.list.head # Null
        PROVE  /\ Soon(v) <=> Soon(s)
               /\ Rolls(v) <=> Rolls(s)
               /\ InTime(v) <=> InTime(s)
               /\ AfterRollover(v) <=> AfterRollover(s)
    BY <2>2, <2>3, <2>4 DEF Soon, Rolls, InTime, AfterRollover
  <2> QED BY <2>3, <2>4 DEF Awaited, Served
<1> QED BY <1>11, <1>12, <1>13, <1>14

\* The removal of any timer leaves the next head awaited.
LEMMA CancelKeeps ==
  ASSUME NEW s, NEW X, WellTimers(s, X), NEW t \in TimerIds \ X, NEW v, v = Cancelled(s, t),
         now \in Nat, lag \in Nat, Eras \in Nat, Counter \in Nat, now = Eras * Modulus + Counter
  PROVE  (Awaited(s) => Awaited(v)) /\ (Served(s) => Served(v))
<1>1. WellTimers(v, X) /\ v.list.free = s.list.free \cup {t}
  BY CancelledWell
<1>2. v.astray = s.astray /\ v.compare = s.compare /\ \A u \in TimerIds \ {t} : v.expiry[u] = s.expiry[u]
  <2>1. Fields(s) /\ WellLinked(s.list, s.expiry, X)
    BY DEF WellTimers
  <2>2. PICK a, b, c, d, m, o : /\ a = s.list /\ b = s.expiry /\ c = s.compare /\ d = s.deadline
                               /\ m = s.misdated /\ o = s.astray
    OBVIOUS
  <2>3. s = [list |-> a, expiry |-> b, compare |-> c, deadline |-> d, misdated |-> m, astray |-> o]
    BY <2>1, <2>2 DEF Fields
  <2>4. PICK ex : ex = [b EXCEPT ![t] = Zeroed]
    OBVIOUS
  <2>5. v = [list |-> Removed(a, t), expiry |-> ex, compare |-> c, deadline |-> d,
             misdated |-> m \ {t}, astray |-> o]
    <3>1. v = [s EXCEPT !.list = Removed(a, t), !.expiry[t] = Zeroed, !.misdated = @ \ {t}]
      BY <2>2 DEF Cancelled
    <3> QED BY <2>3, <2>4, <3>1
  <2>6. b \in [TimerIds -> Expiries]
    BY <2>1, <2>2 DEF WellLinked
  <2> QED BY <2>2, <2>4, <2>5, <2>6
<1>3. PICK h : h = v.list.head
  OBVIOUS
<1>4. CASE h = Null
  BY <1>3, <1>4 DEF Awaited, Served
<1>5. CASE h # Null
  <2>1. WellLinked(v.list, v.expiry, X)
    BY <1>1 DEF WellTimers
  <2>2. h \in TimerIds
    <3>1. PICK r, n : Linked(v.list, TimerIds \ (v.list.free \cup X), r, n)
      BY <2>1 DEF WellLinked
    <3>2. TimerIds \ (v.list.free \cup X) \subseteq TimerIds
      OBVIOUS
    <3>3. n \in Nat /\ h = r[1] /\ 1 \in 0 .. n + 1
      BY <1>3, <3>1 DEF Linked
    <3>4. r[1] \in TimerIds \cup {Null}
      BY <3>1, <3>2, <3>3, Places
    <3> QED BY <1>5, <3>3, <3>4
  <2>3. h \notin v.list.free \cup X
    BY <1>3, <2>1, <2>2, HeadRuns
  <2>4. h \in TimerIds \ (s.list.free \cup X) /\ v.expiry[h] = s.expiry[h]
    BY <1>1, <1>2, <2>2, <2>3
  <2> QED BY <1>2, <1>3, <2>4, HeadMoves
<1> QED BY <1>4, <1>5

\* A start within a callback.
LEMMA AfterStartKeeps ==
  ASSUME NEW s, NEW X, WellTimers(s, X), rollover \in Nat, now \in Nat, lag \in Nat,
         Counter \in 0 .. Modulus - 1, NEW d \in 0 .. Modulus - 1, Served(s)
  PROVE  Served(AfterStart(s, d))
<1>1. CASE d < MinTime \/ s.list.free = {}
  <2>1. AfterStart(s, d) = s
    BY <1>1 DEF AfterStart
  <2> QED BY <2>1
<1>2. CASE ~(d < MinTime \/ s.list.free = {})
  <2>1. PICK t : t = Min(s.list.free)
    OBVIOUS
  <2>2. t \in s.list.free /\ t \in X \cup {t}
    BY <1>2, <2>1, FreeTaken
  <2>3. PICK r : r = [s EXCEPT !.list.free = @ \ {t}]
    OBVIOUS
  <2>4. /\ WellTimers(r, X \cup {t}) /\ r.list.head = s.list.head
        /\ r.expiry = s.expiry /\ r.compare = s.compare /\ r.astray = s.astray
    BY <2>2, <2>3, TakenKeeps
  <2>5. Served(r)
    BY <2>4 DEF Served, InTime, AfterRollover, DueOf, EraOf
  <2>6. PICK v : v = Started(r, t, Counter, d, now)
    OBVIOUS
  <2>7. Served(v)
    BY <2>2, <2>4, <2>5, <2>6, StartKeeps
  <2>8. AfterStart(s, d) = v
    BY <1>2, <2>1, <2>3, <2>6 DEF AfterStart
  <2> QED BY <2>7, <2>8
<1> QED BY <1>1, <1>2

LEMMA CallbackServed ==
  ASSUME TimeInv, Served(Timers), NEW t \in TimerIds, t = list.head, NEW s \in AfterCallback(t)
  PROVE  Served(Cancelled(s, t))
<1>1. /\ ListInv /\ WellTimers(Timers, Pending) /\ rollover \in Nat /\ lag \in Nat
      /\ now \in Nat /\ Counter \in 0 .. Modulus - 1
  BY CounterRange, TimerNumbers DEF TimeInv, ListInv
<1>2. now = Eras * Modulus + Counter /\ Eras \in Nat
  BY <1>1, ErasRange DEF TimeInv
<1>3. Counter \in Nat
  BY <1>1
<1>4. t \in TimerIds \ Pending
  <2>1. WellLinked(list, expiry, Pending)
    BY <1>1, TimersParts DEF WellTimers
  <2> QED BY <2>1, HeadRuns
<1>5. ASSUME NEW r, WellTimers(r, Pending), Served(r), NEW u \in TimerIds \ Pending
      PROVE  WellTimers(Cancelled(r, u), Pending) /\ Served(Cancelled(r, u))
  <2>1. PICK q : q = Cancelled(r, u)
    OBVIOUS
  <2>2. WellTimers(q, Pending)
    BY <1>5, <2>1, CancelledWell
  <2>3. Served(q)
    BY <1>1, <1>2, <1>3, <1>5, <2>1, CancelKeeps
  <2> QED BY <2>1, <2>2, <2>3
<1>6. ASSUME NEW d \in Asked
      PROVE  WellTimers(AfterStart(Timers, d), Pending) /\ Served(AfterStart(Timers, d))
  <2>1. d \in 0 .. Modulus - 1
    BY Numbers DEF Asked
  <2>2. WellTimers(AfterStart(Timers, d), Pending)
    BY <1>1, <2>1, AfterStartWell
  <2>3. Served(AfterStart(Timers, d))
    BY <1>1, <2>1, AfterStartKeeps
  <2> QED BY <2>2, <2>3
<1>7. CASE s = Timers
  BY <1>1, <1>4, <1>5, <1>7
<1>8. CASE \E d \in Asked : s = AfterStart(Timers, d)
  BY <1>4, <1>5, <1>6, <1>8
<1>9. CASE \E u \in TimerIds \ {starting.id} : s = Cancelled(Timers, u)
  <2>1. PICK u \in TimerIds \ {starting.id} : s = Cancelled(Timers, u)
    BY <1>9
  <2>2. u \in TimerIds \ Pending
    BY DEF Pending
  <2>3. WellTimers(s, Pending) /\ Served(s)
    BY <1>1, <1>5, <2>1, <2>2
  <2> QED BY <1>4, <1>5, <2>3
<1>10. CASE \E d \in Asked : s = Cancelled(AfterStart(Timers, d), t)
  <2>1. PICK d \in Asked : s = Cancelled(AfterStart(Timers, d), t)
    BY <1>10
  <2>2. WellTimers(s, Pending) /\ Served(s)
    BY <1>4, <1>5, <1>6, <2>1
  <2> QED BY <1>4, <1>5, <2>2
<1> QED BY <1>7, <1>8, <1>9, <1>10 DEF AfterCallback

\* The compare register set at the time o for a head that is overdue but not expired: it waits for
\* the minimum interval, unless the era of the first timer is before the head's.
LEMMA CompareNumbers ==
  ASSUME NEW M \in Nat \ {0}, NEW m \in 1 .. M - 1, NEW off \in 0 .. m - 1,
         NEW c \in 0 .. M - 1, NEW e \in Nat, NEW u \in 0 .. M - 1, NEW first \in Nat,
         NEW o, o = e * M + c, NEW D, D = e * M + u, D =< o, u > (c + off) % M, ~(e > first),
         NEW least, least = (c + m) % M,
         NEW a, a = IF (least < c) = (e > first) THEN (IF u >= least THEN u ELSE least)
                    ELSE IF least < c THEN least ELSE u
  PROVE  a = least /\ least < m /\ (e + 1) * M + least = o + m
<1>1. PICK p : p = e * M
  OBVIOUS
<1>2. p \in Nat /\ o = p + c /\ D = p + u /\ (e + 1) * M = p + M
  BY <1>1, EraLength
<1>3. u =< c
  BY <1>2
<1>4. c + off >= M
  <2>1. CASE c + off < M
    <3>1. (c + off) % M = c + off
      BY <2>1, ModSmall
    <3> QED BY <1>3, <3>1
  <2> QED BY <2>1
<1>5. c + m \in M .. 2 * M - 1
  BY <1>4
<1>6. least = c + m - M
  <2>1. PICK w : w = c + m
    OBVIOUS
  <2>2. w \in M .. 2 * M - 1
    BY <1>5, <2>1
  <2>3. w % M = w - M
    BY <2>2, ModWrap
  <2> QED BY <2>1, <2>3
<1> QED BY <1>2, <1>6

LEMMA DueSame ==
  ASSUME NEW v, Timers' = v, UNCHANGED <<now, Eras, lag>>
  PROVE  (Awaited(v) => Awaited(Timers)') /\ (Served(v) => Served(Timers)')
<1>1. Counter' = Counter
  BY DEF Counter
<1>2. /\ DueOf(Timers)' = DueOf(v)
      /\ EraOf(Timers)' = EraOf(v)
      /\ Timers.list.head' = v.list.head /\ Timers.compare.at' = v.compare.at
      /\ Timers.compare.enabled' = v.compare.enabled /\ Timers.astray' = v.astray
  BY DEF DueOf, EraOf, Expiry
<1>3. /\ Soon(v) => Soon(Timers)'
      /\ Rolls(v) => Rolls(Timers)'
      /\ InTime(v) => InTime(Timers)'
      /\ AfterRollover(v) => AfterRollover(Timers)'
  BY <1>1, <1>2 DEF Soon, Rolls, InTime, AfterRollover
<1> QED BY <1>2, <1>3 DEF Awaited, Served

\* The head with the numbers of its expiry.
LEMMA HeadNumbers ==
  ASSUME TimeInv, list.head # Null
  PROVE  /\ list.head \in TimerIds
         /\ DueOf(Timers) \in Nat /\ EraOf(Timers) \in Nat /\ expiry[list.head].us \in 0 .. Modulus - 1
         /\ DueOf(Timers) = EraOf(Timers) * Modulus + expiry[list.head].us
         /\ expiry[list.head].era = EraOf(Timers)
<1>1. WellTimers(Timers, Pending) /\ WellLinked(list, expiry, Pending)
  BY TimersParts DEF TimeInv, ListInv, WellTimers
<1>2. list.head \in TimerIds
  <2>1. PICK r, n : Linked(list, TimerIds \ (list.free \cup Pending), r, n)
    BY <1>1 DEF WellLinked
  <2>2. TimerIds \ (list.free \cup Pending) \subseteq TimerIds
    OBVIOUS
  <2>3. n \in Nat /\ list.head = r[1] /\ 1 \in 0 .. n + 1
    BY <2>1 DEF Linked
  <2>4. r[1] \in TimerIds \cup {Null}
    BY <2>1, <2>2, <2>3, Places
  <2> QED BY <2>3, <2>4
<1>3. list.head \in TimerIds \ (list.free \cup Pending)
  BY <1>1, <1>2, HeadRuns
<1>4. PICK s, t : s = Timers /\ t = list.head
  OBVIOUS
<1>5. s.list = list /\ s.expiry = expiry
  BY <1>4, TimersParts
<1>6. t \in TimerIds \ (s.list.free \cup Pending) /\ WellTimers(s, Pending)
  BY <1>1, <1>3, <1>4, <1>5
<1>7. /\ DueOf(s) \in Nat /\ EraOf(s) \in Nat
      /\ s.expiry[t].us \in 0 .. Modulus - 1
  BY <1>6, HeadDue
<1>8. DueOf(s) = s.expiry[t].era * Modulus + s.expiry[t].us /\ EraOf(s) = s.expiry[t].era
  BY <1>4, <1>5 DEF DueOf, EraOf, Expiry
<1> QED BY <1>2, <1>4, <1>5, <1>7, <1>8

\* The handler sets the compare register for the head.
LEMMA CompareSet ==
  ASSUME TimeInv, SetCompare, Served(Timers), list.head # Null
  PROVE  Awaited(Timers)'
<1>1. /\ handler = "fire" /\ ~Expired(list.head)
      /\ compare' = [at |-> NextCompare, enabled |-> TRUE] /\ (astray' # TRUE => ~Misjudged)
      /\ UNCHANGED <<now, rollover, list, expiry, update, starting, lag, deadline, misdated>>
  <2>1. handler = "fire" /\ ~Expired(list.head)
        /\ UNCHANGED <<now, rollover, list, expiry, update, starting, lag, deadline, misdated>>
    BY DEF SetCompare
  <2>2. compare' = [at |-> NextCompare, enabled |-> TRUE]
    BY DEF SetCompare
  <2>3. astray' = (list.head # Null /\ Misjudged)
    BY DEF SetCompare
  <2>4. ASSUME Misjudged PROVE astray' = TRUE
    BY <2>3, <2>4, Zenon
  <2> QED BY <2>1, <2>2, <2>4
<1>2. /\ now = Eras * Modulus + Counter /\ Eras \in Nat /\ Counter \in 0 .. Modulus - 1 /\ lag \in 0 .. Latency
      /\ now \in Nat /\ rollover \in Nat /\ (~update => Eras = rollover)
  BY ErasRange, CounterRange DEF TimeInv, ListInv
<1>3. PICK h, c, e, f, u, first, D, least, a :
        /\ h = list.head /\ c = Counter /\ e = Eras /\ f = EraOf(Timers) /\ u = expiry[list.head].us
        /\ first = expiry[0].era /\ D = DueOf(Timers) /\ least = (Counter + MinTime) % Modulus /\ a = NextCompare
  OBVIOUS
<1>4. /\ h \in TimerIds /\ D \in Nat /\ f \in Nat /\ u \in 0 .. Modulus - 1 /\ D = f * Modulus + u
      /\ expiry[h].us = u /\ expiry[h].era = f
  BY <1>3, HeadNumbers
<1>5. first \in Nat
  <2>1. WellLinked(list, expiry, Pending)
    BY TimersParts DEF TimeInv, ListInv, WellTimers
  <2>2. 0 \in TimerIds
    BY Ids
  <2>3. expiry[0] \in Expiries
    BY <2>1, <2>2 DEF WellLinked
  <2> QED BY <1>3, <2>3 DEF Expiries
<1>6. Modulus \in Nat \ {0} /\ MinTime \in 1 .. Modulus - 1 /\ Offset \in 0 .. MinTime - 1 /\ Latency \in Nat
  BY TimerNumbers
<1>7. least \in 0 .. Modulus - 1
  <2>1. c + MinTime \in Nat
    BY <1>2, <1>3, <1>6
  <2>2. least = (c + MinTime) % Modulus
    BY <1>3
  <2> QED BY <1>6, <2>1, <2>2, ModRange
<1>8. a = IF (least < c) = (f > first) THEN (IF u >= least THEN u ELSE least)
          ELSE IF least < c THEN least ELSE u
  <2>1. a = IF (least < c) = (f > first) THEN Max({u, least}) ELSE IF least < c THEN least ELSE u
    BY <1>3, <1>4 DEF NextCompare
  <2>2. Max({u, least}) = IF u >= least THEN u ELSE least
    <3>1. u \in Nat /\ least \in Nat
      BY <1>4, <1>6, <1>7
    <3>2. PICK w : w = IF u >= least THEN u ELSE least
      OBVIOUS
    <3>3. w \in {u, least} /\ \A y \in {u, least} : w >= y
      BY <3>1, <3>2
    <3>4. \A x \in {u, least} : (\A y \in {u, least} : x >= y) => x = w
      BY <3>1, <3>2
    <3>5. Max({u, least}) = w
      BY <3>3, <3>4 DEF Max
    <3> QED BY <3>2, <3>5
  <2> QED BY <2>1, <2>2
<1>9. a = u \/ a = least
  BY <1>8
<1>10. PICK v : v = Timers'
  OBVIOUS
<1>11. /\ v.list = list /\ v.expiry = expiry /\ v.compare = [at |-> a, enabled |-> TRUE]
       /\ v.astray = astray'
  BY <1>1, <1>3, <1>10 DEF Timers
<1>12. v.compare.at = a /\ v.compare.enabled = TRUE /\ v.list.head = h /\ DueOf(v) = D /\ EraOf(v) = f
  BY <1>3, <1>11, TimersParts DEF DueOf, EraOf
<1>13. PICK o : o = now
  OBVIOUS
<1>14. o \in Nat /\ o = e * Modulus + c /\ e \in Nat /\ c \in 0 .. Modulus - 1
  BY <1>2, <1>3, <1>13
<1>15. ASSUME D > o, a = u PROVE Awaited(v)
  <2>1. D % Modulus = u
    BY <1>4, <1>6, ModPlus
  <2>2. D \in Nat /\ now < D /\ D =< D + MinTime
    BY <1>4, <1>6, <1>13, <1>14, <1>15
  <2>3. Soon(v)
    BY <1>12, <1>15, <2>1, <2>2 DEF Soon
  <2> QED BY <1>12, <2>3, Zenon DEF Awaited
<1>16. ASSUME D > o, a = least PROVE Awaited(v)
  <2>1. (o + MinTime) % Modulus = least
    <3>1. e * Modulus \in Nat /\ (e + 1) * Modulus = e * Modulus + Modulus /\ e + 1 \in Nat
      BY <1>6, <1>14, EraLength
    <3>2. least = (c + MinTime) % Modulus
      BY <1>3
    <3>3. CASE c + MinTime < Modulus
      <4>1. least = c + MinTime
        <5>1. c + MinTime \in 0 .. Modulus - 1
          BY <1>6, <1>14, <3>3
        <5> QED BY <1>6, <3>2, <5>1, ModSmall
      <4>2. PICK n : n = o + MinTime
        OBVIOUS
      <4>3. n \in Nat /\ n = e * Modulus + least
        BY <1>6, <1>14, <3>1, <4>1, <4>2
      <4>4. n % Modulus = least
        BY <1>6, <1>7, <1>14, <4>3, ModPlus
      <4> QED BY <4>2, <4>4
    <3>4. CASE ~(c + MinTime < Modulus)
      <4>1. least = c + MinTime - Modulus
        <5>1. PICK w : w = c + MinTime
          OBVIOUS
        <5>2. w \in Modulus .. 2 * Modulus - 1
          BY <1>6, <1>14, <3>4, <5>1
        <5>3. w % Modulus = w - Modulus
          BY <1>6, <5>2, ModWrap
        <5> QED BY <1>6, <1>7, <1>14, <3>2, <5>1, <5>2, <5>3
      <4>2. PICK n, q : n = o + MinTime /\ q = e + 1
        OBVIOUS
      <4>3. n \in Nat /\ q \in Nat /\ n = q * Modulus + least
        BY <1>6, <1>14, <3>1, <4>1, <4>2
      <4>4. n % Modulus = least
        BY <1>6, <1>7, <4>3, ModPlus
      <4> QED BY <4>2, <4>4
    <3> QED BY <3>3, <3>4
  <2>2. o + MinTime \in Nat /\ o < o + MinTime /\ o + MinTime =< D + MinTime
    BY <1>4, <1>6, <1>14, <1>16
  <2>3. Soon(v)
    BY <1>12, <1>13, <1>16, <2>1, <2>2 DEF Soon
  <2> QED BY <1>12, <2>3, Zenon DEF Awaited
<1>17. ASSUME ~(D > o), astray' # TRUE PROVE Awaited(v)
  <2>1. ~astray /\ ~update /\ ~(f > first)
    <3>1. D =< now
      BY <1>4, <1>13, <1>14, <1>17
    <3>2. expiry[list.head].era * Modulus + expiry[list.head].us =< now
      BY <1>3, <1>4, <3>1
    <3>3. ~(astray \/ update \/ expiry[list.head].era > expiry[0].era)
      BY <1>1, <1>17, <3>2 DEF Misjudged
    <3> QED BY <1>3, <1>4, <3>3
  <2>2. e = rollover
    BY <1>2, <1>3, <2>1
  <2>3. ~(f < e) /\ ~(f = e /\ u =< (c + Offset) % Modulus)
    BY <1>1, <1>3, <1>4, <2>2 DEF Expired
  <2>4. f = e
    <3>1. CASE f > e
      <4>1. e * Modulus + Modulus =< f * Modulus
        BY <1>4, <1>6, <1>14, <3>1, EraLater
      <4>2. e * Modulus \in Nat /\ f * Modulus \in Nat
        BY <1>4, <1>6, <1>14, EraLength
      <4> QED BY <1>4, <1>6, <1>14, <1>17, <4>1, <4>2
    <3> QED BY <1>4, <1>14, <2>3, <3>1
  <2>5. u > (c + Offset) % Modulus
    <3>1. c + Offset \in Nat
      BY <1>6, <1>14
    <3>2. (c + Offset) % Modulus \in Nat
      BY <1>6, <3>1, ModRange
    <3> QED BY <1>4, <2>3, <2>4, <3>2
  <2>6. D =< o /\ D = e * Modulus + u /\ ~(e > first)
    BY <1>4, <1>14, <1>17, <2>1, <2>4
  <2>7. a = IF (least < c) = (e > first) THEN (IF u >= least THEN u ELSE least)
            ELSE IF least < c THEN least ELSE u
    BY <1>8, <2>4
  <2>8. least = (c + MinTime) % Modulus
    BY <1>3
  <2>9. a = least /\ least < MinTime /\ (e + 1) * Modulus + least = o + MinTime
    BY <1>4, <1>5, <1>6, <1>14, <2>5, <2>6, <2>7, <2>8, CompareNumbers
  <2>10. now =< D + MinTime + lag
    <3>1. ~AfterRollover(Timers)
      BY <1>3, <1>14, <2>4 DEF AfterRollover
    <3>2. InTime(Timers)
      BY <2>1, <3>1, TimersParts DEF Served
    <3> QED BY <1>3, <3>2 DEF InTime
  <2>11. PICK n : n = (f + 1) * Modulus + a
    OBVIOUS
  <2>12. n = o + MinTime
    BY <2>4, <2>9, <2>11
  <2>13. PICK g : g = lag
    OBVIOUS
  <2>14. g \in 0 .. Latency /\ o =< D + MinTime + g
    BY <1>2, <1>13, <2>10, <2>13
  <2>15. o < n /\ n =< o + Modulus /\ n =< D + 2 * MinTime + Latency
    BY <1>4, <1>6, <1>14, <2>12, <2>14
  <2>16. Rolls(v)
    BY <1>12, <1>13, <2>9, <2>11, <2>15 DEF Rolls
  <2> QED BY <1>12, <2>16, Zenon DEF Awaited
<1>18. ASSUME astray' = TRUE PROVE Awaited(v)
  BY <1>11, <1>18, Zenon DEF Awaited
<1>19. Awaited(v)
  BY <1>9, <1>15, <1>16, <1>17, <1>18, Zenon
<1>20. UNCHANGED <<now, Eras, lag>>
  BY <1>1 DEF Eras
<1> QED BY <1>10, <1>19, <1>20, DueSame

\* The counter moves on by one: up to a match the head is awaited, from then on it is served.
LEMMA TickServed ==
  ASSUME TimeInv, TimeInv', Tick, cc1 \/ handler = "fire", Served(Timers)
  PROVE  Served(Timers)' /\ (cc1' \/ handler' = "fire")
<1>1. /\ now' = now + 1 /\ lag' = lag + 1 /\ (update => update')
      /\ cc1' \/ handler' = "fire"
      /\ UNCHANGED <<rollover, list, expiry, compare, handler, starting, deadline, misdated, astray>>
  <2>1. Engaged
    BY DEF Engaged
  <2>2. cc1 \in BOOLEAN
    BY DEF TimeInv, ListInv
  <2> QED BY <2>1, <2>2 DEF Tick, histories
<1>2. PICK e1, e2, c1, c2 : e1 = Eras /\ e2 = Eras' /\ c1 = Counter /\ c2 = Counter'
  OBVIOUS
<1>3. /\ now \in Nat /\ lag \in Nat /\ c1 \in 0 .. Modulus - 1 /\ c2 \in 0 .. Modulus - 1
      /\ now = e1 * Modulus + c1 /\ now + 1 = e2 * Modulus + c2 /\ e1 \in Nat /\ e2 \in {e1, e1 + 1}
  <2>1. now \in Nat /\ c1 \in 0 .. Modulus - 1 /\ rollover \in Nat /\ lag \in Nat /\ update \in BOOLEAN /\ e1 \in Nat
    BY <1>2, CounterRange, ErasRange, TimerNumbers DEF TimeInv, ListInv
  <2>2. c2 = (now + 1) % Modulus
    BY <1>1, <1>2 DEF Counter
  <2>3. c2 \in 0 .. Modulus - 1
    BY <2>1, <2>2, TimerNumbers, ModRange
  <2>4. now = e1 * Modulus + c1 /\ now' = e2 * Modulus + c2
    BY <1>2 DEF TimeInv
  <2>5. e2 = rollover + IF update' THEN 1 ELSE 0
    BY <1>1, <1>2 DEF Eras
  <2>6. e2 \in {e1, e1 + 1}
    BY <1>1, <1>2, <2>1, <2>5 DEF Eras
  <2> QED BY <1>1, <2>1, <2>3, <2>4, <2>6
<1>4. c2 =< c1 + 1 /\ e1 =< e2
  <2>1. PICK p : p = e1 * Modulus
    OBVIOUS
  <2>2. p \in Nat /\ (e1 + 1) * Modulus = p + Modulus /\ Modulus \in Nat
    BY <1>3, <2>1, TimerNumbers, EraLength
  <2>3. CASE e2 = e1
    BY <1>3, <2>1, <2>2, <2>3
  <2>4. CASE e2 = e1 + 1
    BY <1>3, <2>1, <2>2, <2>4
  <2> QED BY <1>3, <2>3, <2>4
<1>6. CASE list.head = Null
  BY <1>1, <1>6, TimersParts DEF Served, Timers
<1>7. CASE list.head # Null
  <2>1. PICK D, e : D = DueOf(Timers) /\ e = EraOf(Timers)
    OBVIOUS
  <2>2. D \in Nat /\ e \in Nat
    BY <1>7, <2>1, HeadNumbers
  <2>3. DueOf(Timers)' = D /\ EraOf(Timers)' = e /\ Timers'.astray = Timers.astray
    BY <1>1, <2>1 DEF DueOf, EraOf, Timers, Expiry
  <2>4. InTime(Timers) => InTime(Timers)'
    BY <1>1, <1>3, <2>1, <2>2, <2>3, TimerNumbers DEF InTime
  <2>5. ASSUME AfterRollover(Timers) PROVE AfterRollover(Timers)'
    <3>1. e < e1 /\ c1 < MinTime + lag /\ now =< D + 2 * MinTime + Latency + lag
      BY <1>2, <2>1, <2>5 DEF AfterRollover
    <3>2. e < e2 /\ c2 < MinTime + (lag + 1) /\ now + 1 =< D + 2 * MinTime + Latency + (lag + 1)
      BY <1>3, <1>4, <2>2, <3>1, TimerNumbers
    <3> QED BY <1>1, <1>2, <2>3, <3>2 DEF AfterRollover
  <2>6. Timers.astray = TRUE \/ InTime(Timers) \/ AfterRollover(Timers)
    BY <1>7, TimersParts DEF Served
  <2>7. Served(Timers)'
    BY <2>3, <2>4, <2>5, <2>6, Zenon DEF Served
  <2> QED BY <1>1, <2>7
<1> QED BY <1>1, <1>6, <1>7

LEMMA TickMatches ==
  ASSUME TimeInv, TimeInv', Tick, ~cc1, handler # "fire", Awaited(Timers)
  PROVE  IF cc1' \/ handler' = "fire" THEN Served(Timers)' ELSE Awaited(Timers)'
<1>1. /\ now' = now + 1 /\ handler' # "fire"
      /\ cc1' => (now + 1) % Modulus = compare.at
      /\ (now + 1) % Modulus = compare.at /\ compare.enabled => cc1'
      /\ UNCHANGED <<rollover, list, expiry, compare, handler, starting, deadline, misdated, astray>>
  BY DEF Tick, histories
<1>2. /\ now \in Nat /\ lag' \in Nat /\ Eras' \in Nat /\ now' = Eras' * Modulus + Counter'
      /\ Counter' = (now + 1) % Modulus /\ compare.at \in 0 .. Modulus - 1
  <2>1. now \in Nat /\ Eras' \in Nat
    <3>1. rollover' \in Nat /\ now \in Nat
      BY CounterRange DEF TimeInv, ListInv
    <3>2. (Eras \in Nat)'
      <4>1. PICK r, u : r = rollover' /\ u = update'
        OBVIOUS
      <4>2. r + (IF u THEN 1 ELSE 0) \in Nat
        <5>1. r \in Nat
          BY <3>1, <4>1
        <5>2. r + 1 \in Nat /\ r + 0 \in Nat
          BY <5>1
        <5> QED BY <5>2, Zenon
      <4>3. Eras' = r + (IF u THEN 1 ELSE 0)
        BY <4>1 DEF Eras
      <4> QED BY <4>2, <4>3
    <3> QED BY <3>1, <3>2
  <2>2. lag' \in Nat
    BY TimerNumbers DEF TimeInv, ListInv
  <2>3. Counter' = (now + 1) % Modulus
    BY <1>1 DEF Counter
  <2>4. compare \in Compares
    BY TimersParts DEF TimeInv, ListInv, WellTimers
  <2>5. now' = Eras' * Modulus + Counter'
    BY DEF TimeInv
  <2> QED BY <2>1, <2>2, <2>3, <2>4, <2>5 DEF Compares
<1>3. CASE list.head = Null
  BY <1>1, <1>3, TimersParts DEF Served, Awaited, Timers
<1>4. CASE list.head # Null
  <2>1. PICK D, e, a : D = DueOf(Timers) /\ e = EraOf(Timers) /\ a = compare.at
    OBVIOUS
  <2>2. D \in Nat /\ e \in Nat /\ a \in 0 .. Modulus - 1
    BY <1>2, <1>4, <2>1, HeadNumbers
  <2>3. DueOf(Timers)' = D /\ EraOf(Timers)' = e /\ Timers'.compare = compare
        /\ Timers'.astray = Timers.astray
    BY <1>1, <2>1 DEF DueOf, EraOf, Timers, Expiry
  <2>4. Modulus \in Nat \ {0} /\ MinTime \in Nat /\ Latency \in Nat
    BY TimerNumbers
  <2>5. Timers.astray = TRUE \/ (compare.enabled /\ (Soon(Timers) \/ Rolls(Timers)))
    BY <1>4, TimersParts, Zenon DEF Awaited
  <2>6. ASSUME Timers.astray = TRUE PROVE Served(Timers)' /\ Awaited(Timers)'
    <3>1. Timers'.astray = TRUE
      BY <2>3, <2>6
    <3> QED BY <3>1, Zenon DEF Served, Awaited
  <2>7. ASSUME Rolls(Timers)
        PROVE  /\ a < MinTime /\ now < (e + 1) * Modulus + a /\ (e + 1) * Modulus + a =< now + Modulus
               /\ (e + 1) * Modulus + a =< D + 2 * MinTime + Latency
               /\ (e + 1) * Modulus \in Nat /\ ((e + 1) * Modulus + a) % Modulus = a
    <3>1. /\ a < MinTime /\ now < (e + 1) * Modulus + a /\ (e + 1) * Modulus + a =< now + Modulus
          /\ (e + 1) * Modulus + a =< D + 2 * MinTime + Latency
      BY <2>1, <2>7, TimersParts DEF Rolls
    <3>2. e + 1 \in Nat
      BY <2>2
    <3>3. (e + 1) * Modulus \in Nat
      BY <2>4, <3>2, EraLength
    <3>4. PICK n, q : n = (e + 1) * Modulus + a /\ q = e + 1
      OBVIOUS
    <3>5. n \in Nat /\ q \in Nat /\ n = q * Modulus + a
      BY <2>2, <3>2, <3>3, <3>4
    <3>6. n % Modulus = a
      BY <2>2, <2>4, <3>5, ModPlus
    <3> QED BY <3>1, <3>3, <3>4, <3>6
  <2>8. ASSUME Timers.astray # TRUE, cc1' PROVE Served(Timers)'
    <3>0. PICK r : r = Eras'
      OBVIOUS
    <3>1. (now + 1) % Modulus = a /\ r \in Nat /\ now' = r * Modulus + Counter'
      BY <1>1, <1>2, <2>1, <2>8, <3>0
    <3>2. PICK p : p = r * Modulus
      OBVIOUS
    <3>3. p \in Nat /\ now + 1 = p + a /\ Counter' = a
      BY <1>1, <1>2, <2>4, <3>1, <3>2, EraLength
    <3>4. ASSUME Soon(Timers) PROVE InTime(Timers)'
      <4>1. PICK n \in Nat : now < n /\ n =< D + MinTime
        BY <2>1, <3>4 DEF Soon
      <4>2. PICK g : g = lag'
        OBVIOUS
      <4>3. now' =< D + MinTime + g
        <5>1. g \in Nat
          BY <1>2, <4>2
        <5>2. now + 1 =< n
          BY <1>2, <4>1
        <5> QED BY <1>1, <1>2, <2>2, <2>4, <4>1, <5>1, <5>2
      <4> QED BY <2>3, <4>2, <4>3 DEF InTime
    <3>5. ASSUME Rolls(Timers) PROVE AfterRollover(Timers)'
      <4>1. PICK q, n : q = (e + 1) * Modulus /\ n = q + a
        OBVIOUS
      <4>2. q \in Nat /\ a < MinTime /\ now < n /\ n =< now + Modulus /\ n =< D + 2 * MinTime + Latency
        BY <2>7, <3>5, <4>1
      <4>3. ~(r < e + 1)
        <5>1. ASSUME r < e + 1 PROVE FALSE
          <6>1. r * Modulus + Modulus =< (e + 1) * Modulus
            <7>1. e + 1 \in Nat
              BY <2>2
            <7> QED BY <2>4, <3>1, <5>1, <7>1, EraLater
          <6>2. p + Modulus =< q
            BY <3>2, <4>1, <6>1
          <6> QED BY <1>2, <2>2, <2>4, <3>3, <4>1, <4>2, <6>2
        <5> QED BY <5>1
      <4>4. ~(e + 1 < r)
        <5>1. ASSUME e + 1 < r PROVE FALSE
          <6>1. (e + 1) * Modulus + Modulus =< r * Modulus
            <7>1. e + 1 \in Nat
              BY <2>2
            <7> QED BY <2>4, <3>1, <5>1, <7>1, EraLater
          <6>2. q + Modulus =< p
            BY <3>2, <4>1, <6>1
          <6> QED BY <1>2, <2>2, <2>4, <3>3, <4>1, <4>2, <6>2
        <5> QED BY <5>1
      <4>5. r = e + 1
        BY <2>2, <3>1, <4>3, <4>4
      <4>6. now + 1 = n
        BY <3>2, <3>3, <4>1, <4>5
      <4>7. PICK g : g = lag'
        OBVIOUS
      <4>8. e < Eras' /\ Counter' < MinTime + g /\ now' =< D + 2 * MinTime + Latency + g
        <5>1. g \in Nat
          BY <1>2, <4>7
        <5>2. Eras' = e + 1
          BY <3>0, <4>5
        <5>3. now' = n
          BY <1>1, <4>6
        <5>4. a \in Nat /\ n \in Nat
          BY <2>2, <4>1, <2>7, <3>5
        <5>5. Counter' = a
          BY <3>3
        <5>6. a < MinTime + g /\ n =< D + 2 * MinTime + Latency + g
          BY <2>2, <2>4, <4>2, <5>1, <5>4
        <5> QED BY <2>2, <5>2, <5>3, <5>5, <5>6
      <4> QED BY <2>3, <4>7, <4>8 DEF AfterRollover
    <3> QED BY <2>5, <2>8, <3>4, <3>5, Zenon DEF Served
  <2>9. ASSUME Timers.astray # TRUE, ~cc1' PROVE Awaited(Timers)'
    <3>1. compare.enabled /\ (now + 1) % Modulus # a
      BY <1>1, <2>1, <2>5, <2>9
    <3>2. ASSUME Soon(Timers) PROVE Soon(Timers)'
      <4>1. PICK n \in Nat : now < n /\ n % Modulus = a /\ n =< D + MinTime
        BY <2>1, <3>2, TimersParts DEF Soon
      <4>2. n # now + 1
        BY <3>1, <4>1
      <4>3. now' < n
        BY <1>1, <1>2, <4>1, <4>2
      <4> QED BY <2>1, <2>3, <4>1, <4>3 DEF Soon
    <3>3. ASSUME Rolls(Timers) PROVE Rolls(Timers)'
      <4>1. PICK n : n = (e + 1) * Modulus + a
        OBVIOUS
      <4>2. a < MinTime /\ now < n /\ n =< now + Modulus /\ n =< D + 2 * MinTime + Latency /\ n \in Nat /\ n % Modulus = a
        BY <2>2, <2>7, <3>3, <4>1
      <4>3. n # now + 1
        BY <3>1, <4>2
      <4>4. now' < n /\ n =< now' + Modulus
        BY <1>1, <1>2, <2>4, <4>2, <4>3
      <4> QED BY <2>1, <2>3, <4>1, <4>2, <4>4 DEF Rolls
    <3>4. Timers'.compare.enabled
      BY <2>3, <3>1
    <3> QED BY <2>5, <2>9, <3>2, <3>3, <3>4, Zenon DEF Awaited
  <2> QED BY <1>1, <2>6, <2>8, <2>9
<1> QED BY <1>3, <1>4

\* The steps of the main loop and of the handler.
LEMMA DueStep ==
  ASSUME DueInv, TimeInv', [Next]_vars
  PROVE  IF cc1' \/ handler' = "fire" THEN Served(Timers)' ELSE Awaited(Timers)'
<1>1. /\ TimeInv /\ ListInv /\ WellTimers(Timers, Pending)
      /\ now = Eras * Modulus + Counter /\ Eras \in Nat
      /\ rollover \in Nat /\ lag \in Nat /\ now \in Nat /\ Counter \in 0 .. Modulus - 1 /\ Counter \in Nat
      /\ cc1 \in BOOLEAN /\ update \in BOOLEAN
  BY CounterRange, ErasRange, TimerNumbers DEF DueInv, TimeInv, ListInv
<1>2. IF cc1 \/ handler = "fire" THEN Served(Timers) ELSE Awaited(Timers)
  BY DEF DueInv
<1>4. ASSUME NEW v, Timers' = v, UNCHANGED <<now, rollover, update, lag>>, cc1' = cc1, handler' = handler,
             IF cc1 \/ handler = "fire" THEN Served(v) ELSE Awaited(v)
      PROVE  IF cc1' \/ handler' = "fire" THEN Served(Timers)' ELSE Awaited(Timers)'
  <2>1. UNCHANGED <<now, Eras, lag>>
    BY <1>4 DEF Eras
  <2> QED BY <1>4, <2>1, DueSame
<1>5. ASSUME NEW d \in Durations, soft_timer_start(d)
      PROVE  IF cc1' \/ handler' = "fire" THEN Served(Timers)' ELSE Awaited(Timers)'
  <2>1. PICK t : t = Min(list.free)
    OBVIOUS
  <2>2. /\ list' = [list EXCEPT !.free = @ \ {t}] 
        /\ UNCHANGED <<now, rollover, expiry, compare, cc1, update, handler, lag, deadline, misdated, astray>>
    BY <1>5, <2>1 DEF soft_timer_start, histories
  <2>3. list'.head = list.head
    <3>1. list = [head |-> list.head, link |-> list.link, free |-> list.free]
      BY <1>1, TimersParts DEF WellTimers, WellLinked, ListShape
    <3>2. PICK h, q, f : list = [head |-> h, link |-> q, free |-> f]
      BY <3>1
    <3> QED BY <2>2, <3>2
  <2>5. PICK s, v : s = Timers /\ v = Timers'
    OBVIOUS
  <2>6. v.list.head = s.list.head /\ v.compare = s.compare /\ v.astray = s.astray /\ v.expiry = s.expiry
    BY <2>2, <2>3, <2>5 DEF Timers
  <2>7. (Served(s) => Served(v)) /\ (Awaited(s) => Awaited(v))
    <3>1. DueOf(v) = DueOf(s) /\ EraOf(v) = EraOf(s)
      BY <2>6 DEF DueOf, EraOf
    <3>2. /\ Soon(s) => Soon(v)
          /\ Rolls(s) => Rolls(v)
          /\ InTime(s) => InTime(v)
          /\ AfterRollover(s) => AfterRollover(v)
      BY <2>6, <3>1 DEF Soon, Rolls, InTime, AfterRollover
    <3> QED BY <2>6, <3>2 DEF Served, Awaited
  <2>8. IF cc1 \/ handler = "fire" THEN Served(v) ELSE Awaited(v)
    BY <1>2, <2>5, <2>7
  <2> QED BY <1>4, <2>2, <2>5, <2>8
<1>6. CASE InsertStarted
  <2>1. /\ starting # NotStarting
        /\ BecomeTimers(Started(Timers, starting.id, starting.count, starting.duration, starting.at))
        /\ UNCHANGED <<now, rollover, cc1, update, handler, lag>>
    BY <1>6 DEF InsertStarted
  <2>2. /\ starting.id \in TimerIds /\ starting.count \in 0 .. Modulus - 1
        /\ starting.duration \in 0 .. Modulus - 1 /\ starting.at \in Nat
    BY <1>1, <2>1 DEF ListInv
  <2>3. PICK t, c, d, a : t = starting.id /\ c = starting.count /\ d = starting.duration /\ a = starting.at
    OBVIOUS
  <2>4. PICK s, v : s = Timers /\ v = Started(s, t, c, d, a)
    OBVIOUS
  <2>5. /\ t \in Pending /\ c \in 0 .. Modulus - 1 /\ d \in 0 .. Modulus - 1 /\ a \in Nat
        /\ WellTimers(s, Pending)
    BY <1>1, <2>2, <2>3, <2>4 DEF Pending
  <2>6. WellTimers(v, Pending \ {t})
    BY <1>1, <2>4, <2>5, StartedWell
  <2>7. Timers' = v
    <3>1. BecomeTimers(v)
      BY <2>1, <2>3, <2>4
    <3> QED BY <2>6, <3>1, BecomeGood
  <2>8. (Awaited(s) => Awaited(v)) /\ (Served(s) => Served(v))
    BY <1>1, <2>4, <2>5, StartKeeps
  <2>9. IF cc1 \/ handler = "fire" THEN Served(v) ELSE Awaited(v)
    BY <1>2, <2>4, <2>8
  <2> QED BY <1>4, <2>1, <2>7, <2>9
<1>7. ASSUME NEW t \in TimerIds, soft_timer_cancel(t)
      PROVE  IF cc1' \/ handler' = "fire" THEN Served(Timers)' ELSE Awaited(Timers)'
  <2>1. /\ starting = NotStarting /\ BecomeTimers(Cancelled(Timers, t))
        /\ UNCHANGED <<now, rollover, cc1, update, handler, starting, lag>>
    BY <1>7 DEF soft_timer_cancel
  <2>2. Pending = {}
    BY <2>1, Ids DEF Pending, NotStarting
  <2>3. PICK s, v : s = Timers /\ v = Cancelled(s, t)
    OBVIOUS
  <2>4. WellTimers(s, Pending) /\ t \in TimerIds \ Pending
    BY <1>1, <2>2, <2>3
  <2>5. WellTimers(v, Pending)
    BY <2>3, <2>4, CancelledWell
  <2>6. (Awaited(s) => Awaited(v)) /\ (Served(s) => Served(v))
    BY <1>1, <2>3, <2>4, CancelKeeps
  <2>7. Timers' = v
    <3>1. BecomeTimers(v)
      BY <2>1, <2>3
    <3> QED BY <2>5, <3>1, BecomeGood
  <2>8. IF cc1 \/ handler = "fire" THEN Served(v) ELSE Awaited(v)
    BY <1>2, <2>3, <2>6
  <2> QED BY <1>4, <2>1, <2>7, <2>8
<1>8. ASSUME NEW t \in TimerIds, RunCallback(t)
      PROVE  IF cc1' \/ handler' = "fire" THEN Served(Timers)' ELSE Awaited(Timers)'
  <2>1. PICK s \in AfterCallback(t) : BecomeTimers(Cancelled(s, t))
    BY <1>8 DEF RunCallback
  <2>2. /\ t = list.head /\ handler = "fire"
        /\ UNCHANGED <<now, rollover, cc1, update, handler, starting, lag>>
    BY <1>8 DEF RunCallback
  <2>3. Served(Timers)
    BY <1>2, <2>2
  <2>5. PICK v : v = Cancelled(s, t)
    OBVIOUS
  <2>6. WellTimers(v, Pending)
    BY <1>1, <2>2, <2>5, CallbackWell
  <2>7. Timers' = v
    <3>1. BecomeTimers(v)
      BY <2>1, <2>5
    <3> QED BY <2>6, <3>1, BecomeGood
  <2>8. Served(v)
    BY <1>1, <2>2, <2>3, <2>5, CallbackServed
  <2>9. IF cc1' \/ handler' = "fire" THEN Served(Timers)' ELSE Awaited(Timers)'
    BY <1>4, <2>2, <2>7, <2>8
  <2> QED BY <2>9
<1>9. CASE TIM2_IRQHandler
  <2>1. /\ handler = "out"
        /\ \/ cc1 /\ handler' = "fire" /\ compare' = [compare EXCEPT !.enabled = FALSE]
           \/ ~cc1 /\ handler' = "update" /\ compare' = compare
        /\ UNCHANGED <<now, rollover, list, expiry, cc1, update, starting, lag, deadline, misdated, astray>>
    BY <1>9 DEF TIM2_IRQHandler, histories
  <2>2. PICK s, v : s = Timers /\ v = Timers'
    OBVIOUS
  <2>3. v.list = s.list /\ v.astray = s.astray /\ v.expiry = s.expiry
    BY <2>1, <2>2 DEF Timers
  <2>4. UNCHANGED <<now, Eras, lag>>
    BY <2>1 DEF Eras
  <2>5. CASE cc1
    <3>1. Served(s) => Served(v)
      <4>1. DueOf(v) = DueOf(s) /\ EraOf(v) = EraOf(s) /\ v.list.head = s.list.head
        BY <2>3 DEF DueOf, EraOf
      <4>2. /\ InTime(s) => InTime(v)
            /\ AfterRollover(s) => AfterRollover(v)
        BY <4>1 DEF InTime, AfterRollover
      <4> QED BY <2>3, <4>1, <4>2 DEF Served
    <3>2. Served(v)
      BY <1>2, <2>2, <2>5, <3>1
    <3>3. Served(Timers)'
      BY <2>2, <2>4, <3>2, DueSame
    <3> QED BY <1>1, <2>1, <2>5, <3>3
  <2>6. CASE ~cc1
    <3>1. Timers' = Timers /\ handler' = "update"
      BY <2>1, <2>6 DEF Timers
    <3>2. Awaited(v)
      BY <1>2, <2>1, <2>2, <2>6, <3>1
    <3>3. Awaited(Timers)'
      BY <2>2, <2>4, <3>2, DueSame
    <3> QED BY <1>1, <2>1, <2>6, <3>1, <3>3
  <2> QED BY <2>5, <2>6
<1>10. CASE SetCompare
  <2>1. /\ handler = "fire" /\ handler' = "update" /\ cc1' = FALSE /\ list' = list /\ starting' = starting
    BY <1>10 DEF SetCompare
  <2>2. Served(Timers)
    BY <1>2, <2>1
  <2>3. CASE list.head = Null
    <3>1. Awaited(Timers)'
      BY <2>1, <2>3 DEF Awaited, Timers
    <3> QED BY <1>1, <2>1, <3>1
  <2>4. CASE list.head # Null
    <3>1. Awaited(Timers)'
      BY <1>1, <1>10, <2>2, <2>4, CompareSet
    <3> QED BY <1>1, <2>1, <3>1
  <2> QED BY <2>3, <2>4
<1>11. CASE CountRollover
  <2>1. /\ UNCHANGED <<now, list, expiry, compare, cc1, starting, lag, deadline, misdated, astray>>
        /\ handler = "update" /\ handler' = "out" /\ update' = FALSE
        /\ rollover' = IF update THEN rollover + 1 ELSE rollover
    BY <1>11 DEF CountRollover, histories
  <2>2. UNCHANGED <<now, Eras, lag>>
    BY <1>1, <2>1 DEF Eras
  <2>3. PICK v : v = Timers
    OBVIOUS
  <2>4. Timers' = v
    BY <2>1, <2>3 DEF Timers
  <2>5. (Awaited(v) => Awaited(Timers)') /\ (Served(v) => Served(Timers)')
    BY <2>2, <2>4, DueSame
  <2> QED BY <1>2, <2>1, <2>3, <2>5
<1>12. CASE Tick
  <2>1. starting' = starting
    BY <1>12 DEF Tick
  <2>2. CASE cc1 \/ handler = "fire"
    BY <1>1, <1>2, <1>12, <2>1, <2>2, TickServed
  <2>3. CASE ~(cc1 \/ handler = "fire")
    BY <1>1, <1>2, <1>12, <2>1, <2>3, TickMatches
  <2> QED BY <2>2, <2>3
<1>13. CASE UNCHANGED vars
  <2>1. UNCHANGED <<now, rollover, list, expiry, compare, cc1, update, handler, starting, lag, deadline, misdated, astray>>
    BY <1>13 DEF vars, histories
  <2>2. PICK v : v = Timers
    OBVIOUS
  <2>3. Timers' = v
    BY <2>1, <2>2 DEF Timers
  <2>4. IF cc1' \/ handler' = "fire" THEN Served(Timers)' ELSE Awaited(Timers)'
    BY <1>2, <1>4, <2>1, <2>2, <2>3
  <2> QED BY <1>1, <2>1, <2>4
<1> QED BY <1>5, <1>6, <1>7, <1>8, <1>9, <1>10, <1>11, <1>12, <1>13 DEF Next

LEMMA DueInit == ASSUME Init PROVE DueInv
<1>1. TimeInv
  BY TimeInit
<1>2. list.head = Null /\ starting = NotStarting /\ cc1 = FALSE /\ handler = "out"
  BY DEF Init
<1>3. Awaited(Timers)
  BY <1>2, TimersParts DEF Awaited
<1> QED BY <1>1, <1>2, <1>3 DEF DueInv

LEMMA AlwaysDueInv == Spec => []DueInv
<1>1. Init => DueInv
  BY DueInit
<1>2. ASSUME DueInv, [Next]_vars PROVE DueInv'
  <2>1. TimeInv'
    BY <1>2, TimeNext DEF DueInv
  <2>2. IF cc1' \/ handler' = "fire" THEN Served(Timers)' ELSE Awaited(Timers)'
    BY <1>2, <2>1, DueStep
  <2> QED BY <2>1, <2>2 DEF DueInv
<1> QED BY <1>1, <1>2, PTL DEF Spec

LEMMA DueOnTime == ASSUME DueInv PROVE OnTime
<1>1. ListInv /\ WellTimers(Timers, Pending) /\ now \in Nat /\ lag \in 0 .. Latency
  BY CounterRange DEF DueInv, TimeInv, ListInv
<1> SUFFICES ASSUME ~astray, NEW t \in Running, t \notin misdated
             PROVE  ~(now > deadline[t] + 2 * MinTime + 2 * Latency)
  BY DEF OnTime, Late
<1>2. PICK s : s = Timers
  OBVIOUS
<1>3. /\ WellTimers(s, Pending) /\ t \in TimerIds \ (s.list.free \cup Pending)
      /\ s.deadline = deadline /\ s.misdated = misdated /\ s.astray = astray
  BY <1>1, <1>2, TimersParts, RunningPending
<1>4. s.list.head \in TimerIds /\ DueOf(s) \in Nat /\ Expiry(s.expiry[t]) \in Nat /\ DueOf(s) =< Expiry(s.expiry[t])
  BY <1>3, HeadDue
<1>5. deadline[t] = Expiry(s.expiry[t])
  <2>1. Exact(s, Pending)
    BY <1>3 DEF WellTimers
  <2> QED BY <1>3, <2>1 DEF Exact
<1>6. PICK D : D = DueOf(s)
  OBVIOUS
<1>7. s.list.head # Null
  BY <1>4, Ids
<1>8. now =< D + 2 * MinTime + 2 * Latency
  <2>1. s.astray # TRUE
    BY <1>3
  <2>2. ASSUME InTime(s) PROVE now =< D + 2 * MinTime + 2 * Latency
    BY <1>1, <1>4, <1>6, <2>2, TimerNumbers DEF InTime
  <2>3. ASSUME AfterRollover(s) PROVE now =< D + 2 * MinTime + 2 * Latency
    BY <1>1, <1>4, <1>6, <2>3, TimerNumbers DEF AfterRollover
  <2>4. ASSUME Soon(s) PROVE now =< D + 2 * MinTime + 2 * Latency
    BY <1>1, <1>4, <1>6, <2>4, TimerNumbers DEF Soon
  <2>5. ASSUME Rolls(s) PROVE now =< D + 2 * MinTime + 2 * Latency
    <3>1. PICK n : n = (EraOf(s) + 1) * Modulus + s.compare.at
      OBVIOUS
    <3>2. n \in Nat
      <4>1. EraOf(s) + 1 \in Nat
        BY <1>3, HeadDue
      <4>2. s.compare.at \in Nat
        BY <1>3, TimerNumbers DEF WellTimers, Compares
      <4>3. (EraOf(s) + 1) * Modulus \in Nat
        BY <4>1, TimerNumbers, EraLength
      <4> QED BY <3>1, <4>2, <4>3
    <3>3. now < n /\ n =< D + 2 * MinTime + Latency
      BY <1>6, <2>5, <3>1 DEF Rolls
    <3> QED BY <1>1, <1>4, <1>6, <3>2, <3>3, TimerNumbers
  <2>6. Served(s) \/ Awaited(s)
    BY <1>2 DEF DueInv
  <2> QED BY <1>7, <2>1, <2>2, <2>3, <2>4, <2>5, <2>6, Zenon DEF Served, Awaited
<1> QED BY <1>1, <1>4, <1>5, <1>6, <1>8, TimerNumbers

\* Theorem: while the compare register is not astray, no running timer whose start was not misdated
\* is overdue by more than two minimum intervals and the latency, in every era of the counter:
\* whatever starts, cancels and callbacks do to the head of the list, and wherever the interrupt
\* strikes, the register holds a value that the counter reaches in time (soft_timer.c:219-252). So
\* a timer is late only by one of the causes that set `astray': a head that was misdated or whose
\* start was overtaken by its own time, and an overdue head with a rollover not yet counted or
\* compared with the era of the first timer (soft_timer.c:232).
THEOREM TimersAlwaysOnTime == Spec => []OnTime
<1>1. DueInv => OnTime
  BY DueOnTime
<1> QED BY <1>1, AlwaysDueInv, PTL
=============================================================================
