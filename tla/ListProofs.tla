----------------------------- MODULE ListProofs -----------------------------
(***************************************************************************)
(* What the operators on lists do, for every list: Keep and SelectAt, the  *)
(* FlattenSeq of the community modules, Totals and Sum; by induction on    *)
(* the length, from a recursion that is shown to have a solution.          *)
(***************************************************************************)
EXTENDS Lists, FiniteSetTheorems, SequenceTheorems, WellFoundedInduction, TLAPS

-----------------------------------------------------------------------------
(* A set of natural numbers has a least element.                           *)
LEMMA Least ==
  ASSUME NEW T \in SUBSET Nat, T # {}
  PROVE  \E n \in T : \A m \in T : n <= m
<1> DEFINE Below == {p \in Nat \X Nat : p[1] < p[2]}
<1>1. IsWellFoundedOn(Below, Nat)
  BY NatLessThanWellFounded DEF OpToRel
<1> HIDE DEF Below
<1>2. PICK n \in T : \A m \in T : <<m, n>> \notin Below
  BY <1>1, WFMin
<1>3. ASSUME NEW m \in T PROVE n <= m
  <2>1. m \in Nat /\ n \in Nat
    OBVIOUS
  <2>2. ~ m < n
    BY <1>2, <2>1 DEF Below
  <2> QED
    BY <2>1, <2>2
<1> QED
  BY <1>3

(* Induction up to a bound, over a set in place of a predicate.            *)
LEMMA Induction ==
  ASSUME NEW N \in Nat, NEW S, 0 \in S, \A i \in 1..N : i - 1 \in S => i \in S
  PROVE  \A i \in 0..N : i \in S
<1> SUFFICES ASSUME NEW j \in 0..N, j \notin S PROVE FALSE
  OBVIOUS
<1> DEFINE T == {i \in 0..N : i \notin S}
<1>1. PICK n \in T : \A m \in T : n <= m
  <2>1. T # {} /\ T \in SUBSET Nat
    OBVIOUS
  <2> HIDE DEF T
  <2> QED
    BY <2>1, Least
<1>2. n \in 1..N
  OBVIOUS
<1>3. n - 1 \in 0..N /\ ~ n <= n - 1
  BY <1>2
<1>4. n - 1 \in S
  BY <1>1, <1>3
<1> QED
  BY <1>2, <1>4

(* A function on 0..N is defined by its first value and a step.            *)
Steps(V, N) == [1..N -> [V -> V]]
Iterates(f, V, first, N, step) ==
  /\ f \in [0..N -> V]
  /\ f[0] = first /\ \A i \in 1..N : f[i] = step[i][f[i - 1]]

(* Such a function exists, whatever the step is.                           *)
LEMMA Recursion ==
  ASSUME NEW V, NEW first \in V, NEW N \in Nat, NEW step \in Steps(V, N)
  PROVE  \E f : Iterates(f, V, first, N, step)
<1> USE DEF Steps
<1> DEFINE Upto(m, f) == f[0] = first /\ \A i \in 1..m : f[i] = step[i][f[i - 1]]
           S == {m \in 0..N : \E f \in [0..m -> V] : Upto(m, f)}
<1>1. 0 \in S
  <2> DEFINE g == [i \in 0..0 |-> first]
  <2>1. g \in [0..0 -> V] /\ Upto(0, g)
    OBVIOUS
  <2> HIDE DEF g, Upto
  <2> QED
    BY <2>1
<1>2. ASSUME NEW m \in 1..N, m - 1 \in S PROVE m \in S
  <2>1. PICK f \in [0..m - 1 -> V] : Upto(m - 1, f)
    BY <1>2
  <2> DEFINE g == [i \in 0..m |-> IF i = m THEN step[m][f[m - 1]] ELSE f[i]]
  <2>2. step[m][f[m - 1]] \in V
    OBVIOUS
  <2>3. g \in [0..m -> V]
    BY <2>2
  <2>4. /\ \A i \in 0..m - 1 : g[i] = f[i]
        /\ g[m] = step[m][f[m - 1]]
    OBVIOUS
  <2> HIDE DEF g
  <2>5. ASSUME NEW i \in 1..m PROVE g[i] = step[i][g[i - 1]]
    <3>1. i - 1 \in 0..m - 1 /\ g[i - 1] = f[i - 1]
      BY <2>4
    <3>2. CASE i = m
      BY <2>4, <3>1, <3>2
    <3>3. CASE i # m
      BY <2>1, <2>4, <3>1, <3>3
    <3> QED
      BY <3>2, <3>3
  <2>6. Upto(m, g)
    BY <2>1, <2>4, <2>5
  <2> HIDE DEF Upto
  <2> QED
    BY <2>3, <2>6
<1> HIDE DEF S
<1>3. N \in S
  <2>1. \A m \in 0..N : m \in S
    BY <1>1, <1>2, Induction
  <2> QED
    BY <2>1
<1> QED
  BY <1>3 DEF S, Iterates

-----------------------------------------------------------------------------
(* Keep, list by list: one more element at a time.                         *)
Kept(f, C, s, S) ==
  /\ f[0] = <<>> /\ Keep(s, S) = f[Len(s)]
  /\ \A i \in 0..Len(s) : f[i] \in Seq(C)
  /\ \A i \in 1..Len(s) : f[i] = IF s[i] \in S THEN Append(f[i - 1], s[i]) ELSE f[i - 1]

(* Keep goes through its list one element at a time.                       *)
LEMMA KeepUnfolds ==
  ASSUME NEW C, NEW s \in Seq(C), NEW S
  PROVE  \E f : Kept(f, C, s, S)
<1> DEFINE Lists == Seq(C)
           n == Len(s)
           adds == [i \in 1..n |-> [t \in Lists |-> IF s[i] \in S THEN Append(t, s[i]) ELSE t]]
           Eq(f) == f = [i \in 0..n |->
                      IF i = 0 THEN <<>>
                      ELSE IF s[i] \in S THEN Append(f[i - 1], s[i]) ELSE f[i - 1]]
<1>1. n \in Nat /\ \A i \in 1..n : s[i] \in C
  BY LenProperties, ElementOfSeq
<1>2. <<>> \in Lists /\ \A t \in Lists, i \in 1..n : Append(t, s[i]) \in Lists
  BY <1>1, EmptySeq, AppendProperties
<1>3. adds \in Steps(Lists, n)
  BY <1>2 DEF Steps
<1>4. \A t \in Lists, i \in 1..n : adds[i][t] = IF s[i] \in S THEN Append(t, s[i]) ELSE t
  OBVIOUS
<1>5. Keep(s, S) = (CHOOSE h : Eq(h))[n]
  BY DEF Keep
<1> HIDE DEF Lists, n, adds
<1>6. PICK f \in [0..n -> Lists] :
        f[0] = <<>> /\ \A i \in 1..n : f[i] = adds[i][f[i - 1]]
  <2>1. PICK f : Iterates(f, Lists, <<>>, n, adds)
    BY <1>1, <1>2, <1>3, Recursion
  <2> QED
    BY <2>1 DEF Iterates
<1>7. ASSUME NEW i \in 0..n
      PROVE  f[i] = IF i = 0 THEN <<>>
                    ELSE IF s[i] \in S THEN Append(f[i - 1], s[i]) ELSE f[i - 1]
  <2>1. CASE i = 0
    BY <1>6, <2>1
  <2>2. CASE i # 0
    <3>1. i - 1 \in 0..n /\ i \in 1..n
      BY <1>1, <2>2
    <3> QED
      BY <1>4, <1>6, <2>2, <3>1
  <2> QED
    BY <2>1, <2>2
<1>8. Eq(f)
  BY <1>7
<1>9. PICK g : Eq(g) /\ Keep(s, S) = g[n]
  BY <1>5, <1>8
<1>10. g[0] = <<>>
  BY <1>1, <1>9
<1>11. ASSUME NEW i \in 1..n
       PROVE  g[i] = IF s[i] \in S THEN Append(g[i - 1], s[i]) ELSE g[i - 1]
  <2>1. i \in 0..n /\ i # 0
    BY <1>1
  <2> QED
    BY <1>9, <2>1, Zenon
<1>12. \A i \in 0..n : g[i] \in Lists
  <2> DEFINE T == {i \in 0..n : g[i] \in Lists}
  <2>1. 0 \in T
    BY <1>1, <1>2, <1>10
  <2>2. ASSUME NEW i \in 1..n, i - 1 \in T PROVE i \in T
    <3>1. g[i - 1] \in Lists /\ i \in 0..n
      BY <1>1, <2>2
    <3>2. Append(g[i - 1], s[i]) \in Lists
      BY <1>2, <3>1
    <3> QED
      BY <1>11, <3>1, <3>2
  <2> HIDE DEF T
  <2>3. \A i \in 0..n : i \in T
    BY <1>1, <2>1, <2>2, Induction
  <2> QED
    BY <2>3 DEF T
<1> QED
  BY <1>9, <1>10, <1>11, <1>12 DEF Lists, n, Kept

(* The places of the first n elements that are in S, in their order.       *)
Picks(e, m, n, s, S) ==
  /\ e \in [1..m -> 1..n]
  /\ \A i, j \in 1..m : i < j => e[i] < e[j]
  /\ \A i \in 1..n : s[i] \in S <=> \E j \in 1..m : e[j] = i

(* One more element, in S or not.                                          *)
LEMMA PicksOne ==
  ASSUME NEW m \in Nat, NEW n \in Nat, NEW s, NEW S, NEW e, Picks(e, m, n, s, S), s[n + 1] \in S
  PROVE  Picks([j \in 1..m + 1 |-> IF j = m + 1 THEN n + 1 ELSE e[j]], m + 1, n + 1, s, S)
<1> DEFINE g == [j \in 1..m + 1 |-> IF j = m + 1 THEN n + 1 ELSE e[j]]
<1>1. /\ \A j \in 1..m : e[j] \in 1..n
      /\ \A i, j \in 1..m : i < j => e[i] < e[j]
      /\ \A i \in 1..n : s[i] \in S <=> \E j \in 1..m : e[j] = i
  BY DEF Picks
<1>2. g[m + 1] = n + 1 /\ \A j \in 1..m : g[j] = e[j]
  OBVIOUS
<1>3. g \in [1..m + 1 -> 1..n + 1]
  <2>1. ASSUME NEW j \in 1..m + 1 PROVE (IF j = m + 1 THEN n + 1 ELSE e[j]) \in 1..n + 1
    <3>1. CASE j = m + 1
      BY <3>1
    <3>2. CASE j # m + 1
      <4>1. j \in 1..m
        BY <3>2
      <4> QED
        BY <1>1, <3>2, <4>1
    <3> QED
      BY <3>1, <3>2
  <2> QED
    BY <2>1
<1> HIDE DEF g
<1>4. ASSUME NEW i \in 1..m + 1, NEW j \in 1..m + 1, i < j PROVE g[i] < g[j]
  <2>1. i \in 1..m
    BY <1>4
  <2>2. CASE j = m + 1
    BY <1>1, <1>2, <2>1, <2>2
  <2>3. CASE j # m + 1
    <3>1. j \in 1..m
      BY <2>3
    <3> QED
      BY <1>1, <1>2, <1>4, <2>1, <3>1
  <2> QED
    BY <2>2, <2>3
<1>5. ASSUME NEW i \in 1..n + 1 PROVE s[i] \in S <=> \E j \in 1..m + 1 : g[j] = i
  <2>1. CASE i = n + 1
    BY <1>2, <2>1
  <2>2. CASE i # n + 1
    <3>1. i \in 1..n
      BY <2>2
    <3>2. (\E j \in 1..m : e[j] = i) => \E j \in 1..m + 1 : g[j] = i
      BY <1>2
    <3>3. ASSUME NEW j \in 1..m + 1, g[j] = i PROVE \E k \in 1..m : e[k] = i
      <4>1. j \in 1..m
        BY <1>2, <2>2, <3>3
      <4> QED
        BY <1>2, <3>3, <4>1
    <3> QED
      BY <1>1, <3>1, <3>2, <3>3
  <2> QED
    BY <2>1, <2>2
<1> QED
  BY <1>3, <1>4, <1>5 DEF Picks, g

(* One element less to look at: the next one is not in S.                  *)
LEMMA PicksNone ==
  ASSUME NEW m \in Nat, NEW n \in Nat, NEW s, NEW S, NEW e, Picks(e, m, n, s, S), s[n + 1] \notin S
  PROVE  Picks(e, m, n + 1, s, S)
<1>1. /\ e \in [1..m -> 1..n]
      /\ \A i, j \in 1..m : i < j => e[i] < e[j]
      /\ \A i \in 1..n : s[i] \in S <=> \E j \in 1..m : e[j] = i
  BY DEF Picks
<1>2. e \in [1..m -> 1..n + 1]
  BY <1>1
<1>3. ASSUME NEW i \in 1..n + 1 PROVE s[i] \in S <=> \E j \in 1..m : e[j] = i
  <2>1. CASE i = n + 1
    BY <1>1, <2>1
  <2>2. CASE i # n + 1
    <3>1. i \in 1..n
      BY <2>2
    <3> QED
      BY <1>1, <3>1
  <2> QED
    BY <2>1, <2>2
<1> QED
  BY <1>1, <1>2, <1>3 DEF Picks

(* What Keep leaves of a list: elements of it, in its order, all that are  *)
(* in S.                                                                   *)
LEMMA KeepPicks ==
  ASSUME NEW C, NEW s \in Seq(C), NEW S
  PROVE  /\ Keep(s, S) \in Seq(C) /\ Len(Keep(s, S)) <= Len(s)
         /\ \E e : /\ Picks(e, Len(Keep(s, S)), Len(s), s, S)
                   /\ \A j \in 1..Len(Keep(s, S)) : Keep(s, S)[j] = s[e[j]]
<1>1. PICK f : Kept(f, C, s, S)
  BY KeepUnfolds
<1>2. PICK n \in Nat : n = Len(s)
  BY LenProperties
<1>3. \A i \in 1..n : s[i] \in C
  BY <1>2, ElementOfSeq
<1> DEFINE T == {i \in 0..n : /\ Len(f[i]) <= i
                              /\ \E e : /\ Picks(e, Len(f[i]), i, s, S)
                                        /\ \A j \in 1..Len(f[i]) : f[i][j] = s[e[j]]}
<1>4. 0 \in T
  <2>1. Len(f[0]) = 0
    BY <1>1 DEF Kept
  <2>2. Picks([j \in 1..0 |-> j], 0, 0, s, S)
    BY DEF Picks
  <2> QED
    BY <2>1, <2>2
<1>5. ASSUME NEW i \in 1..n, i - 1 \in T PROVE i \in T
  <2>1. PICK t \in Seq(C) : t = f[i - 1]
    BY <1>1, <1>2 DEF Kept
  <2>2. PICK m \in Nat : m = Len(t)
    BY LenProperties
  <2>3. m <= i - 1
    BY <1>5, <2>1, <2>2
  <2>4. PICK e : Picks(e, m, i - 1, s, S) /\ \A j \in 1..m : t[j] = s[e[j]]
    BY <1>5, <2>1, <2>2
  <2>5. i - 1 \in Nat /\ (i - 1) + 1 = i
    OBVIOUS
  <2>6. CASE s[i] \in S
    <3>1. f[i] = Append(t, s[i])
      BY <1>1, <1>2, <2>1, <2>6 DEF Kept
    <3>2. /\ Len(f[i]) = m + 1 /\ f[i][m + 1] = s[i]
          /\ \A j \in 1..m : f[i][j] = t[j]
      BY <1>3, <2>2, <3>1, AppendProperties
    <3> DEFINE g == [j \in 1..m + 1 |-> IF j = m + 1 THEN i ELSE e[j]]
    <3>3. Picks(g, m + 1, i, s, S)
      BY <2>4, <2>5, <2>6, PicksOne
    <3>4. g[m + 1] = i /\ \A j \in 1..m : g[j] = e[j]
      OBVIOUS
    <3> HIDE DEF g
    <3>5. ASSUME NEW j \in 1..m + 1 PROVE f[i][j] = s[g[j]]
      <4>1. j = m + 1 \/ j \in 1..m
        OBVIOUS
      <4> QED
        BY <2>4, <3>2, <3>4, <4>1
    <3> QED
      BY <2>3, <3>2, <3>3, <3>5
  <2>7. CASE s[i] \notin S
    <3>1. f[i] = t
      BY <1>1, <1>2, <2>1, <2>7 DEF Kept
    <3>2. Picks(e, m, i, s, S)
      BY <2>4, <2>5, <2>7, PicksNone
    <3> QED
      BY <2>2, <2>3, <2>4, <3>1, <3>2
  <2> QED
    BY <2>6, <2>7
<1> HIDE DEF T
<1>6. \A i \in 0..n : i \in T
  BY <1>4, <1>5, Induction
<1>7. n \in T
  BY <1>6
<1>8. PICK k \in Seq(C) : k = f[n] /\ k = Keep(s, S)
  BY <1>1, <1>2 DEF Kept
<1>9. Len(k) <= n /\ \E e : Picks(e, Len(k), n, s, S) /\ \A j \in 1..Len(k) : k[j] = s[e[j]]
  BY <1>7, <1>8 DEF T
<1> QED
  BY <1>2, <1>8, <1>9

(* Those places are the only ones.                                         *)
LEMMA PicksWithin ==
  ASSUME NEW m \in Nat, NEW k \in Nat, NEW n, NEW s, NEW S, NEW e, NEW g,
         Picks(e, m, n, s, S), Picks(g, k, n, s, S)
  PROVE  \A j \in 1..m : j <= k /\ e[j] = g[j]
<1> DEFINE T == {j \in 1..m : ~(j <= k /\ e[j] = g[j])}
<1> SUFFICES ASSUME T # {} PROVE FALSE
  OBVIOUS
<1>1. PICK j \in T : \A i \in T : j <= i
  <2>1. T \in SUBSET Nat
    OBVIOUS
  <2> HIDE DEF T
  <2> QED
    BY <2>1, Least
<1>2. j \in 1..m /\ ~(j <= k /\ e[j] = g[j]) /\ \A i \in 1..m : i < j => i <= k /\ e[i] = g[i]
  BY <1>1
<1> HIDE DEF T
<1>3. /\ \A i \in 1..m : e[i] \in 1..n
      /\ \A i \in 1..k : g[i] \in 1..n
      /\ \A x, y \in 1..m : x < y => e[x] < e[y]
      /\ \A x, y \in 1..k : x < y => g[x] < g[y]
      /\ \A i \in 1..m : \E l \in 1..k : g[l] = e[i]
      /\ \A i \in 1..k : \E l \in 1..m : e[l] = g[i]
  BY DEF Picks
<1>4. PICK i \in 1..k : g[i] = e[j]
  BY <1>2, <1>3
<1>5. ASSUME i < j PROVE FALSE
  <2>1. i \in 1..m /\ e[i] = g[i] /\ e[i] < e[j]
    BY <1>2, <1>3, <1>5
  <2>2. e[j] \in Int
    BY <1>2, <1>3
  <2> QED
    BY <1>4, <2>1, <2>2
<1>6. ASSUME j < i PROVE FALSE
  <2>1. j \in 1..k /\ g[j] < e[j]
    BY <1>2, <1>3, <1>4, <1>6
  <2>2. PICK l \in 1..m : e[l] = g[j]
    BY <1>3, <2>1
  <2>3. e[l] \in Int /\ e[j] \in Int
    BY <1>2, <1>3
  <2>4. l < j
    BY <1>2, <1>3, <2>1, <2>2, <2>3
  <2>5. l \in 1..k /\ g[l] = g[j] /\ g[l] < g[j]
    BY <1>2, <1>3, <2>1, <2>2, <2>4
  <2> QED
    BY <2>2, <2>3, <2>5
<1> QED
  BY <1>2, <1>4, <1>5, <1>6

(* So whoever names those places knows what is left.                       *)
LEMMA KeepIs ==
  ASSUME NEW C, NEW s \in Seq(C), NEW S, NEW m \in Nat, NEW e, Picks(e, m, Len(s), s, S)
  PROVE  Len(Keep(s, S)) = m /\ \A j \in 1..m : Keep(s, S)[j] = s[e[j]]
<1>1. PICK k \in Seq(C) : k = Keep(s, S)
  BY KeepPicks
<1>2. PICK n \in Nat : n = Len(k)
  BY LenProperties
<1>3. PICK g : Picks(g, n, Len(s), s, S) /\ \A j \in 1..n : k[j] = s[g[j]]
  BY <1>1, <1>2, KeepPicks
<1>4. \A j \in 1..m : j <= n /\ e[j] = g[j]
  BY <1>3, PicksWithin
<1>5. \A j \in 1..n : j <= m /\ g[j] = e[j]
  BY <1>3, PicksWithin
<1>6. m = n
  BY <1>4, <1>5
<1> QED
  BY <1>1, <1>2, <1>3, <1>4, <1>6

(* Keep loses no member of S, finds no other and repeats nothing.          *)
LEMMA KeepFacts ==
  ASSUME NEW C, NEW s \in Seq(C), NEW S
  PROVE  /\ Range(Keep(s, S)) = Range(s) \cap S
         /\ IsInjective(s) => IsInjective(Keep(s, S))
<1>1. PICK k \in Seq(C) : k = Keep(s, S)
  BY KeepPicks
<1>2. PICK n \in Nat : n = Len(k)
  BY LenProperties
<1>3. PICK l \in Nat : l = Len(s)
  BY LenProperties
<1>4. PICK e : Picks(e, n, l, s, S) /\ \A j \in 1..n : k[j] = s[e[j]]
  BY <1>1, <1>2, <1>3, KeepPicks
<1>5. /\ \A i \in 1..n : e[i] \in 1..l
      /\ \A i, j \in 1..n : i < j => e[i] < e[j]
      /\ \A i \in 1..l : s[i] \in S <=> \E j \in 1..n : e[j] = i
  BY <1>4 DEF Picks
<1>6. DOMAIN k = 1..n /\ DOMAIN s = 1..l
  BY <1>2, <1>3, LenProperties
<1>7. Range(k) = Range(s) \cap S
  <2>1. ASSUME NEW j \in 1..n PROVE k[j] \in Range(s) \cap S
    <3>1. e[j] \in 1..l /\ s[e[j]] \in S
      BY <1>5
    <3> QED
      BY <1>4, <1>6, <3>1 DEF Range
  <2>2. ASSUME NEW i \in 1..l, s[i] \in S PROVE s[i] \in Range(k)
    <3>1. PICK j \in 1..n : e[j] = i
      BY <1>5, <2>2
    <3> QED
      BY <1>4, <1>6, <3>1 DEF Range
  <2> QED
    BY <1>6, <2>1, <2>2 DEF Range
<1>8. ASSUME IsInjective(s), NEW i \in 1..n, NEW j \in 1..n, k[i] = k[j] PROVE i = j
  <2>1. e[i] \in 1..l /\ e[j] \in 1..l /\ s[e[i]] = s[e[j]]
    BY <1>4, <1>5, <1>8
  <2>2. e[i] = e[j]
    BY <1>6, <1>8, <2>1 DEF IsInjective
  <2> QED
    BY <1>5, <2>1, <2>2
<1> QED
  BY <1>1, <1>6, <1>7, <1>8 DEF IsInjective

-----------------------------------------------------------------------------
(* FlattenSeq, one list more at a time.                                    *)
Flat(f, C, n, ss) ==
  /\ f[0] = <<>> /\ FlattenSeq(ss) = f[n]
  /\ \A i \in 0..n : f[i] \in Seq(C)
  /\ \A i \in 1..n : f[i] = f[i - 1] \o ss[i]

(* FlattenSeq, from its recursive definition.                              *)
LEMMA FlattenUnfolds ==
  ASSUME NEW C, NEW n \in Nat \ {0}, NEW ss \in [1..n -> Seq(C)]
  PROVE  \E f : Flat(f, C, n, ss)
<1> DEFINE Lists == Seq(C)
           joins == [i \in 1..n |-> [t \in Lists |-> t \o ss[i]]]
           Eq(h) == h = [i \in 1..n |-> IF i = 1 THEN ss[i] ELSE h[i - 1] \o ss[i]]
<1>1. ss \in Seq(Lists) /\ Len(ss) = n
  OBVIOUS
<1>2. <<>> \in Lists /\ \A i \in 1..n : ss[i] \in Lists
  BY EmptySeq
<1>3. \A t, u \in Lists : t \o u \in Lists
  BY ConcatProperties
<1>4. \A t \in Lists : <<>> \o t = t
  BY ConcatEmptySeq
<1>5. joins \in Steps(Lists, n)
  BY <1>2, <1>3 DEF Steps
<1>6. \A t \in Lists, i \in 1..n : joins[i][t] = t \o ss[i]
  OBVIOUS
<1>7. FlattenSeq(ss) = (CHOOSE h : Eq(h))[n]
  BY <1>1, Zenon DEF FlattenSeq
<1> HIDE DEF Lists, joins
<1>8. PICK f : Iterates(f, Lists, <<>>, n, joins)
  BY <1>2, <1>5, Recursion
<1>9. /\ f[0] = <<>> /\ \A i \in 0..n : f[i] \in Lists
      /\ \A i \in 1..n : f[i] = f[i - 1] \o ss[i]
  <2>1. f \in [0..n -> Lists] /\ f[0] = <<>> /\ \A i \in 1..n : f[i] = joins[i][f[i - 1]]
    BY <1>8 DEF Iterates
  <2>2. \A i \in 1..n : i - 1 \in 0..n
    OBVIOUS
  <2> QED
    BY <1>6, <2>1, <2>2
<1>15. f[1] = ss[1]
  <2>1. 1 \in 1..n /\ 1 - 1 = 0
    OBVIOUS
  <2>2. f[1] = f[1 - 1] \o ss[1]
    BY <1>9, <2>1
  <2>3. f[1] = <<>> \o ss[1]
    BY <1>9, <2>1, <2>2
  <2> QED
    BY <1>2, <1>4, <2>1, <2>3
<1> DEFINE g == [i \in 1..n |-> f[i]]
<1>10. Eq(g)
  <2>1. ASSUME NEW i \in 1..n PROVE f[i] = IF i = 1 THEN ss[i] ELSE g[i - 1] \o ss[i]
    <3>1. CASE i = 1
      BY <1>15, <3>1
    <3>2. CASE i # 1
      <4>1. i - 1 \in 1..n
        BY <3>2
      <4>2. g[i - 1] = f[i - 1]
        BY <4>1
      <4> QED
        BY <1>9, <3>2, <4>2
    <3> QED
      BY <3>1, <3>2
  <2> QED
    BY <2>1
<1>11. PICK h : Eq(h) /\ FlattenSeq(ss) = h[n]
  BY <1>7, <1>10
<1>12. /\ h[1] = ss[1]
       /\ \A i \in 2..n : h[i] = h[i - 1] \o ss[i]
  <2>1. ASSUME NEW i \in 1..n PROVE h[i] = IF i = 1 THEN ss[i] ELSE h[i - 1] \o ss[i]
    BY <1>11, Zenon
  <2>2. 1 \in 1..n
    OBVIOUS
  <2>3. \A i \in 2..n : i \in 1..n /\ i # 1
    OBVIOUS
  <2> QED
    BY <2>1, <2>2, <2>3, Zenon
<1>13. \A i \in 0..n : i = 0 \/ h[i] = f[i]
  <2> DEFINE T == {i \in 0..n : i = 0 \/ h[i] = f[i]}
  <2>1. ASSUME NEW i \in 1..n, i - 1 \in T PROVE i \in T
    <3>1. CASE i = 1
      BY <1>12, <1>15, <3>1
    <3>2. CASE i # 1
      <4>1. i \in 2..n /\ h[i - 1] = f[i - 1]
        BY <2>1, <3>2
      <4>2. h[i] = h[i - 1] \o ss[i] /\ f[i] = f[i - 1] \o ss[i]
        BY <1>9, <1>12, <4>1
      <4>3. h[i] = f[i]
        BY <4>1, <4>2, Zenon
      <4> QED
        BY <4>3
    <3> QED
      BY <3>1, <3>2
  <2>2. 0 \in T
    OBVIOUS
  <2> HIDE DEF T
  <2>3. \A i \in 0..n : i \in T
    BY <2>1, <2>2, Induction
  <2> QED
    BY <2>3 DEF T
<1>14. h[n] = f[n]
  BY <1>13
<1> QED
  BY <1>9, <1>11, <1>14 DEF Flat, Lists

(* Where FlattenSeq puts every list: the k-th begins behind place at[k].   *)
Laid(at, n, ss, r) ==
  /\ at \in [1..n + 1 -> Nat] /\ at[1] = 0 /\ at[n + 1] = Len(r)
  /\ \A k \in 1..n : at[k + 1] = at[k] + Len(ss[k])
  /\ \A k, l \in 1..n + 1 : k <= l => at[k] <= at[l]
  /\ \A k \in 1..n : \A j \in 1..Len(ss[k]) : r[at[k] + j] = ss[k][j]
  /\ \A p \in 1..Len(r) : \E k \in 1..n : \E j \in 1..Len(ss[k]) : p = at[k] + j

(* Every list has its own stretch of the flattened one.                    *)
LEMMA FlattenLays ==
  ASSUME NEW C, NEW n \in Nat \ {0}, NEW ss \in [1..n -> Seq(C)]
  PROVE  FlattenSeq(ss) \in Seq(C) /\ \E at : Laid(at, n, ss, FlattenSeq(ss))
<1>1. PICK f : Flat(f, C, n, ss)
  BY FlattenUnfolds
<1>2. /\ f[0] = <<>> /\ FlattenSeq(ss) = f[n]
      /\ \A i \in 0..n : f[i] \in Seq(C)
      /\ \A i \in 1..n : f[i] = f[i - 1] \o ss[i]
  BY <1>1 DEF Flat
<1>3. \A i \in 0..n : Len(f[i]) \in Nat
  BY <1>2, LenProperties
<1>4. \A i \in 1..n : ss[i] \in Seq(C) /\ Len(ss[i]) \in Nat
  BY LenProperties
<1> DEFINE at == [k \in 1..n + 1 |-> Len(f[k - 1])]
<1>5. \A k \in 1..n + 1 : at[k] = Len(f[k - 1]) /\ k - 1 \in 0..n
  OBVIOUS
<1>6. at \in [1..n + 1 -> Nat]
  BY <1>3
<1> HIDE DEF at
<1>7. ASSUME NEW k \in 1..n
      PROVE  /\ at[k] = Len(f[k - 1]) /\ at[k + 1] = Len(f[k])
             /\ at[k] \in Nat /\ at[k + 1] = at[k] + Len(ss[k])
             /\ \A p \in 1..at[k] : f[k][p] = f[k - 1][p]
             /\ \A j \in 1..Len(ss[k]) : f[k][at[k] + j] = ss[k][j]
  <2>1. k \in 1..n + 1 /\ k + 1 \in 1..n + 1 /\ (k + 1) - 1 = k /\ k - 1 \in 0..n
    OBVIOUS
  <2>2. at[k] = Len(f[k - 1]) /\ at[k + 1] = Len(f[k]) /\ at[k] \in Nat
    BY <1>3, <1>5, <2>1
  <2>3. PICK t \in Seq(C) : t = f[k - 1]
    BY <1>2, <2>1
  <2>4. PICK u \in Seq(C) : u = ss[k]
    BY <1>4
  <2>5. f[k] = t \o u
    BY <1>2, <2>3, <2>4
  <2>6. PICK a \in Nat : a = Len(t)
    BY LenProperties
  <2>7. PICK b \in Nat : b = Len(u)
    BY LenProperties
  <2>8. /\ Len(f[k]) = a + b
        /\ \A p \in 1..a + b : f[k][p] = IF p <= a THEN t[p] ELSE u[p - a]
    BY <2>5, <2>6, <2>7, ConcatProperties
  <2>9. ASSUME NEW p \in 1..a PROVE f[k][p] = t[p]
    <3>1. p \in 1..a + b /\ p <= a
      OBVIOUS
    <3> QED
      BY <2>8, <3>1
  <2>10. ASSUME NEW j \in 1..b PROVE f[k][a + j] = u[j]
    <3>1. a + j \in 1..a + b /\ ~ a + j <= a /\ (a + j) - a = j
      OBVIOUS
    <3> QED
      BY <2>8, <3>1
  <2> QED
    BY <2>2, <2>3, <2>4, <2>6, <2>7, <2>8, <2>9, <2>10
<1>8. at[1] = 0
  BY <1>2, <1>5
<1>9. \A k, l \in 1..n + 1 : k <= l => at[k] <= at[l]
  <2> SUFFICES ASSUME NEW k \in 1..n + 1 PROVE \A l \in 1..n + 1 : k <= l => at[k] <= at[l]
    OBVIOUS
  <2> DEFINE T == {i \in 0..n + 1 : k <= i => at[k] <= at[i]}
  <2>1. 0 \in T
    OBVIOUS
  <2>2. ASSUME NEW i \in 1..n + 1, i - 1 \in T PROVE i \in T
    <3>1. CASE i <= k
      BY <1>6, <3>1
    <3>2. CASE k < i
      <4>1. i - 1 \in 1..n /\ (i - 1) + 1 = i /\ k <= i - 1
        BY <3>2
      <4>2. at[i] = at[i - 1] + Len(ss[i - 1]) /\ at[k] <= at[i - 1]
        BY <1>7, <2>2, <4>1
      <4> QED
        BY <1>4, <1>6, <4>1, <4>2
    <3> QED
      BY <3>1, <3>2
  <2> HIDE DEF T
  <2>3. \A i \in 0..n + 1 : i \in T
    <3>1. PICK m \in Nat : m = n + 1
      OBVIOUS
    <3> QED
      BY <2>1, <2>2, <3>1, Induction
  <2> QED
    BY <2>3 DEF T
<1> DEFINE Placed(i) ==
             /\ \A k \in 1..i : \A j \in 1..Len(ss[k]) : f[i][at[k] + j] = ss[k][j]
             /\ \A p \in 1..Len(f[i]) : \E k \in 1..i : \E j \in 1..Len(ss[k]) : p = at[k] + j
           T == {i \in 0..n : Placed(i)}
<1>10. 0 \in T
  <2>1. Len(f[0]) = 0
    BY <1>2
  <2> QED
    BY <2>1
<1>11. ASSUME NEW i \in 1..n, i - 1 \in T PROVE i \in T
  <2>1. Placed(i - 1)
    BY <1>11
  <2>2. PICK a \in Nat : a = at[i]
    BY <1>7
  <2>3. PICK b \in Nat : b = Len(ss[i])
    BY <1>4
  <2>4. /\ Len(f[i - 1]) = a /\ Len(f[i]) = a + b
        /\ \A p \in 1..a : f[i][p] = f[i - 1][p]
        /\ \A j \in 1..b : f[i][a + j] = ss[i][j]
    BY <1>7, <2>2, <2>3
  <2>5. ASSUME NEW k \in 1..i, NEW j \in 1..Len(ss[k]) PROVE f[i][at[k] + j] = ss[k][j]
    <3>1. CASE k = i
      BY <2>2, <2>3, <2>4, <3>1
    <3>2. CASE k # i
      <4>1. k \in 1..i - 1 /\ k \in 1..n /\ k + 1 \in 1..n + 1 /\ i \in 1..n + 1 /\ k + 1 <= i
        BY <3>2
      <4>2. f[i - 1][at[k] + j] = ss[k][j]
        BY <2>1, <4>1
      <4>3. at[k + 1] = at[k] + Len(ss[k]) /\ at[k] \in Nat /\ at[k + 1] <= a /\ Len(ss[k]) \in Nat
        BY <1>4, <1>7, <1>9, <2>2, <4>1
      <4>4. at[k] + j \in 1..a
        BY <4>3
      <4> QED
        BY <2>4, <4>2, <4>4
    <3> QED
      BY <3>1, <3>2
  <2>6. ASSUME NEW p \in 1..Len(f[i])
        PROVE  \E k \in 1..i : \E j \in 1..Len(ss[k]) : p = at[k] + j
    <3>1. CASE p <= a
      <4>1. p \in 1..Len(f[i - 1])
        BY <2>4, <3>1
      <4>2. PICK k \in 1..i - 1 : \E j \in 1..Len(ss[k]) : p = at[k] + j
        BY <2>1, <4>1
      <4> QED
        BY <4>2
    <3>2. CASE p > a
      <4>1. p - a \in 1..Len(ss[i]) /\ p = at[i] + (p - a)
        BY <2>2, <2>3, <2>4, <3>2
      <4> QED
        BY <4>1
    <3> QED
      BY <2>4, <3>1, <3>2
  <2>7. Placed(i)
    BY <2>5, <2>6
  <2> HIDE DEF Placed
  <2> QED
    BY <2>7
<1> HIDE DEF T
<1>12. \A i \in 0..n : i \in T
  BY <1>10, <1>11, Induction
<1>13. n \in T
  BY <1>12
<1>14. Placed(n)
  BY <1>13 DEF T
<1> HIDE DEF Placed
<1>15. at[n + 1] = Len(f[n])
  BY <1>5
<1>16. Laid(at, n, ss, f[n])
  BY <1>6, <1>7, <1>8, <1>9, <1>14, <1>15 DEF Laid, Placed
<1> QED
  BY <1>2, <1>16

-----------------------------------------------------------------------------
(* Totals and Sum.                                                         *)
Adds(t, n, sizes) ==
  /\ t[0] = 0 /\ \A i \in 0..n : t[i] \in Int
  /\ \A i \in 1..n : t[i] = t[i - 1] + sizes[i]

(* The totals of sizes are what adding them up gives.                      *)
LEMMA TotalsUnfold ==
  ASSUME NEW sizes \in Seq(Int)
  PROVE  Adds(Totals(sizes), Len(sizes), sizes)
<1> DEFINE n == Len(sizes)
           adds == [i \in 1..n |-> [t \in Int |-> t + sizes[i]]]
           Eq(f) == f = [i \in 0..n |-> IF i = 0 THEN 0 ELSE f[i - 1] + sizes[i]]
<1>1. n \in Nat /\ \A i \in 1..n : sizes[i] \in Int
  BY LenProperties, ElementOfSeq
<1>2. Totals(sizes) = CHOOSE f : Eq(f)
  BY DEF Totals
<1>3. \A t \in Int, i \in 1..n : adds[i][t] = t + sizes[i]
  OBVIOUS
<1>4. adds \in Steps(Int, n)
  BY <1>1 DEF Steps
<1> HIDE DEF n, adds
<1>5. PICK f \in [0..n -> Int] :
        f[0] = 0 /\ \A i \in 1..n : f[i] = adds[i][f[i - 1]]
  <2>1. 0 \in Int
    OBVIOUS
  <2>2. PICK f : Iterates(f, Int, 0, n, adds)
    BY <1>1, <1>4, <2>1, Recursion, Zenon
  <2> QED
    BY <2>2 DEF Iterates
<1>6. ASSUME NEW i \in 0..n PROVE f[i] = IF i = 0 THEN 0 ELSE f[i - 1] + sizes[i]
  <2>1. CASE i = 0
    BY <1>5, <2>1
  <2>2. CASE i # 0
    <3>1. i - 1 \in 0..n /\ i \in 1..n
      BY <1>1, <2>2
    <3> QED
      BY <1>3, <1>5, <2>2, <3>1
  <2> QED
    BY <2>1, <2>2
<1>7. Eq(f)
  BY <1>6
<1>8. PICK g : Eq(g) /\ Totals(sizes) = g
  BY <1>2, <1>7
<1>9. g[0] = 0
  BY <1>1, <1>8
<1>10. ASSUME NEW i \in 1..n PROVE g[i] = g[i - 1] + sizes[i]
  <2>1. i \in 0..n /\ i # 0
    BY <1>1
  <2> QED
    BY <1>8, <2>1, Zenon
<1>11. \A i \in 0..n : g[i] \in Int
  <2> DEFINE T == {i \in 0..n : g[i] \in Int}
  <2>1. 0 \in T
    BY <1>1, <1>9
  <2>2. ASSUME NEW i \in 1..n, i - 1 \in T PROVE i \in T
    <3>1. i \in 0..n /\ g[i - 1] \in Int /\ sizes[i] \in Int
      BY <1>1, <2>2
    <3>2. g[i] \in Int
      BY <1>10, <3>1
    <3> QED
      BY <3>1, <3>2
  <2> HIDE DEF T
  <2>3. \A i \in 0..n : i \in T
    BY <1>1, <2>1, <2>2, Induction
  <2> QED
    BY <2>3 DEF T
<1> QED
  BY <1>8, <1>9, <1>10, <1>11 DEF n, Adds

(* Nothing else adds up the same sizes.                                    *)
LEMMA TotalsAre ==
  ASSUME NEW sizes \in Seq(Int), NEW t, Adds(t, Len(sizes), sizes)
  PROVE  /\ Sum(sizes) = t[Len(sizes)]
         /\ \A i \in 0..Len(sizes) : Totals(sizes)[i] = t[i]
<1>1. PICK n \in Nat : n = Len(sizes)
  BY LenProperties
<1>2. PICK g : g = Totals(sizes)
  OBVIOUS
<1>3. Adds(g, n, sizes) /\ Adds(t, n, sizes)
  BY <1>1, <1>2, TotalsUnfold
<1> DEFINE T == {i \in 0..n : g[i] = t[i]}
<1>4. 0 \in T
  BY <1>3 DEF Adds
<1>5. ASSUME NEW i \in 1..n, i - 1 \in T PROVE i \in T
  BY <1>3, <1>5 DEF Adds
<1> HIDE DEF T
<1>6. \A i \in 0..n : i \in T
  BY <1>4, <1>5, Induction
<1>7. \A i \in 0..n : g[i] = t[i]
  BY <1>6 DEF T
<1> QED
  BY <1>1, <1>2, <1>7 DEF Sum

(* The sum of a stretch of sizes is the difference of two totals.          *)
LEMMA StretchSum ==
  ASSUME NEW sizes \in Seq(Int), NEW a \in 1..Len(sizes) + 1, NEW b \in 0..Len(sizes),
         a - 1 <= b
  PROVE  Sum(SubSeq(sizes, a, b)) = Totals(sizes)[b] - Totals(sizes)[a - 1]
<1>1. PICK n \in Nat : n = Len(sizes)
  BY LenProperties
<1>2. PICK t : t = Totals(sizes)
  OBVIOUS
<1>3. /\ t[0] = 0 /\ \A i \in 0..n : t[i] \in Int
      /\ \A i \in 1..n : t[i] = t[i - 1] + sizes[i]
  BY <1>1, <1>2, TotalsUnfold DEF Adds
<1>4. \A i \in a..b : sizes[i] \in Int
  BY <1>1, ElementOfSeq
<1>5. PICK s \in Seq(Int) : s = SubSeq(sizes, a, b)
  <2>1. a \in Int /\ b \in Int
    BY <1>1
  <2>2. SubSeq(sizes, a, b) \in Seq(Int)
    BY <1>4, <2>1, SubSeqProperties
  <2> QED
    BY <2>2
<1>6. PICK m \in Nat : m = b - a + 1 /\ m = Len(s)
  BY <1>1, <1>4, <1>5, SubSeqProperties
<1>7. \A i \in 1..m : s[i] = sizes[a + i - 1]
  BY <1>1, <1>4, <1>5, <1>6, SubSeqProperties
<1> DEFINE g == [i \in 0..m |-> t[a + i - 1] - t[a - 1]]
<1>8. \A i \in 0..m : g[i] = t[a + i - 1] - t[a - 1] /\ a + i - 1 \in 0..n
  BY <1>1, <1>6
<1> HIDE DEF g
<1>9. Adds(g, m, s)
  <2>1. a - 1 \in 0..n /\ a + 0 - 1 = a - 1
    BY <1>1
  <2>2. g[0] = 0
    BY <1>3, <1>8, <2>1
  <2>3. ASSUME NEW i \in 0..m PROVE g[i] \in Int
    <3>1. t[a + i - 1] \in Int /\ t[a - 1] \in Int
      BY <1>3, <1>8, <2>1
    <3> QED
      BY <1>8, <3>1
  <2>4. ASSUME NEW i \in 1..m PROVE g[i] = g[i - 1] + s[i]
    <3>1. i - 1 \in 0..m /\ i \in 0..m /\ a + (i - 1) - 1 = (a + i - 1) - 1
      BY <1>6
    <3>2. a + i - 1 \in 1..n
      BY <1>1, <1>6
    <3>3. t[a + i - 1] = t[(a + i - 1) - 1] + s[i]
      BY <1>3, <1>7, <3>2
    <3>4. t[(a + i - 1) - 1] \in Int /\ t[a - 1] \in Int /\ t[a + i - 1] \in Int
      BY <1>3, <1>8, <2>1, <3>1
    <3>5. s[i] \in Int
      BY <1>4, <1>7, <3>2, <1>6
    <3>6. g[i] = t[a + i - 1] - t[a - 1] /\ g[i - 1] = t[(a + i - 1) - 1] - t[a - 1]
      BY <1>8, <3>1
    <3>7. \A x, y, z, w \in Int : x = y + z => x - w = (y - w) + z
      OBVIOUS
    <3> QED
      BY <3>3, <3>4, <3>5, <3>6, <3>7
  <2> QED
    BY <2>2, <2>3, <2>4 DEF Adds
<1>10. Sum(s) = g[m]
  BY <1>6, <1>9, TotalsAre
<1>11. g[m] = t[b] - t[a - 1]
  BY <1>6, <1>8
<1> QED
  BY <1>2, <1>5, <1>10, <1>11

(* Larger sizes have the larger sum.                                       *)
LEMMA SumAtMost ==
  ASSUME NEW s \in Seq(Int), NEW t \in Seq(Int), Len(s) = Len(t),
         \A i \in 1..Len(s) : s[i] <= t[i]
  PROVE  Sum(s) <= Sum(t) /\ Sum(s) \in Int /\ Sum(t) \in Int
<1>1. PICK n \in Nat : n = Len(s)
  BY LenProperties
<1>2. PICK f : f = Totals(s)
  OBVIOUS
<1>3. PICK g : g = Totals(t)
  OBVIOUS
<1>4. Adds(f, n, s) /\ Adds(g, n, t)
  BY <1>1, <1>2, <1>3, TotalsUnfold
<1>5. \A i \in 1..n : s[i] \in Int /\ t[i] \in Int /\ s[i] <= t[i]
  BY <1>1, ElementOfSeq
<1> DEFINE T == {i \in 0..n : f[i] <= g[i]}
<1>6. 0 \in T
  BY <1>4 DEF Adds
<1>7. ASSUME NEW i \in 1..n, i - 1 \in T PROVE i \in T
  <2>1. i - 1 \in 0..n /\ f[i - 1] <= g[i - 1]
    BY <1>7
  <2>2. /\ f[i] = f[i - 1] + s[i] /\ g[i] = g[i - 1] + t[i]
        /\ f[i - 1] \in Int /\ g[i - 1] \in Int
    BY <1>4, <2>1 DEF Adds
  <2> QED
    BY <1>5, <2>1, <2>2
<1> HIDE DEF T
<1>8. \A i \in 0..n : i \in T
  BY <1>6, <1>7, Induction
<1>9. f[n] <= g[n] /\ f[n] \in Int /\ g[n] \in Int
  BY <1>4, <1>8 DEF T, Adds
<1> QED
  BY <1>1, <1>2, <1>3, <1>9 DEF Sum

(* Totals of natural numbers never fall.                                   *)
LEMMA TotalsGrow ==
  ASSUME NEW sizes \in Seq(Nat)
  PROVE  /\ Adds(Totals(sizes), Len(sizes), sizes)
         /\ \A i \in 0..Len(sizes) : Totals(sizes)[i] \in Nat
         /\ \A i, j \in 0..Len(sizes) : i <= j => Totals(sizes)[i] <= Totals(sizes)[j]
<1>1. PICK n \in Nat : n = Len(sizes)
  BY LenProperties
<1>2. PICK t : t = Totals(sizes)
  OBVIOUS
<1>3. sizes \in Seq(Int)
  BY SeqMonotonic
<1>4. Adds(t, n, sizes)
  BY <1>1, <1>2, <1>3, TotalsUnfold
<1>5. \A i \in 1..n : sizes[i] \in Nat
  BY <1>1, ElementOfSeq
<1>6. \A i \in 0..n : t[i] \in Int
  BY <1>4 DEF Adds
<1>7. \A i \in 1..n : t[i - 1] <= t[i]
  BY <1>4, <1>5 DEF Adds
<1>8. ASSUME NEW i \in 0..n PROVE \A j \in 0..n : i <= j => t[i] <= t[j]
  <2> DEFINE T == {j \in 0..n : i <= j => t[i] <= t[j]}
  <2>1. 0 \in T
    BY <1>6
  <2>2. ASSUME NEW j \in 1..n, j - 1 \in T PROVE j \in T
    <3>1. CASE i <= j - 1
      BY <1>6, <1>7, <2>2, <3>1
    <3>2. CASE i = j
      BY <1>6, <3>2
    <3>3. CASE j < i
      BY <3>3
    <3> QED
      BY <3>1, <3>2, <3>3
  <2> HIDE DEF T
  <2>3. \A j \in 0..n : j \in T
    BY <2>1, <2>2, Induction
  <2> QED
    BY <2>3 DEF T
<1>9. \A i \in 0..n : t[i] \in Nat
  <2>1. \A i \in 0..n : 0 <= i /\ 0 \in 0..n /\ t[0] = 0
    BY <1>4 DEF Adds
  <2> QED
    <3>1. ASSUME NEW i \in 0..n PROVE t[i] \in Nat
      <4>1. t[0] <= t[i] /\ t[0] = 0 /\ t[i] \in Int
        BY <1>6, <1>8, <2>1
      <4> QED
        BY <4>1
    <3> QED
      BY <3>1
<1> QED
  BY <1>1, <1>2, <1>4, <1>8, <1>9

-----------------------------------------------------------------------------
(* FlattenSeq again, for any number of lists.                              *)
LEMMA FlattenSteps ==
  ASSUME NEW C, NEW n \in Nat, NEW ss \in [1..n -> Seq(C)]
  PROVE  \E f : Flat(f, C, n, ss)
<1>1. CASE n # 0
  BY <1>1, FlattenUnfolds
<1>2. CASE n = 0
  <2>1. ss \in Seq(Seq(C)) /\ Len(ss) = 0
    BY <1>2
  <2>2. ss = <<>>
    BY <2>1, EmptySeq
  <2>3. FlattenSeq(ss) = <<>>
    BY <2>1, <2>2 DEF FlattenSeq
  <2> DEFINE f == [i \in 0..0 |-> <<>>]
  <2>4. Flat(f, C, 0, ss)
    BY <2>3, EmptySeq DEF Flat
  <2> QED
    BY <1>2, <2>4
<1> QED
  BY <1>1, <1>2

(* What is in the flattened list is in one of the lists.                   *)
LEMMA FlattenRange ==
  ASSUME NEW C, NEW n \in Nat, NEW ss \in [1..n -> Seq(C)]
  PROVE  /\ FlattenSeq(ss) \in Seq(C)
         /\ \A x : x \in Range(FlattenSeq(ss)) <=> \E k \in 1..n : x \in Range(ss[k])
<1>1. PICK f : Flat(f, C, n, ss)
  BY FlattenSteps
<1>2. /\ f[0] = <<>> /\ FlattenSeq(ss) = f[n]
      /\ \A i \in 0..n : f[i] \in Seq(C)
      /\ \A i \in 1..n : f[i] = f[i - 1] \o ss[i]
  BY <1>1 DEF Flat
<1>3. SUFFICES ASSUME NEW x
               PROVE  x \in Range(f[n]) <=> \E k \in 1..n : x \in Range(ss[k])
  BY <1>2
<1> DEFINE T == {i \in 0..n : x \in Range(f[i]) <=> \E k \in 1..i : x \in Range(ss[k])}
<1>4. 0 \in T
  BY <1>2 DEF Range
<1>5. ASSUME NEW i \in 1..n, i - 1 \in T PROVE i \in T
  <2>1. f[i - 1] \in Seq(C) /\ f[i] = f[i - 1] \o ss[i] /\ ss[i] \in Seq(C)
    <3>1. i - 1 \in 0..n
      OBVIOUS
    <3> QED
      BY <1>2, <3>1
  <2>2. Range(f[i]) = Range(f[i - 1]) \cup Range(ss[i])
    BY <2>1, RangeConcatenation
  <2>3. x \in Range(f[i - 1]) <=> \E k \in 1..i - 1 : x \in Range(ss[k])
    BY <1>5
  <2>4. \A k \in 1..i : k = i \/ k \in 1..i - 1
    OBVIOUS
  <2>5. \A k \in 1..i - 1 : k \in 1..i
    OBVIOUS
  <2>6. i \in 1..i /\ i \in 0..n
    OBVIOUS
  <2> QED
    BY <2>2, <2>3, <2>4, <2>5, <2>6
<1> HIDE DEF T
<1>6. \A i \in 0..n : i \in T
  BY <1>4, <1>5, Induction
<1> QED
  BY <1>6 DEF T

(* To map every list and to map the flattened one is the same.             *)
Maps(h, C, D) == h \in [C -> D]
Mapped(h, s) == [i \in DOMAIN s |-> h[s[i]]]

(* Mapped, a list behind a list is a list behind a list.                   *)
LEMMA MappedJoins ==
  ASSUME NEW C, NEW D, NEW h, Maps(h, C, D)
  PROVE  \A s, t \in Seq(C) : /\ Mapped(h, s) \in Seq(D) /\ Len(Mapped(h, s)) = Len(s)
                              /\ Mapped(h, s \o t) = Mapped(h, s) \o Mapped(h, t)
<1> SUFFICES ASSUME NEW s \in Seq(C), NEW t \in Seq(C)
             PROVE  /\ Mapped(h, s) \in Seq(D) /\ Len(Mapped(h, s)) = Len(s)
                    /\ Mapped(h, s \o t) = Mapped(h, s) \o Mapped(h, t)
  OBVIOUS
<1>1. \A u \in Seq(C) : /\ Mapped(h, u) \in Seq(D) /\ Len(Mapped(h, u)) = Len(u)
                        /\ \A i \in 1..Len(u) : Mapped(h, u)[i] = h[u[i]]
  <2> SUFFICES ASSUME NEW u \in Seq(C)
               PROVE  /\ Mapped(h, u) \in Seq(D) /\ Len(Mapped(h, u)) = Len(u)
                      /\ \A i \in 1..Len(u) : Mapped(h, u)[i] = h[u[i]]
    OBVIOUS
  <2>1. PICK n \in Nat : n = Len(u) /\ DOMAIN u = 1..n
    BY LenProperties
  <2>2. \A i \in 1..n : u[i] \in C
    BY <2>1, ElementOfSeq
  <2>3. Mapped(h, u) \in [1..n -> D]
    BY <2>1, <2>2 DEF Maps, Mapped
  <2>4. Mapped(h, u) \in Seq(D) /\ Len(Mapped(h, u)) = n
    BY <2>3
  <2> QED
    BY <2>1, <2>4 DEF Mapped
<1>2. PICK a \in Nat : a = Len(s)
  BY LenProperties
<1>3. PICK b \in Nat : b = Len(t)
  BY LenProperties
<1>4. PICK v \in Seq(C) : v = s \o t
  BY ConcatProperties
<1>5. /\ Len(v) = a + b
      /\ \A i \in 1..a + b : v[i] = IF i <= a THEN s[i] ELSE t[i - a]
  BY <1>2, <1>3, <1>4, ConcatProperties
<1>6. PICK x \in Seq(D) : x = Mapped(h, s) /\ Len(x) = a /\ \A i \in 1..a : x[i] = h[s[i]]
  BY <1>1, <1>2
<1>7. PICK y \in Seq(D) : y = Mapped(h, t) /\ Len(y) = b /\ \A i \in 1..b : y[i] = h[t[i]]
  BY <1>1, <1>3
<1>8. /\ x \o y \in Seq(D) /\ Len(x \o y) = a + b
      /\ \A i \in 1..a + b : (x \o y)[i] = IF i <= a THEN x[i] ELSE y[i - a]
  <2>1. /\ x \o y \in Seq(D) /\ Len(x \o y) = Len(x) + Len(y)
        /\ \A i \in 1..Len(x) + Len(y) :
             (x \o y)[i] = IF i <= Len(x) THEN x[i] ELSE y[i - Len(x)]
    BY ConcatProperties
  <2> QED
    BY <1>6, <1>7, <2>1
<1>9. PICK z \in Seq(D) : z = Mapped(h, v) /\ Len(z) = a + b /\ \A i \in 1..a + b : z[i] = h[v[i]]
  <2>1. /\ Mapped(h, v) \in Seq(D) /\ Len(Mapped(h, v)) = Len(v)
        /\ \A i \in 1..Len(v) : Mapped(h, v)[i] = h[v[i]]
    BY <1>1
  <2> QED
    BY <1>5, <2>1
<1>10. ASSUME NEW i \in 1..a + b PROVE z[i] = (x \o y)[i]
  <2>1. CASE i <= a
    <3>1. i \in 1..a
      BY <2>1
    <3>2. v[i] = s[i] /\ (x \o y)[i] = x[i]
      BY <1>5, <1>8, <2>1
    <3>3. x[i] = h[s[i]] /\ z[i] = h[v[i]]
      BY <1>6, <1>9, <3>1
    <3> QED
      BY <3>2, <3>3
  <2>2. CASE ~ i <= a
    <3>1. i - a \in 1..b
      BY <2>2
    <3>2. v[i] = t[i - a] /\ (x \o y)[i] = y[i - a]
      BY <1>5, <1>8, <2>2
    <3>3. y[i - a] = h[t[i - a]] /\ z[i] = h[v[i]]
      BY <1>7, <1>9, <3>1
    <3> QED
      BY <3>2, <3>3
  <2> QED
    BY <2>1, <2>2
<1>11. z = x \o y
  BY <1>8, <1>9, <1>10, SeqEqual
<1> QED
  BY <1>1, <1>4, <1>6, <1>7, <1>9, <1>11

MapsAll(h, ss, tt, C, D, n) ==
  /\ n \in Nat /\ Maps(h, C, D) /\ ss \in [1..n -> Seq(C)] /\ tt \in [1..n -> Seq(D)]
  /\ \A k \in 1..n : tt[k] = Mapped(h, ss[k])

(* Lists mapped one by one and joined are the joined list mapped.          *)
LEMMA FlattenMapped ==
  ASSUME NEW C, NEW D, NEW n, NEW h, NEW ss, NEW tt, MapsAll(h, ss, tt, C, D, n)
  PROVE  FlattenSeq(tt) = Mapped(h, FlattenSeq(ss))
<1> USE DEF MapsAll
<1>1. PICK f : Flat(f, C, n, ss)
  BY FlattenSteps
<1>a. \A s, t \in Seq(C) : Mapped(h, s \o t) = Mapped(h, s) \o Mapped(h, t)
  BY MappedJoins
<1>2. PICK g : Flat(g, D, n, tt)
  BY FlattenSteps
<1>3. /\ f[0] = <<>> /\ FlattenSeq(ss) = f[n]
      /\ \A i \in 0..n : f[i] \in Seq(C)
      /\ \A i \in 1..n : f[i] = f[i - 1] \o ss[i]
  BY <1>1 DEF Flat
<1>4. /\ g[0] = <<>> /\ FlattenSeq(tt) = g[n]
      /\ \A i \in 1..n : g[i] = g[i - 1] \o tt[i]
  BY <1>2 DEF Flat
<1> DEFINE T == {i \in 0..n : g[i] = Mapped(h, f[i])}
<1>5. 0 \in T
  <2>1. Mapped(h, f[0]) \in Seq(D) /\ Len(Mapped(h, f[0])) = 0
    <3>1. PICK s \in Seq(C) : s = f[0] /\ Len(s) = 0
      BY <1>3, EmptySeq
    <3>2. Mapped(h, s) \in Seq(D) /\ Len(Mapped(h, s)) = Len(s)
      BY MappedJoins
    <3> QED
      BY <3>1, <3>2
  <2>2. Mapped(h, f[0]) = <<>>
    BY <2>1, EmptySeq
  <2> QED
    BY <1>4, <2>2
<1>6. ASSUME NEW i \in 1..n, i - 1 \in T PROVE i \in T
  <2>1. i - 1 \in 0..n /\ i \in 0..n
    OBVIOUS
  <2>2. Mapped(h, f[i - 1] \o ss[i]) = Mapped(h, f[i - 1]) \o Mapped(h, ss[i])
    <3>1. PICK s \in Seq(C) : s = f[i - 1]
      BY <1>3, <2>1
    <3>2. PICK t \in Seq(C) : t = ss[i]
      OBVIOUS
    <3>3. Mapped(h, s \o t) = Mapped(h, s) \o Mapped(h, t)
      BY <1>a
    <3> QED
      BY <3>1, <3>2, <3>3
  <2>3. g[i - 1] = Mapped(h, f[i - 1])
    BY <1>6
  <2> QED
    BY <1>3, <1>4, <2>1, <2>2, <2>3
<1> HIDE DEF T
<1>7. \A i \in 0..n : i \in T
  BY <1>5, <1>6, Induction
<1> QED
  BY <1>3, <1>4, <1>7 DEF T

(* Lists that share nothing, each without repeats, make one without.       *)
LEMMA FlattenApart ==
  ASSUME NEW C, NEW n \in Nat, NEW ss \in [1..n -> Seq(C)],
         \A k, l \in 1..n : \A i \in 1..Len(ss[k]), j \in 1..Len(ss[l]) :
           ss[k][i] = ss[l][j] => k = l /\ i = j
  PROVE  IsInjective(FlattenSeq(ss))
<1>1. CASE n = 0
  <2>1. PICK f : Flat(f, C, n, ss)
    BY FlattenSteps
  <2>2. FlattenSeq(ss) = <<>>
    BY <1>1, <2>1 DEF Flat
  <2> QED
    BY <2>2 DEF IsInjective
<1>2. CASE n # 0
  <2>1. PICK r \in Seq(C) : r = FlattenSeq(ss) /\ \E at : Laid(at, n, ss, r)
    BY <1>2, FlattenLays
  <2>2. PICK at : Laid(at, n, ss, r)
    BY <2>1
  <2>3. DOMAIN r = 1..Len(r)
    BY LenProperties
  <2>4. ASSUME NEW p \in 1..Len(r), NEW q \in 1..Len(r), r[p] = r[q] PROVE p = q
    <3>a. PICK k \in 1..n : \E i \in 1..Len(ss[k]) : p = at[k] + i
      BY <2>2 DEF Laid
    <3>1. PICK i \in 1..Len(ss[k]) : p = at[k] + i
      BY <3>a
    <3>b. PICK l \in 1..n : \E j \in 1..Len(ss[l]) : q = at[l] + j
      BY <2>2 DEF Laid
    <3>2. PICK j \in 1..Len(ss[l]) : q = at[l] + j
      BY <3>b
    <3>3. r[p] = ss[k][i] /\ r[q] = ss[l][j]
      BY <2>2, <3>1, <3>2 DEF Laid
    <3>4. k = l /\ i = j
      <4>1. ss[k][i] = ss[l][j]
        BY <2>4, <3>3
      <4> QED
        BY <4>1
    <3> QED
      BY <3>1, <3>2, <3>4
  <2> QED
    BY <2>1, <2>3, <2>4 DEF IsInjective
<1> QED
  BY <1>1, <1>2

-----------------------------------------------------------------------------
(* SelectAt takes the elements at some places, in their order.             *)
Selects(e, m, n, places) ==
  /\ e \in [1..m -> 1..n]
  /\ \A i, j \in 1..m : i < j => e[i] < e[j]
  /\ \A i \in 1..n : i \in places <=> \E j \in 1..m : e[j] = i

(* What SelectAt selects: the elements at the places, in their order.      *)
LEMMA SelectAtPicks ==
  ASSUME NEW C, NEW s \in Seq(C), NEW places
  PROVE  /\ SelectAt(s, places) \in Seq(C)
         /\ \E e : /\ Selects(e, Len(SelectAt(s, places)), Len(s), places)
                   /\ \A j \in 1..Len(SelectAt(s, places)) : SelectAt(s, places)[j] = s[e[j]]
<1>1. PICK n \in Nat : n = Len(s) /\ DOMAIN s = 1..n
  BY LenProperties
<1>2. \A i \in 1..n : s[i] \in C
  BY <1>1, ElementOfSeq
<1> DEFINE all == [i \in 1..n |-> i]
<1>3. all \in Seq(1..n) /\ Len(all) = n /\ \A i \in 1..n : all[i] = i
  OBVIOUS
<1> HIDE DEF all
<1>4. PICK kept \in Seq(1..n) : kept = Keep(all, places)
  BY <1>3, KeepPicks
<1>5. PICK m \in Nat : m = Len(kept) /\ DOMAIN kept = 1..m /\ kept \in [1..m -> 1..n]
  BY LenProperties
<1>6. PICK e : Picks(e, m, n, all, places) /\ \A j \in 1..m : kept[j] = all[e[j]]
  BY <1>3, <1>4, <1>5, KeepPicks
<1>7. \A j \in 1..m : e[j] \in 1..n /\ kept[j] = e[j]
  BY <1>3, <1>6 DEF Picks
<1>8. Selects(e, m, n, places)
  BY <1>3, <1>6 DEF Picks, Selects
<1>9. SelectAt(s, places) = [j \in 1..m |-> s[kept[j]]]
  BY <1>1, <1>4, <1>5 DEF SelectAt, all
<1>10. [j \in 1..m |-> s[kept[j]]] \in [1..m -> C]
  BY <1>2, <1>7
<1>11. PICK t \in Seq(C) : t = SelectAt(s, places) /\ Len(t) = m /\ \A j \in 1..m : t[j] = s[kept[j]]
  <2>1. PICK t : t = [j \in 1..m |-> s[kept[j]]]
    OBVIOUS
  <2>2. t \in [1..m -> C]
    BY <1>10, <2>1
  <2>3. t \in Seq(C) /\ Len(t) = m
    BY <2>2
  <2>4. \A j \in 1..m : t[j] = s[kept[j]]
    BY <2>1
  <2> QED
    BY <1>9, <2>1, <2>3, <2>4
<1>12. \A j \in 1..m : t[j] = s[e[j]]
  BY <1>7, <1>11
<1> QED
  BY <1>1, <1>8, <1>11, <1>12

-----------------------------------------------------------------------------
(* A list cut into parts: part k ends at place cut[k].                     *)
Cuts(cut, parts, s, n) ==
  /\ cut \in [0..Len(parts) -> 0..n] /\ cut[0] = 0 /\ cut[Len(parts)] = n
  /\ \A k \in 1..Len(parts) : /\ cut[k - 1] < cut[k]
                              /\ parts[k] = SubSeq(s, cut[k - 1] + 1, cut[k])
  /\ \A k, l \in 0..Len(parts) : k <= l => cut[k] <= cut[l]

(* The next element begins a part of its own.                              *)
LEMMA CutsAnew ==
  ASSUME NEW C, NEW s \in Seq(C), NEW n \in 0..Len(s) - 1, NEW parts \in Seq(Seq(C)), NEW cut,
         Cuts(cut, parts, s, n), NEW more, more = Append(parts, <<s[n + 1]>>)
  PROVE  /\ more \in Seq(Seq(C)) /\ Len(more) = Len(parts) + 1
         /\ \A k \in 1..Len(parts) : more[k] = parts[k]
         /\ more[Len(parts) + 1] = <<s[n + 1]>>
         /\ \E g : Cuts(g, more, s, n + 1)
<1>1. PICK m \in Nat : m = Len(parts)
  BY LenProperties
<1>2. n + 1 \in 1..Len(s) /\ s[n + 1] \in C /\ Len(s) \in Nat
  BY LenProperties, ElementOfSeq
<1>3. SubSeq(s, n + 1, n + 1) = <<s[n + 1]>> /\ <<s[n + 1]>> \in Seq(C)
  <2>1. n + 1 \in n + 1..Len(s)
    BY <1>2
  <2>2. SubSeq(s, n + 1, n + 1) = <<s[n + 1]>> \o SubSeq(s, (n + 1) + 1, n + 1)
    BY <1>2, <2>1, SubSeqRecursiveFirst
  <2>3. SubSeq(s, (n + 1) + 1, n + 1) = <<>>
    BY SubSeqEmpty
  <2>4. <<s[n + 1]>> \in Seq(C)
    BY <1>2
  <2>5. <<s[n + 1]>> \o <<>> = <<s[n + 1]>>
    BY <2>4, ConcatEmptySeq
  <2> QED
    BY <2>2, <2>3, <2>4, <2>5
<1>4. PICK q \in Seq(Seq(C)) : q = Append(parts, <<s[n + 1]>>)
  BY <1>3, AppendProperties
<1>5. /\ Len(q) = m + 1 /\ q[m + 1] = <<s[n + 1]>>
      /\ \A k \in 1..m : q[k] = parts[k]
  BY <1>1, <1>3, <1>4, AppendProperties
<1> DEFINE g == [k \in 0..m + 1 |-> IF k = m + 1 THEN n + 1 ELSE cut[k]]
<1>6. /\ cut \in [0..m -> 0..n] /\ cut[0] = 0 /\ cut[m] = n
      /\ \A k \in 1..m : cut[k - 1] < cut[k] /\ parts[k] = SubSeq(s, cut[k - 1] + 1, cut[k])
      /\ \A k, l \in 0..m : k <= l => cut[k] <= cut[l]
  BY <1>1 DEF Cuts
<1>7. /\ \A k \in 0..m : g[k] = cut[k] /\ g[k] \in 0..n
      /\ g[m + 1] = n + 1 /\ g \in [0..m + 1 -> 0..n + 1]
  BY <1>6
<1> HIDE DEF g
<1>8. ASSUME NEW k \in 1..m + 1
      PROVE  g[k - 1] < g[k] /\ q[k] = SubSeq(s, g[k - 1] + 1, g[k])
  <2>1. CASE k = m + 1
    <3>1. m \in 0..m /\ k - 1 = m
      BY <2>1
    <3>2. g[k - 1] = n /\ g[k] = n + 1
      BY <1>6, <1>7, <2>1, <3>1
    <3> QED
      BY <1>3, <1>5, <2>1, <3>2
  <2>2. CASE k # m + 1
    <3>1. k \in 1..m /\ k \in 0..m /\ k - 1 \in 0..m
      BY <2>2
    <3> QED
      BY <1>5, <1>6, <1>7, <3>1
  <2> QED
    BY <2>1, <2>2
<1>9. ASSUME NEW k \in 0..m + 1, NEW l \in 0..m + 1, k <= l PROVE g[k] <= g[l]
  <2>1. CASE l \in 0..m
    <3>1. k \in 0..m
      BY <1>9, <2>1
    <3> QED
      BY <1>6, <1>7, <1>9, <2>1, <3>1
  <2>2. CASE l \notin 0..m
    <3>1. l = m + 1 /\ g[k] \in 0..n + 1
      BY <1>7, <2>2
    <3> QED
      BY <1>7, <3>1
  <2> QED
    BY <2>1, <2>2
<1>10. Cuts(g, q, s, n + 1)
  <2>1. g[0] = 0
    BY <1>6, <1>7
  <2> QED
    BY <1>5, <1>7, <1>8, <1>9, <2>1 DEF Cuts
<1> QED
  BY <1>1, <1>4, <1>5, <1>10

(* The next element joins the last part.                                   *)
LEMMA CutsOn ==
  ASSUME NEW C, NEW s \in Seq(C), NEW n \in 0..Len(s) - 1, NEW parts \in Seq(Seq(C)), NEW cut,
         Cuts(cut, parts, s, n), parts # <<>>,
         NEW longer, longer = Append(Front(parts), Append(Last(parts), s[n + 1]))
  PROVE  /\ longer \in Seq(Seq(C)) /\ Len(longer) = Len(parts) /\ Len(parts) \in Nat \ {0}
         /\ \A k \in 1..Len(parts) - 1 : longer[k] = parts[k]
         /\ Last(parts) = parts[Len(parts)]
         /\ longer[Len(parts)] = Append(Last(parts), s[n + 1])
         /\ \E g : Cuts(g, longer, s, n + 1)
<1>1. PICK m \in Nat \ {0} : m = Len(parts)
  BY EmptySeq
<1>2. n + 1 \in 1..Len(s) /\ s[n + 1] \in C /\ Len(s) \in Nat
  BY LenProperties, ElementOfSeq
<1>3. m \in 1..m /\ \A k \in 1..m - 1 : k \in 1..m
  OBVIOUS
<1>4. \A k \in 1..m : parts[k] \in Seq(C)
  BY <1>1, ElementOfSeq
<1>5. PICK last \in Seq(C) : last = parts[m] /\ last = Last(parts)
  BY <1>1, <1>3, <1>4 DEF Last
<1>6. PICK front \in Seq(Seq(C)) :
        front = Front(parts) /\ Len(front) = m - 1 /\ \A k \in 1..m - 1 : front[k] = parts[k]
  <2>1. \A k \in 1..m - 1 : parts[k] \in Seq(C)
    BY <1>3, <1>4
  <2>2. 1 \in Int /\ m - 1 \in Int
    OBVIOUS
  <2>3. /\ SubSeq(parts, 1, m - 1) \in Seq(Seq(C))
        /\ Len(SubSeq(parts, 1, m - 1)) = IF 1 <= m - 1 THEN (m - 1) - 1 + 1 ELSE 0
        /\ \A k \in 1..(m - 1) - 1 + 1 : SubSeq(parts, 1, m - 1)[k] = parts[1 + k - 1]
    BY <2>1, <2>2, SubSeqProperties
  <2>4. \A k \in 1..m - 1 : k \in 1..(m - 1) - 1 + 1 /\ 1 + k - 1 = k
    OBVIOUS
  <2>5. Front(parts) = SubSeq(parts, 1, m - 1)
    BY <1>1 DEF Front
  <2>6. Len(SubSeq(parts, 1, m - 1)) = m - 1
    BY <2>3
  <2>7. \A k \in 1..m - 1 : SubSeq(parts, 1, m - 1)[k] = parts[k]
    BY <2>3, <2>4
  <2> QED
    BY <2>3, <2>5, <2>6, <2>7
<1>7. PICK new \in Seq(C) : new = Append(last, s[n + 1])
  BY <1>2, AppendProperties
<1>8. PICK q \in Seq(Seq(C)) : q = Append(front, new)
  BY AppendProperties
<1>9. /\ Len(q) = m /\ q[m] = new
      /\ \A k \in 1..m - 1 : q[k] = parts[k]
  BY <1>6, <1>8, AppendProperties
<1> DEFINE g == [k \in 0..m |-> IF k = m THEN n + 1 ELSE cut[k]]
<1>10. /\ cut \in [0..m -> 0..n] /\ cut[0] = 0 /\ cut[m] = n
       /\ \A k \in 1..m : cut[k - 1] < cut[k] /\ parts[k] = SubSeq(s, cut[k - 1] + 1, cut[k])
       /\ \A k, l \in 0..m : k <= l => cut[k] <= cut[l]
  BY <1>1 DEF Cuts
<1>11. /\ \A k \in 0..m - 1 : g[k] = cut[k] /\ g[k] \in 0..n
       /\ g[m] = n + 1 /\ g \in [0..m -> 0..n + 1]
  <2>1. \A k \in 0..m - 1 : k \in 0..m /\ k # m
    OBVIOUS
  <2>2. ASSUME NEW k \in 0..m PROVE cut[k] \in 0..n /\ cut[k] \in 0..n + 1
    <3>1. cut[k] \in 0..n
      BY <1>10
    <3> QED
      BY <3>1
  <2>3. n + 1 \in 0..n + 1 /\ m \in 0..m
    OBVIOUS
  <2> QED
    BY <2>1, <2>2, <2>3
<1> HIDE DEF g
<1>12. new = SubSeq(s, cut[m - 1] + 1, n + 1)
  <2>1. PICK a \in 0..n : a = cut[m - 1] /\ a < n /\ last = SubSeq(s, a + 1, n)
    <3>1. m - 1 \in 0..m
      OBVIOUS
    <3> QED
      BY <1>3, <1>5, <1>10, <3>1
  <2>2. a + 1 \in 1..Len(s) /\ n + 1 \in a + 1..Len(s)
    <3>1. PICK size \in Nat : size = Len(s)
      BY <1>2
    <3>2. n \in Nat /\ n + 1 <= size
      BY <1>2, <3>1
    <3>3. \A x \in 0..n : x + 1 \in 1..size /\ n + 1 \in x + 1..size
      BY <3>1, <3>2
    <3> QED
      BY <3>1, <3>3
  <2>3. SubSeq(s, a + 1, n + 1) = SubSeq(s, a + 1, (n + 1) - 1) \o <<s[n + 1]>>
    BY <2>2, SubSeqRecursiveSecond
  <2>4. (n + 1) - 1 = n
    OBVIOUS
  <2>5. new = last \o <<s[n + 1]>>
    BY <1>2, <1>7, AppendIsConcat
  <2> QED
    BY <2>1, <2>3, <2>4, <2>5
<1>13. ASSUME NEW k \in 1..m
       PROVE  g[k - 1] < g[k] /\ q[k] = SubSeq(s, g[k - 1] + 1, g[k])
  <2>1. CASE k = m
    <3>1. m - 1 \in 0..m - 1
      OBVIOUS
    <3>2. g[k - 1] = cut[m - 1] /\ g[k] = n + 1 /\ g[k - 1] \in 0..n
      BY <1>11, <2>1, <3>1
    <3>3. q[k] = new /\ g[k - 1] < g[k]
      BY <1>9, <2>1, <3>2
    <3> QED
      BY <1>12, <3>2, <3>3
  <2>2. CASE k # m
    <3>1. k \in 1..m /\ k \in 1..m - 1 /\ k \in 0..m - 1 /\ k - 1 \in 0..m - 1
      BY <2>2
    <3> QED
      BY <1>9, <1>10, <1>11, <3>1
  <2> QED
    BY <2>1, <2>2
<1>14. ASSUME NEW k \in 0..m, NEW l \in 0..m, k <= l PROVE g[k] <= g[l]
  <2>1. CASE l \in 0..m - 1
    <3>1. k \in 0..m - 1 /\ k \in 0..m /\ l \in 0..m
      BY <1>14, <2>1
    <3> QED
      BY <1>10, <1>11, <1>14, <2>1, <3>1
  <2>2. CASE l \notin 0..m - 1
    <3>1. l = m /\ g[k] \in 0..n + 1
      BY <1>11, <2>2
    <3> QED
      BY <1>11, <3>1
  <2> QED
    BY <2>1, <2>2
<1>15. Cuts(g, q, s, n + 1)
  <2>1. g[0] = 0
    <3>1. 0 \in 0..m - 1
      OBVIOUS
    <3> QED
      BY <1>10, <1>11, <3>1
  <2> QED
    BY <1>9, <1>11, <1>13, <1>14, <2>1 DEF Cuts
<1>16. /\ q = longer
       /\ q[m] = Append(Last(parts), s[n + 1])
  BY <1>5, <1>6, <1>7, <1>8, <1>9
<1> QED
  BY <1>1, <1>5, <1>9, <1>15, <1>16

(* One size more adds to the sum.                                          *)
LEMMA SumAppend ==
  ASSUME NEW sizes \in Seq(Int), NEW x \in Int
  PROVE  Sum(Append(sizes, x)) = Sum(sizes) + x /\ Sum(sizes) \in Int
<1>1. PICK n \in Nat : n = Len(sizes)
  BY LenProperties
<1>2. PICK s \in Seq(Int) : s = Append(sizes, x)
  BY AppendProperties
<1>3. Len(s) = n + 1 /\ s[n + 1] = x /\ \A i \in 1..n : s[i] = sizes[i]
  BY <1>1, <1>2, AppendProperties
<1>4. PICK t : t = Totals(sizes) /\ Adds(t, n, sizes)
  BY <1>1, TotalsUnfold
<1> DEFINE g == [i \in 0..n + 1 |-> IF i = n + 1 THEN t[n] + x ELSE t[i]]
<1>5. g[n + 1] = t[n] + x /\ \A i \in 0..n : g[i] = t[i]
  OBVIOUS
<1> HIDE DEF g
<1>6. Adds(g, n + 1, s)
  <2>1. t[0] = 0 /\ t[n] \in Int
    BY <1>4 DEF Adds
  <2>2. ASSUME NEW i \in 0..n + 1 PROVE g[i] \in Int
    <3>1. CASE i = n + 1
      BY <1>5, <2>1, <3>1
    <3>2. CASE i # n + 1
      <4>1. i \in 0..n
        BY <3>2
      <4> QED
        BY <1>4, <1>5, <4>1 DEF Adds
    <3> QED
      BY <3>1, <3>2
  <2>3. ASSUME NEW i \in 1..n + 1 PROVE g[i] = g[i - 1] + s[i]
    <3>1. CASE i = n + 1
      BY <1>3, <1>5, <3>1
    <3>2. CASE i # n + 1
      <4>1. i \in 1..n /\ i \in 0..n /\ i - 1 \in 0..n
        BY <3>2
      <4> QED
        BY <1>3, <1>4, <1>5, <4>1 DEF Adds
    <3> QED
      BY <3>1, <3>2
  <2>4. g[0] = 0
    BY <1>5, <2>1
  <2> QED
    BY <2>2, <2>3, <2>4 DEF Adds
<1>7. Sum(s) = g[n + 1]
  BY <1>3, <1>6, TotalsAre
<1>8. Sum(sizes) = t[n] /\ t[n] \in Int
  BY <1>1, <1>4 DEF Sum, Adds
<1> QED
  BY <1>2, <1>5, <1>7, <1>8

(* To flatten the parts of a list of lists, then what comes of that, is to *)
(* flatten the list.                                                       *)
Stretches(f, ss, a, b) == f[b] = f[a] \o FlattenSeq(SubSeq(ss, a + 1, b))

(* A stretch of lists, joined, is a stretch of the joined list.            *)
LEMMA FlattenStretch ==
  ASSUME NEW C, NEW n \in Nat, NEW ss \in [1..n -> Seq(C)], NEW f, Flat(f, C, n, ss),
         NEW a \in 0..n, NEW b \in 0..n, a <= b
  PROVE  Stretches(f, ss, a, b)
<1>1. PICK m \in Nat : m = b - a
  OBVIOUS
<1>2. PICK tt \in Seq(Seq(C)) : tt = SubSeq(ss, a + 1, b) /\ Len(tt) = m
                                /\ \A i \in 1..m : tt[i] = ss[a + i]
  <2>1. a + 1 \in Int /\ b \in Int /\ \A i \in a + 1..b : ss[i] \in Seq(C)
    OBVIOUS
  <2>2. /\ SubSeq(ss, a + 1, b) \in Seq(Seq(C))
        /\ Len(SubSeq(ss, a + 1, b)) = IF a + 1 <= b THEN b - (a + 1) + 1 ELSE 0
        /\ \A i \in 1..b - (a + 1) + 1 : SubSeq(ss, a + 1, b)[i] = ss[(a + 1) + i - 1]
    BY <2>1, SubSeqProperties
  <2>3. b - (a + 1) + 1 = m /\ \A i \in 1..m : (a + 1) + i - 1 = a + i
    BY <1>1
  <2>4. Len(SubSeq(ss, a + 1, b)) = m
    BY <1>1, <2>2
  <2>5. ASSUME NEW i \in 1..m PROVE SubSeq(ss, a + 1, b)[i] = ss[a + i]
    BY <2>2, <2>3
  <2> QED
    BY <2>2, <2>4, <2>5
<1>3. tt \in [1..m -> Seq(C)]
  BY <1>2, LenProperties
<1>4. PICK g : Flat(g, C, m, tt)
  BY <1>3, FlattenSteps
<1>5. /\ g[0] = <<>> /\ FlattenSeq(tt) = g[m]
      /\ \A i \in 0..m : g[i] \in Seq(C)
      /\ \A i \in 1..m : g[i] = g[i - 1] \o tt[i]
  BY <1>4 DEF Flat
<1>6. /\ \A i \in 0..n : f[i] \in Seq(C)
      /\ \A i \in 1..n : f[i] = f[i - 1] \o ss[i]
  BY DEF Flat
<1> DEFINE T == {i \in 0..m : f[a + i] = f[a] \o g[i]}
<1>7. 0 \in T
  <2>1. f[a] \in Seq(C) /\ a + 0 = a
    BY <1>6
  <2>2. f[a] \o <<>> = f[a]
    BY <2>1, ConcatEmptySeq
  <2>3. f[a + 0] = f[a] \o g[0] /\ 0 \in 0..m
    BY <1>5, <2>1, <2>2
  <2> QED
    BY <2>3
<1>8. ASSUME NEW i \in 1..m, i - 1 \in T PROVE i \in T
  <2>1. i - 1 \in 0..m /\ a + i \in 1..n /\ a + (i - 1) = (a + i) - 1 /\ i \in 0..m
    BY <1>1
  <2>2. f[a] \in Seq(C) /\ g[i - 1] \in Seq(C) /\ tt[i] \in Seq(C)
    BY <1>3, <1>5, <1>6, <2>1
  <2>3. f[a + (i - 1)] = f[a] \o g[i - 1]
    BY <1>8
  <2>4. f[a + i] = f[(a + i) - 1] \o tt[i]
    BY <1>2, <1>6, <2>1
  <2>5. g[i] = g[i - 1] \o tt[i]
    BY <1>5
  <2>6. (f[a] \o g[i - 1]) \o tt[i] = f[a] \o (g[i - 1] \o tt[i])
    <3>1. \A x, y, z \in Seq(C) : (x \o y) \o z = x \o (y \o z)
      BY ConcatAssociative
    <3> QED
      BY <2>2, <3>1
  <2> QED
    BY <2>1, <2>3, <2>4, <2>5, <2>6
<1> HIDE DEF T
<1>9. \A i \in 0..m : i \in T
  BY <1>7, <1>8, Induction
<1>10. f[a + m] = f[a] \o g[m]
  <2>1. m \in T
    BY <1>9
  <2> QED
    BY <2>1 DEF T
<1>11. a + m = b
  BY <1>1
<1> QED
  BY <1>1, <1>2, <1>3, <1>5, <1>10, <1>11 DEF Stretches

FoldsUp(tt, ss, cut, m, n) ==
  /\ cut \in [0..m -> 0..n] /\ cut[0] = 0 /\ cut[m] = n
  /\ \A k \in 1..m : /\ cut[k - 1] < cut[k]
                     /\ tt[k] = FlattenSeq(SubSeq(ss, cut[k - 1] + 1, cut[k]))

(* Lists chained in groups and the groups chained: as chained at once.     *)
Regroups(tt, ss) ==
  \E C, cut : \E n, m \in Nat :
    ss \in [1..n -> Seq(C)] /\ tt \in [1..m -> Seq(C)] /\ FoldsUp(tt, ss, cut, m, n)

(* Lists joined in groups are the lists joined.                            *)
LEMMA FlattenRegrouped ==
  ASSUME NEW ss, NEW tt, Regroups(tt, ss)
  PROVE  FlattenSeq(tt) = FlattenSeq(ss)
<1> USE DEF FoldsUp
<1>a. PICK C, cut : \E n, m \in Nat :
        ss \in [1..n -> Seq(C)] /\ tt \in [1..m -> Seq(C)] /\ FoldsUp(tt, ss, cut, m, n)
  BY DEF Regroups
<1>b. PICK n \in Nat, m \in Nat :
        ss \in [1..n -> Seq(C)] /\ tt \in [1..m -> Seq(C)] /\ FoldsUp(tt, ss, cut, m, n)
  BY <1>a
<1> USE <1>b
<1>1. PICK f : Flat(f, C, n, ss)
  BY FlattenSteps
<1>2. PICK g : Flat(g, C, m, tt)
  BY FlattenSteps
<1>3. f[0] = <<>> /\ FlattenSeq(ss) = f[n]
  BY <1>1 DEF Flat
<1>4. /\ g[0] = <<>> /\ FlattenSeq(tt) = g[m]
      /\ \A k \in 1..m : g[k] = g[k - 1] \o tt[k]
  BY <1>2 DEF Flat
<1> DEFINE T == {k \in 0..m : g[k] = f[cut[k]]}
<1>5. 0 \in T
  BY <1>3, <1>4
<1>6. ASSUME NEW k \in 1..m, k - 1 \in T PROVE k \in T
  <2>1. k - 1 \in 0..m /\ k \in 0..m
    OBVIOUS
  <2>2. PICK a \in 0..n : a = cut[k - 1]
    BY <2>1
  <2>3. PICK b \in 0..n : b = cut[k] /\ a <= b
    <3>1. cut[k] \in 0..n /\ a < cut[k]
      BY <2>1, <2>2
    <3> QED
      BY <3>1
  <2>4. f[b] = f[a] \o FlattenSeq(SubSeq(ss, a + 1, b))
    <3>1. Stretches(f, ss, a, b)
      BY <1>1, <2>3, FlattenStretch
    <3> QED
      BY <3>1 DEF Stretches
  <2>5. g[k - 1] = f[a] /\ tt[k] = FlattenSeq(SubSeq(ss, a + 1, b))
    BY <1>6, <2>2, <2>3
  <2> QED
    BY <1>4, <2>1, <2>3, <2>4, <2>5
<1> HIDE DEF T
<1>7. \A k \in 0..m : k \in T
  BY <1>5, <1>6, Induction
<1>8. g[m] = f[cut[m]]
  BY <1>7 DEF T
<1> QED
  BY <1>3, <1>4, <1>8

-----------------------------------------------------------------------------
(* A list is put into groups: an element begins one or joins the last.     *)
Anew(more, parts, x) == more = Append(parts, <<x>>)
On(more, parts, x) == parts # <<>> /\ more = Append(Front(parts), Append(Last(parts), x))

(* What either does to the groups there are.                               *)
LEMMA Grouped ==
  ASSUME NEW C, NEW parts \in Seq(Seq(C)), NEW x \in C, NEW more
  PROVE  /\ Anew(more, parts, x) =>
              /\ more \in Seq(Seq(C)) /\ Len(more) = Len(parts) + 1
              /\ \A k \in 1..Len(parts) : more[k] = parts[k]
              /\ more[Len(parts) + 1] = <<x>>
         /\ On(more, parts, x) =>
              /\ more \in Seq(Seq(C)) /\ Len(more) = Len(parts) /\ Len(parts) \in Nat \ {0}
              /\ \A k \in 1..Len(parts) - 1 : more[k] = parts[k]
              /\ Last(parts) = parts[Len(parts)] /\ Last(parts) \in Seq(C)
              /\ more[Len(parts)] = Append(Last(parts), x)
<1>1. PICK m \in Nat : m = Len(parts)
  BY LenProperties
<1>2. ASSUME Anew(more, parts, x)
      PROVE  /\ more \in Seq(Seq(C)) /\ Len(more) = m + 1
             /\ \A k \in 1..m : more[k] = parts[k]
             /\ more[m + 1] = <<x>>
  <2>1. PICK one \in Seq(C) : one = <<x>>
    <3>1. <<x>> \in Seq(C)
      OBVIOUS
    <3> QED
      BY <3>1
  <2>2. more = Append(parts, one)
    BY <1>2, <2>1 DEF Anew
  <2> QED
    BY <1>1, <2>1, <2>2, AppendProperties
<1>3. ASSUME On(more, parts, x)
      PROVE  /\ more \in Seq(Seq(C)) /\ Len(more) = m /\ m \in Nat \ {0}
             /\ \A k \in 1..m - 1 : more[k] = parts[k]
             /\ Last(parts) = parts[m] /\ Last(parts) \in Seq(C)
             /\ more[m] = Append(Last(parts), x)
  <2>1. parts # <<>> /\ m \in Nat \ {0}
    BY <1>1, <1>3, EmptySeq DEF On
  <2>2. m \in 1..m /\ \A k \in 1..m - 1 : k \in 1..m
    BY <2>1
  <2>3. \A k \in 1..m : parts[k] \in Seq(C)
    BY <1>1, ElementOfSeq
  <2>4. PICK last \in Seq(C) : last = parts[m] /\ last = Last(parts)
    BY <1>1, <2>2, <2>3 DEF Last
  <2>5. PICK front \in Seq(Seq(C)) :
          front = Front(parts) /\ Len(front) = m - 1 /\ \A k \in 1..m - 1 : front[k] = parts[k]
    <3>1. \A k \in 1..m - 1 : parts[k] \in Seq(C)
      BY <2>2, <2>3
    <3>2. 1 \in Int /\ m - 1 \in Int
      OBVIOUS
    <3>3. /\ SubSeq(parts, 1, m - 1) \in Seq(Seq(C))
          /\ Len(SubSeq(parts, 1, m - 1)) = IF 1 <= m - 1 THEN (m - 1) - 1 + 1 ELSE 0
          /\ \A k \in 1..(m - 1) - 1 + 1 : SubSeq(parts, 1, m - 1)[k] = parts[1 + k - 1]
      BY <3>1, <3>2, SubSeqProperties
    <3>4. \A k \in 1..m - 1 : k \in 1..(m - 1) - 1 + 1 /\ 1 + k - 1 = k
      OBVIOUS
    <3>5. Front(parts) = SubSeq(parts, 1, m - 1)
      BY <1>1 DEF Front
    <3>6. Len(SubSeq(parts, 1, m - 1)) = m - 1
      BY <2>1, <3>3
    <3>7. \A k \in 1..m - 1 : SubSeq(parts, 1, m - 1)[k] = parts[k]
      BY <3>3, <3>4
    <3> QED
      BY <3>3, <3>5, <3>6, <3>7
  <2>6. PICK new \in Seq(C) : new = Append(last, x)
    BY AppendProperties
  <2>7. more = Append(front, new)
    BY <1>3, <2>4, <2>5, <2>6 DEF On
  <2>8. /\ more \in Seq(Seq(C)) /\ Len(more) = m /\ more[m] = new
        /\ \A k \in 1..m - 1 : more[k] = parts[k]
    BY <2>5, <2>7, AppendProperties
  <2> QED
    BY <2>1, <2>4, <2>6, <2>8
<1> QED
  BY <1>1, <1>2, <1>3

(* The groups made so far are cuts of the list, as far as it is read.      *)
LEMMA GroupsCut ==
  ASSUME NEW C, NEW s \in Seq(C), NEW g, g[0] = <<>>,
         \A i \in 1..Len(s) : Anew(g[i], g[i - 1], s[i]) \/ On(g[i], g[i - 1], s[i])
  PROVE  \A i \in 0..Len(s) : g[i] \in Seq(Seq(C)) /\ \E cut : Cuts(cut, g[i], s, i)
<1>1. PICK n \in Nat : n = Len(s)
  BY LenProperties
<1> DEFINE T == {i \in 0..n : g[i] \in Seq(Seq(C)) /\ \E cut : Cuts(cut, g[i], s, i)}
<1>2. 0 \in T
  <2>1. PICK e \in Seq(Seq(C)) : e = g[0] /\ Len(e) = 0
    BY EmptySeq
  <2>2. Cuts([k \in 0..0 |-> 0], e, s, 0)
    BY <2>1 DEF Cuts
  <2>3. \E cut : Cuts(cut, g[0], s, 0)
    BY <2>1, <2>2
  <2>4. g[0] \in Seq(Seq(C)) /\ 0 \in 0..n
    BY <2>1
  <2> QED
    BY <2>3, <2>4
<1>3. ASSUME NEW i \in 1..n, i - 1 \in T PROVE i \in T
  <2>1. PICK p \in Seq(Seq(C)) : p = g[i - 1]
    BY <1>3
  <2>2. PICK cut : Cuts(cut, p, s, i - 1)
    BY <1>3, <2>1
  <2>3. i - 1 \in 0..Len(s) - 1 /\ (i - 1) + 1 = i /\ i \in 0..n /\ s[i] \in C
    BY <1>1, ElementOfSeq
  <2>4. PICK j \in 0..Len(s) - 1 : j = i - 1
    BY <2>3
  <2>5. j + 1 = i /\ Cuts(cut, p, s, j)
    BY <2>2, <2>3, <2>4
  <2>6. CASE Anew(g[i], g[i - 1], s[i])
    <3>1. PICK q : q = g[i]
      OBVIOUS
    <3>2. q = Append(p, <<s[j + 1]>>)
      BY <2>1, <2>5, <2>6, <3>1 DEF Anew
    <3>3. q \in Seq(Seq(C)) /\ \E h : Cuts(h, q, s, j + 1)
      BY <2>5, <3>2, CutsAnew
    <3> QED
      BY <2>3, <2>5, <3>1, <3>3
  <2>7. CASE On(g[i], g[i - 1], s[i])
    <3>1. PICK q : q = g[i]
      OBVIOUS
    <3>2. p # <<>> /\ q = Append(Front(p), Append(Last(p), s[j + 1]))
      BY <2>1, <2>5, <2>7, <3>1 DEF On
    <3>3. q \in Seq(Seq(C)) /\ \E h : Cuts(h, q, s, j + 1)
      BY <2>5, <3>2, CutsOn
    <3> QED
      BY <2>3, <2>5, <3>1, <3>3
  <2> QED
    BY <1>1, <2>6, <2>7
<1> HIDE DEF T
<1>4. \A i \in 0..n : i \in T
  BY <1>2, <1>3, Induction
<1> QED
  BY <1>1, <1>4 DEF T

(* A stretch of a list, element by element.                                *)
LEMMA StretchIs ==
  ASSUME NEW C, NEW s \in Seq(C), NEW a \in 0..Len(s), NEW b \in 0..Len(s), a <= b,
         NEW t, t = SubSeq(s, a + 1, b)
  PROVE  /\ t \in Seq(C) /\ Len(t) = b - a
         /\ \A i \in 1..b - a : t[i] = s[a + i] /\ a + i \in 1..Len(s)
<1>1. PICK n \in Nat : n = Len(s)
  BY LenProperties
<1>2. ASSUME NEW i \in a + 1..b PROVE s[i] \in C
  <2>1. i \in 1..n
    BY <1>1
  <2> QED
    BY <1>1, <2>1, ElementOfSeq
<1>3. a + 1 \in Int /\ b \in Int
  OBVIOUS
<1>4. /\ SubSeq(s, a + 1, b) \in Seq(C)
      /\ Len(SubSeq(s, a + 1, b)) = IF a + 1 <= b THEN b - (a + 1) + 1 ELSE 0
      /\ \A i \in 1..b - (a + 1) + 1 : SubSeq(s, a + 1, b)[i] = s[(a + 1) + i - 1]
  BY <1>2, <1>3, SubSeqProperties
<1>5. (IF a + 1 <= b THEN b - (a + 1) + 1 ELSE 0) = b - a /\ b - (a + 1) + 1 = b - a
  BY <1>1
<1>6. ASSUME NEW i \in 1..b - a PROVE (a + 1) + i - 1 = a + i /\ a + i \in 1..Len(s)
  BY <1>1
<1> QED
  BY <1>4, <1>5, <1>6

(* To map a stretch is to take the stretch of what is mapped.              *)
Stretch(t, s, a, b) == a <= b /\ t = SubSeq(s, a + 1, b)

(* A stretch, mapped, is a stretch of the mapped list.                     *)
LEMMA MappedStretch ==
  ASSUME NEW C, NEW D, NEW h, Maps(h, C, D), NEW s \in Seq(C),
         NEW a \in 0..Len(s), NEW b \in 0..Len(s), NEW t, Stretch(t, s, a, b)
  PROVE  Stretch(Mapped(h, t), Mapped(h, s), a, b)
<1>1. PICK n \in Nat : n = Len(s) /\ DOMAIN s = 1..n
  BY LenProperties
<1>2. /\ t \in Seq(C) /\ Len(t) = b - a
      /\ \A i \in 1..b - a : t[i] = s[a + i] /\ a + i \in 1..n
  <2>1. a <= b /\ t = SubSeq(s, a + 1, b)
    BY DEF Stretch
  <2> QED
    BY <1>1, <2>1, StretchIs
<1>3. PICK ms \in Seq(D) : ms = Mapped(h, s) /\ Len(ms) = n
  BY <1>1, MappedJoins
<1>4. PICK mt \in Seq(D) : mt = Mapped(h, t) /\ Len(mt) = b - a
  <2>1. PICK x \in Seq(C) : x = t
    BY <1>2
  <2>2. Mapped(h, x) \in Seq(D) /\ Len(Mapped(h, x)) = Len(x)
    BY MappedJoins
  <2> QED
    BY <1>2, <2>1, <2>2
<1>5. PICK st : st = SubSeq(ms, a + 1, b)
  OBVIOUS
<1>6. /\ st \in Seq(D) /\ Len(st) = b - a
      /\ \A i \in 1..b - a : st[i] = ms[a + i]
  BY <1>1, <1>3, <1>5, StretchIs DEF Stretch
<1>7. DOMAIN t = 1..b - a
  BY <1>2, LenProperties
<1>8. ASSUME NEW i \in 1..b - a PROVE mt[i] = st[i]
  <2>1. a + i \in 1..n /\ t[i] = s[a + i]
    BY <1>2
  <2>2. mt[i] = h[t[i]]
    BY <1>4, <1>7 DEF Mapped
  <2>3. ms[a + i] = h[s[a + i]]
    BY <1>1, <1>3, <2>1 DEF Mapped
  <2> QED
    BY <1>6, <2>1, <2>2, <2>3
<1>9. mt = st
  BY <1>4, <1>6, <1>8, SeqEqual
<1> QED
  BY <1>3, <1>4, <1>5, <1>9 DEF Stretch

(* Cuts are as many as there are elements, at most.                        *)
LEMMA CutsFew ==
  ASSUME NEW C, NEW s \in Seq(C), NEW n \in 0..Len(s), NEW parts \in Seq(Seq(C)), NEW cut,
         Cuts(cut, parts, s, n)
  PROVE  /\ Len(parts) <= n /\ (n > 0 => Len(parts) > 0)
         /\ \A k \in 1..Len(parts) : /\ parts[k] \in Seq(C) /\ Len(parts[k]) = cut[k] - cut[k - 1]
                                     /\ cut[k] - cut[k - 1] \in Nat \ {0}
<1>1. PICK m \in Nat : m = Len(parts)
  BY LenProperties
<1>2. PICK size \in Nat : size = Len(s)
  BY LenProperties
<1>3. /\ cut \in [0..m -> 0..n] /\ cut[0] = 0 /\ cut[m] = n
      /\ \A k \in 1..m : cut[k - 1] < cut[k] /\ parts[k] = SubSeq(s, cut[k - 1] + 1, cut[k])
  BY <1>1 DEF Cuts
<1> DEFINE T == {k \in 0..m : k <= cut[k]}
<1>4. 0 \in T
  BY <1>3
<1>5. ASSUME NEW k \in 1..m, k - 1 \in T PROVE k \in T
  <2>1. k - 1 \in 0..m /\ k \in 0..m
    OBVIOUS
  <2>2. cut[k - 1] \in 0..n /\ cut[k] \in 0..n /\ cut[k - 1] < cut[k]
    BY <1>3, <2>1
  <2>3. k - 1 <= cut[k - 1]
    BY <1>5
  <2> QED
    BY <2>1, <2>2, <2>3
<1> HIDE DEF T
<1>6. \A k \in 0..m : k \in T
  BY <1>4, <1>5, Induction
<1>7. m <= n
  <2>1. m \in T
    BY <1>6
  <2> QED
    BY <1>3, <2>1 DEF T
<1>8. n > 0 => m > 0
  BY <1>3
<1>9. ASSUME NEW k \in 1..m
      PROVE  /\ parts[k] \in Seq(C) /\ Len(parts[k]) = cut[k] - cut[k - 1]
             /\ cut[k] - cut[k - 1] \in Nat \ {0}
  <2>1. k - 1 \in 0..m /\ k \in 0..m
    OBVIOUS
  <2>2. PICK a \in 0..size : a = cut[k - 1] /\ a \in 0..n
    BY <1>2, <1>3, <2>1
  <2>3. PICK b \in 0..size : b = cut[k] /\ b \in 0..n
    BY <1>2, <1>3, <2>1
  <2>4. a < b /\ parts[k] = SubSeq(s, a + 1, b)
    BY <1>3, <2>2, <2>3
  <2>5. PICK t : t = parts[k]
    OBVIOUS
  <2>6. a <= b
    BY <2>4
  <2>7. t \in Seq(C) /\ Len(t) = b - a
    BY <1>2, <2>4, <2>5, <2>6, StretchIs
  <2>8. b - a \in Nat \ {0}
    BY <2>4
  <2>9. parts[k] \in Seq(C) /\ Len(parts[k]) = b - a
    BY <2>5, <2>7
  <2> QED
    BY <2>2, <2>3, <2>8, <2>9
<1> QED
  BY <1>1, <1>7, <1>8, <1>9

(* Lists of sizes that begin alike have the same totals there.             *)
LEMMA TotalsAgree ==
  ASSUME NEW s \in Seq(Int), NEW t \in Seq(Int), NEW r \in Nat, r <= Len(s), r <= Len(t),
         \A i \in 1..r : s[i] = t[i]
  PROVE  \A i \in 0..r : Totals(s)[i] = Totals(t)[i] /\ Totals(s)[i] \in Int
<1>1. PICK f : f = Totals(s) /\ Adds(f, Len(s), s)
  BY TotalsUnfold
<1>2. PICK g : g = Totals(t) /\ Adds(g, Len(t), t)
  BY TotalsUnfold
<1>3. /\ f[0] = 0 /\ \A i \in 0..r : f[i] \in Int
      /\ \A i \in 1..r : f[i] = f[i - 1] + s[i]
  <2>1. PICK n \in Nat : n = Len(s)
    BY LenProperties
  <2>2. \A i \in 0..r : i \in 0..n
    BY <2>1
  <2>3. \A i \in 1..r : i \in 1..n
    BY <2>1
  <2> QED
    BY <1>1, <2>1, <2>2, <2>3 DEF Adds
<1>4. /\ g[0] = 0
      /\ \A i \in 1..r : g[i] = g[i - 1] + t[i]
  <2>1. PICK n \in Nat : n = Len(t)
    BY LenProperties
  <2>3. \A i \in 1..r : i \in 1..n
    BY <2>1
  <2> QED
    BY <1>2, <2>1, <2>3 DEF Adds
<1> DEFINE T == {i \in 0..r : f[i] = g[i]}
<1>5. 0 \in T
  BY <1>3, <1>4
<1>6. ASSUME NEW i \in 1..r, i - 1 \in T PROVE i \in T
  <2>1. f[i - 1] = g[i - 1] /\ i \in 0..r
    BY <1>6
  <2> QED
    BY <1>3, <1>4, <2>1
<1> HIDE DEF T
<1>7. \A i \in 0..r : i \in T
  BY <1>5, <1>6, Induction
<1> QED
  BY <1>1, <1>2, <1>3, <1>7 DEF T

(* The sum of two lists, one after the other.                              *)
LEMMA SumConcat ==
  ASSUME NEW s \in Seq(Int), NEW t \in Seq(Int), NEW r, r = s \o t
  PROVE  Sum(r) = Sum(s) + Sum(t)
<1>1. PICK n \in Nat : n = Len(s)
  BY LenProperties
<1>2. PICK m \in Nat : m = Len(t)
  BY LenProperties
<1>3. r \in Seq(Int) /\ Len(r) = n + m
  BY <1>1, <1>2, ConcatProperties
<1>4. \A i \in 1..n : r[i] = s[i]
  BY <1>1, <1>2, <1>3, ConcatProperties
<1>5. \A i \in 1..m : r[n + i] = t[i]
  <2>1. ASSUME NEW i \in 1..m PROVE r[n + i] = t[i]
    <3>1. n + i \in 1..n + m /\ n + i > n /\ (n + i) - n = i
      OBVIOUS
    <3>2. \A j \in 1..n + m : r[j] = IF j <= n THEN s[j] ELSE t[j - n]
      BY <1>1, <1>2, ConcatProperties
    <3>3. PICK j \in 1..n + m : j = n + i
      BY <3>1
    <3>4. r[j] = t[j - n] /\ j - n = i
      <4>1. ~ j <= n /\ j - n = i
        BY <3>1, <3>3
      <4>2. r[j] = IF j <= n THEN s[j] ELSE t[j - n]
        BY <3>2
      <4> QED
        BY <4>1, <4>2
    <3> QED
      BY <3>3, <3>4
  <2> QED
    BY <2>1
<1>6. PICK f : f = Totals(r) /\ Adds(f, n + m, r)
  BY <1>3, TotalsUnfold
<1>7. PICK g : g = Totals(t) /\ Adds(g, m, t)
  BY <1>2, TotalsUnfold
<1>8. f[n] = Sum(s) /\ f[n] \in Int
  <2>1. n <= Len(s) /\ n <= Len(r) /\ n \in 0..n
    BY <1>1, <1>3
  <2>2. \A i \in 0..n : Totals(r)[i] = Totals(s)[i] /\ Totals(r)[i] \in Int
    BY <1>3, <1>4, <2>1, TotalsAgree
  <2> QED
    BY <1>1, <1>6, <2>1, <2>2 DEF Sum
<1> DEFINE T == {i \in 0..m : f[n + i] = f[n] + g[i]}
<1>9. 0 \in T
  <2>1. g[0] = 0 /\ n + 0 = n
    BY <1>7 DEF Adds
  <2> QED
    BY <1>8, <2>1
<1>10. ASSUME NEW i \in 1..m, i - 1 \in T PROVE i \in T
  <2>1. n + i \in 1..n + m /\ (n + i) - 1 = n + (i - 1) /\ i \in 0..m /\ i - 1 \in 0..m
    OBVIOUS
  <2>2. f[n + i] = f[(n + i) - 1] + r[n + i] /\ g[i] = g[i - 1] + t[i] /\ g[i - 1] \in Int
    BY <1>6, <1>7, <2>1 DEF Adds
  <2>3. f[n + (i - 1)] = f[n] + g[i - 1]
    BY <1>10
  <2>4. t[i] \in Int
    BY <1>2, ElementOfSeq
  <2>5. f[n + i] = f[n] + g[i]
    <3>1. r[n + i] = t[i]
      BY <1>5
    <3>2. f[n + i] = (f[n] + g[i - 1]) + t[i]
      BY <2>1, <2>2, <2>3, <3>1
    <3>3. PICK x \in Int : x = f[n]
      BY <1>8
    <3>4. PICK y \in Int : y = g[i - 1]
      BY <2>2
    <3>5. PICK z \in Int : z = t[i]
      BY <2>4
    <3>6. f[n + i] = (x + y) + z /\ g[i] = y + z
      BY <2>2, <3>2, <3>3, <3>4, <3>5
    <3>7. (x + y) + z = x + (y + z)
      OBVIOUS
    <3> QED
      BY <3>3, <3>6, <3>7
  <2> QED
    BY <2>1, <2>5
<1> HIDE DEF T
<1>11. \A i \in 0..m : i \in T
  BY <1>9, <1>10, Induction
<1>12. f[n + m] = f[n] + g[m]
  <2>1. m \in T
    BY <1>11
  <2> QED
    BY <2>1 DEF T
<1> QED
  BY <1>2, <1>3, <1>6, <1>7, <1>8, <1>12 DEF Sum
=============================================================================
