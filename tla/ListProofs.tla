----------------------------- MODULE ListProofs -----------------------------
(***************************************************************************)
(* Induction over the natural numbers, stated with sets instead of         *)
(* predicates, functions defined by recursion over them, and what follows  *)
(* for the filtered lists of Lists.                                        *)
(***************************************************************************)
EXTENDS Lists, WellFoundedInduction, SequenceTheorems, TLAPS

(* A set of natural numbers that is not empty has a least one.              *)
LEMMA FirstOf ==
  ASSUME NEW S \in SUBSET Nat, S # {}
  PROVE  \E i \in S : \A j \in S : i <= j
<1>. DEFINE Less == {p \in Nat \X Nat : p[1] < p[2]}
<1>1. IsWellFoundedOn(Less, Nat)
  BY NatLessThanWellFounded, Zenon DEF OpToRel
<1>2. \A m, n \in Nat : m < n => <<m, n>> \in Less
  OBVIOUS
<1>. HIDE DEF Less
<1>3. PICK i \in S : \A j \in S : ~(<<j, i>> \in Less)
  BY <1>1, WFMin
<1>4. \A j \in S : i <= j
  <2>. TAKE j \in S
  <2>1. i \in Nat /\ j \in Nat /\ ~(j < i)
    BY <1>2, <1>3
  <2>. QED BY <2>1
<1>. QED BY <1>4

(* A set that holds 0 and the successor of each of its members holds every  *)
(* natural number.                                                          *)
LEMMA Induction ==
  ASSUME NEW S \in SUBSET Nat, 0 \in S, \A n \in S : n + 1 \in S
  PROVE  S = Nat
<1>. SUFFICES ASSUME Nat \ S # {} PROVE FALSE
  OBVIOUS
<1>1. PICK m \in Nat \ S : \A n \in Nat \ S : m <= n
  BY FirstOf
<1>2. m - 1 \in Nat /\ ~(m <= m - 1)
  BY <1>1
<1>. QED BY <1>1, <1>2

(* The same up to a bound.                                                  *)
LEMMA InductionUpTo ==
  ASSUME NEW N \in Nat, NEW S, 0 \in S, \A n \in 0..(N - 1) : n \in S => n + 1 \in S
  PROVE  \A n \in 0..N : n \in S
<1>. DEFINE T == {n \in Nat : n <= N => n \in S}
<1>1. 0 \in T
  OBVIOUS
<1>2. ASSUME NEW n \in T PROVE n + 1 \in T
  BY <1>2
<1>. HIDE DEF T
<1>3. T \in SUBSET Nat
  BY DEF T
<1>4. T = Nat
  BY <1>1, <1>2, <1>3, Induction
<1>. QED BY <1>4 DEF T

(* A function is defined by its first value and by a step from each value   *)
(* to the next.                                                             *)
Steps(f, n, first, step) == f[0] = first /\ \A k \in 1..n : f[k] = step[k][f[k - 1]]

LEMMA Recursion ==
  ASSUME NEW N \in Nat, NEW V, NEW first \in V, NEW step \in [1..N -> [V -> V]]
  PROVE  \E f \in [0..N -> V] : Steps(f, N, first, step)
<1>. DEFINE S == {n \in 0..N : \E f \in [0..n -> V] : Steps(f, n, first, step)}
<1>1. 0 \in S
  <2>. DEFINE f == [k \in 0..0 |-> first]
  <2>1. f \in [0..0 -> V] /\ Steps(f, 0, first, step)
    BY DEF Steps
  <2>. HIDE DEF f
  <2>. QED BY <2>1
<1>2. ASSUME NEW n \in 0..(N - 1), n \in S PROVE n + 1 \in S
  <2>1. PICK f \in [0..n -> V] : Steps(f, n, first, step)
    BY <1>2
  <2>. DEFINE g == [k \in 0..(n + 1) |-> IF k <= n THEN f[k] ELSE step[n + 1][f[n]]]
  <2>2. step[n + 1][f[n]] \in V
    <3>1. f[n] \in V /\ n + 1 \in 1..N
      BY <2>1
    <3>. QED BY <3>1
  <2>3. g \in [0..(n + 1) -> V]
    BY <2>1, <2>2
  <2>4. g[0] = first
    BY <2>1 DEF Steps
  <2>5. ASSUME NEW k \in 1..(n + 1) PROVE g[k] = step[k][g[k - 1]]
    <3>1. CASE k <= n
      BY <2>1, <3>1 DEF Steps
    <3>2. CASE k = n + 1
      BY <2>1, <3>2
    <3>. QED BY <3>1, <3>2
  <2>. HIDE DEF g
  <2>6. Steps(g, n + 1, first, step)
    BY <2>4, <2>5 DEF Steps
  <2>7. n + 1 \in 0..N
    OBVIOUS
  <2>. QED BY <2>3, <2>6, <2>7
<1>. HIDE DEF S
<1>3. \A n \in 0..N : n \in S
  BY <1>1, <1>2, InductionUpTo
<1>4. N \in 0..N
  OBVIOUS
<1>5. N \in S
  BY <1>3, <1>4
<1>. QED BY <1>5 DEF S

(* And there is only one such function.                                     *)
LEMMA OneRecursion ==
  ASSUME NEW N \in Nat, NEW first, NEW step, NEW f, NEW g,
         f = [n \in 0..N |-> f[n]], g = [n \in 0..N |-> g[n]],
         Steps(f, N, first, step), Steps(g, N, first, step)
  PROVE  f = g
<1>. DEFINE S == {n \in 0..N : f[n] = g[n]}
<1>1. 0 \in S
  BY DEF Steps
<1>2. ASSUME NEW n \in 0..(N - 1), n \in S PROVE n + 1 \in S
  <2>0. n + 1 \in 1..N /\ n + 1 \in 0..N /\ (n + 1) - 1 = n
    OBVIOUS
  <2>1. f[n + 1] = step[n + 1][f[n]] /\ g[n + 1] = step[n + 1][g[n]] /\ n + 1 \in 0..N
    BY <2>0 DEF Steps
  <2>. QED BY <1>2, <2>1
<1>3. \A n \in 0..N : n \in S
  <2>. HIDE DEF S
  <2>. QED BY <1>1, <1>2, InductionUpTo
<1>4. \A n \in 0..N : f[n] = g[n]
  BY <1>3
<1>. QED BY <1>4

(* What Only returns, element by element.                                   *)
LEMMA OnlyUnfolds ==
  ASSUME NEW V, NEW list \in Seq(V), NEW set
  PROVE  \E kept \in [0..Len(list) -> Seq(V)] :
           /\ Only(list, set) = kept[Len(list)]
           /\ kept[0] = << >>
           /\ \A n \in 1..Len(list) :
                kept[n] = IF list[n] \in set THEN Append(kept[n - 1], list[n]) ELSE kept[n - 1]
<1>. DEFINE N == Len(list)
            Next(n, v) == IF list[n] \in set THEN Append(v, list[n]) ELSE v
            step == [n \in 1..N |-> [v \in Seq(V) |-> Next(n, v)]]
            Def(f) == [n \in 0..N |-> IF n = 0 THEN << >> ELSE Next(n, f[n - 1])]
<1>1. N \in Nat /\ << >> \in Seq(V) /\ step \in [1..N -> [Seq(V) -> Seq(V)]]
  OBVIOUS
<1>2. PICK f \in [0..N -> Seq(V)] : Steps(f, N, << >>, step)
  <2>. HIDE DEF step, N
  <2>. QED BY <1>1, Recursion
<1>3. f[0] = << >> /\ \A n \in 1..N : f[n] = Next(n, f[n - 1])
  <2>1. \A n \in 1..N : f[n - 1] \in Seq(V)
    BY <1>1, <1>2
  <2>. QED BY <1>1, <1>2, <2>1 DEF Steps
<1>4. f = Def(f)
  <2>. HIDE DEF Next, step, N
  <2>1. \A n \in 0..N : n # 0 => n \in 1..N
    BY <1>1
  <2>. QED BY <1>2, <1>3, <2>1
<1>. DEFINE kept == CHOOSE g : g = Def(g)
<1>5. kept = Def(kept)
  BY <1>4
<1>6. Only(list, set) = kept[N]
  BY DEF Only
<1>7. kept = f
  <2>. DEFINE S == {n \in 0..N : kept[n] = f[n]}
  <2>. HIDE DEF Next, step, N, kept
  <2>1. 0 \in S
    BY <1>1, <1>3, <1>5
  <2>2. ASSUME NEW n \in 0..(N - 1), n \in S PROVE n + 1 \in S
    <3>1. n + 1 \in 1..N /\ n + 1 \in 0..N /\ n + 1 # 0 /\ (n + 1) - 1 = n
      BY <1>1
    <3>2. kept[n + 1] = Next(n + 1, kept[n]) /\ f[n + 1] = Next(n + 1, f[n])
      BY <1>3, <1>5, <3>1
    <3>. QED BY <2>2, <3>1, <3>2
  <2>3. \A n \in 0..N : n \in S
    <3>. HIDE DEF S
    <3>. QED BY <1>1, <2>1, <2>2, InductionUpTo
  <2>4. \A n \in 0..N : kept[n] = f[n]
    BY <2>3
  <2>. QED BY <1>2, <1>5, <2>4
<1>. QED BY <1>1, <1>3, <1>6, <1>7

(* The elements of a filtered list stand at increasing places of the list,  *)
(* and every element of the set is among them.                              *)
Places(kept, list, n, set, pos) ==
  /\ pos \in [DOMAIN kept -> 1..n]
  /\ \A i, j \in DOMAIN kept : i < j => pos[i] < pos[j]
  /\ \A i \in DOMAIN kept : kept[i] = list[pos[i]] /\ kept[i] \in set
  /\ \A k \in 1..n : list[k] \in set => \E i \in DOMAIN kept : pos[i] = k

LEMMA OnlyPlaces ==
  ASSUME NEW V, NEW list \in Seq(V), NEW set
  PROVE  /\ Only(list, set) \in Seq(V)
         /\ \E pos : Places(Only(list, set), list, Len(list), set, pos)
<1>. DEFINE N == Len(list)
<1>1. N \in Nat /\ \A n \in 1..N : list[n] \in V
  OBVIOUS
<1>2. PICK kept \in [0..N -> Seq(V)] :
        /\ Only(list, set) = kept[N]
        /\ kept[0] = << >>
        /\ \A n \in 1..N :
             kept[n] = IF list[n] \in set THEN Append(kept[n - 1], list[n]) ELSE kept[n - 1]
  BY OnlyUnfolds
<1>. DEFINE S == {n \in 0..N : \E pos : Places(kept[n], list, n, set, pos)}
<1>. HIDE DEF N
<1>3. 0 \in S
  <2>. DEFINE pos == [k \in {} |-> k]
  <2>1. DOMAIN kept[0] = {} /\ 1..0 = {}
    BY <1>2
  <2>2. Places(kept[0], list, 0, set, pos)
    BY <2>1 DEF Places
  <2>. HIDE DEF pos
  <2>. QED BY <1>1, <2>2
<1>4. ASSUME NEW n \in 0..(N - 1), n \in S PROVE n + 1 \in S
  <2>1. PICK pos : Places(kept[n], list, n, set, pos)
    BY <1>4
  <2>2. /\ n \in Nat /\ n + 1 \in 1..N /\ (n + 1) - 1 = n /\ kept[n] \in Seq(V)
        /\ list[n + 1] \in V /\ n + 1 \in 0..N
    BY <1>1, <1>2
  <2>3. CASE list[n + 1] \notin set
    <3>1. kept[n + 1] = kept[n]
      BY <1>2, <2>2, <2>3
    <3>2. Places(kept[n], list, n + 1, set, pos)
      BY <2>1, <2>2, <2>3 DEF Places
    <3>. QED BY <2>2, <3>1, <3>2
  <2>4. CASE list[n + 1] \in set
    <3>. DEFINE m == Len(kept[n])
                new == Append(kept[n], list[n + 1])
                q == [i \in 1..(m + 1) |-> IF i <= m THEN pos[i] ELSE n + 1]
    <3>1. kept[n + 1] = new
      BY <1>2, <2>2, <2>4
    <3>2. /\ m \in Nat /\ DOMAIN new = 1..(m + 1) /\ DOMAIN kept[n] = 1..m
          /\ \A i \in 1..m : new[i] = kept[n][i]
          /\ new[m + 1] = list[n + 1]
      BY <2>2
    <3>. HIDE DEF m, new
    <3>3. \A i \in 1..m : q[i] = pos[i] /\ pos[i] \in 1..n
      BY <2>1, <3>2 DEF Places
    <3>4. q[m + 1] = n + 1
      BY <3>2
    <3>5. q \in [DOMAIN new -> 1..(n + 1)]
      <4>1. ASSUME NEW i \in 1..(m + 1) PROVE q[i] \in 1..(n + 1)
        <5>1. CASE i \in 1..m
          <6>1. q[i] \in 1..n
            BY <3>3, <5>1
          <6>. QED BY <2>2, <6>1
        <5>2. CASE i = m + 1
          BY <2>2, <3>4, <5>2
        <5>. QED BY <3>2, <5>1, <5>2
      <4>. QED BY <3>2, <4>1
    <3>6. \A i, j \in DOMAIN new : i < j => q[i] < q[j]
      BY <2>1, <2>2, <3>2, <3>3, <3>4 DEF Places
    <3>7. \A i \in DOMAIN new : new[i] = list[q[i]] /\ new[i] \in set
      <4>. TAKE i \in DOMAIN new
      <4>1. CASE i \in 1..m
        BY <4>1, <2>1, <3>2, <3>3 DEF Places
      <4>2. CASE i = m + 1
        BY <4>2, <2>4, <3>2, <3>4
      <4>. QED BY <4>1, <4>2, <3>2
    <3>8. \A k \in 1..(n + 1) : list[k] \in set => \E i \in DOMAIN new : q[i] = k
      <4>. TAKE k \in 1..(n + 1)
      <4>1. CASE k \in 1..n
        BY <4>1, <2>1, <3>2, <3>3 DEF Places
      <4>2. CASE k = n + 1
        <5>1. m + 1 \in DOMAIN new
          BY <3>2
        <5>. QED BY <4>2, <3>4, <5>1
      <4>. QED BY <4>1, <4>2, <2>2
    <3>. HIDE DEF q
    <3>9. Places(new, list, n + 1, set, q)
      BY <3>5, <3>6, <3>7, <3>8 DEF Places
    <3>. QED BY <2>2, <3>1, <3>9
  <2>. QED BY <2>3, <2>4
<1>5. \A n \in 0..N : n \in S
  <2>. HIDE DEF S
  <2>. QED BY <1>1, <1>3, <1>4, InductionUpTo
<1>6. N \in 0..N
  BY <1>1
<1>7. \E pos : Places(kept[N], list, N, set, pos)
  BY <1>5, <1>6
<1>8. kept[N] \in Seq(V)
  BY <1>2, <1>6
<1>. QED BY <1>2, <1>7, <1>8 DEF N

(* A list splits in two: what is in the set, and what is in the other one.  *)
LEMMA OnlySplits ==
  ASSUME NEW V, NEW list \in Seq(V), NEW set, NEW other,
         \A n \in DOMAIN list : list[n] \in set <=> list[n] \notin other
  PROVE  Len(Only(list, set)) + Len(Only(list, other)) = Len(list)
<1>. DEFINE N == Len(list)
<1>1. N \in Nat /\ DOMAIN list = 1..N /\ \A n \in 1..N : list[n] \in V
  OBVIOUS
<1>2. PICK a \in [0..N -> Seq(V)] :
        /\ Only(list, set) = a[N]
        /\ a[0] = << >>
        /\ \A n \in 1..N : a[n] = IF list[n] \in set THEN Append(a[n - 1], list[n]) ELSE a[n - 1]
  BY OnlyUnfolds
<1>3. PICK b \in [0..N -> Seq(V)] :
        /\ Only(list, other) = b[N]
        /\ b[0] = << >>
        /\ \A n \in 1..N : b[n] = IF list[n] \in other THEN Append(b[n - 1], list[n]) ELSE b[n - 1]
  BY OnlyUnfolds
<1>. HIDE DEF N
<1>. DEFINE S == {n \in 0..N : Len(a[n]) + Len(b[n]) = n}
<1>4. 0 \in S
  BY <1>1, <1>2, <1>3
<1>5. ASSUME NEW n \in 0..(N - 1), n \in S PROVE n + 1 \in S
  <2>0. n + 1 \in 1..N /\ n + 1 \in 0..N /\ n \in 0..N /\ n \in Nat /\ (n + 1) - 1 = n
    BY <1>1
  <2>1. a[n] \in Seq(V) /\ b[n] \in Seq(V) /\ list[n + 1] \in V
    BY <2>0, <1>1, <1>2, <1>3
  <2>2. /\ Len(Append(a[n], list[n + 1])) = Len(a[n]) + 1 /\ Len(a[n]) \in Nat
        /\ Len(Append(b[n], list[n + 1])) = Len(b[n]) + 1 /\ Len(b[n]) \in Nat
    BY <2>1
  <2>3. /\ a[n + 1] = IF list[n + 1] \in set THEN Append(a[n], list[n + 1]) ELSE a[n]
        /\ b[n + 1] = IF list[n + 1] \in other THEN Append(b[n], list[n + 1]) ELSE b[n]
        /\ list[n + 1] \in set <=> list[n + 1] \notin other
    BY <1>1, <1>2, <1>3, <2>0, <2>1
  <2>4. Len(a[n]) + Len(b[n]) = n
    BY <1>5
  <2>5. ASSUME list[n + 1] \in set PROVE Len(a[n + 1]) + Len(b[n + 1]) = n + 1
    <3>1. Len(a[n + 1]) = Len(a[n]) + 1 /\ Len(b[n + 1]) = Len(b[n])
      BY <2>2, <2>3, <2>5
    <3>. QED BY <2>2, <2>4, <3>1
  <2>6. ASSUME list[n + 1] \notin set PROVE Len(a[n + 1]) + Len(b[n + 1]) = n + 1
    <3>1. Len(a[n + 1]) = Len(a[n]) /\ Len(b[n + 1]) = Len(b[n]) + 1
      BY <2>2, <2>3, <2>6
    <3>. QED BY <2>2, <2>4, <3>1
  <2>7. Len(a[n + 1]) + Len(b[n + 1]) = n + 1
    BY <2>5, <2>6
  <2>. QED BY <2>0, <2>7
<1>6. \A n \in 0..N : n \in S
  <2>. HIDE DEF S
  <2>. QED BY <1>1, <1>4, <1>5, InductionUpTo
<1>7. Len(a[N]) + Len(b[N]) = N
  BY <1>1, <1>6
<1>. QED BY <1>2, <1>3, <1>7 DEF N
=============================================================================
