----------------------------- MODULE FoldLemmas -----------------------------
(***************************************************************************)
(* What several proofs need of the natural numbers and of the folds of the *)
(* community modules, which go through a finite set or a sequence.         *)
(***************************************************************************)
EXTENDS Naturals, FiniteSets, FiniteSetsExt, Functions, FiniteSetTheorems,
        WellFoundedInduction, TLAPS

-----------------------------------------------------------------------------
(* Natural numbers.                                                        *)

LEMMA LeastNatural ==
  ASSUME NEW T \in SUBSET Nat, T # {}
  PROVE  \E n \in T : \A m \in T : n <= m
<1>1. IsWellFoundedOn(OpToRel(<, Nat), Nat)
  BY NatLessThanWellFounded
<1>2. PICK x \in T : \A y \in T : ~ (<<y, x>> \in OpToRel(<, Nat))
  BY <1>1, WFMin
<1>3. \A y \in T : ~ (y < x)
  BY <1>2 DEF OpToRel
<1> QED BY <1>3

LEMMA UpFromZero ==
  ASSUME NEW T \in SUBSET Nat, 0 \in T, \A n \in T : n + 1 \in T
  PROVE  T = Nat
<1> SUFFICES ASSUME Nat \ T # {}
             PROVE  FALSE
  OBVIOUS
<1>1. PICK n \in Nat \ T : \A m \in Nat \ T : n <= m
  BY LeastNatural
<1>2. n # 0 /\ n - 1 \in Nat
  BY <1>1
<1>3. n - 1 \in T
  BY <1>1, <1>2
<1> QED BY <1>1, <1>2, <1>3

LEMMA UpTo ==
  ASSUME NEW n \in Nat, NEW P, 0 \in P, \A k \in 1..n : k - 1 \in P => k \in P
  PROVE  \A k \in 0..n : k \in P
<1> DEFINE T == {k \in Nat : k <= n => k \in P}
<1>1. 0 \in T
  OBVIOUS
<1>2. ASSUME NEW k \in T PROVE k + 1 \in T
  <2> SUFFICES ASSUME k + 1 <= n PROVE k + 1 \in P
    OBVIOUS
  <2>1. k \in P /\ k + 1 \in 1..n /\ (k + 1) - 1 = k
    OBVIOUS
  <2> QED BY <2>1
<1>3. T \in SUBSET Nat
  OBVIOUS
<1>4. T = Nat
  <2> HIDE DEF T
  <2> QED BY <1>1, <1>2, <1>3, UpFromZero
<1> QED BY <1>4

-----------------------------------------------------------------------------
(* The folds of the community modules take an element c[s] out of a finite *)
(* set s until none is left.                                               *)
Folds(h, D, b, op, c) ==
  h = [s \in SUBSET D |-> IF s = {} THEN b ELSE op[h[s \ {c[s]}]][c[s]]]

LEMMA FoldsExist ==
  ASSUME NEW D, IsFiniteSet(D), NEW S, NEW b \in S, NEW op \in [S -> [D -> S]],
         NEW c, \A s \in SUBSET D : s # {} => c[s] \in s
  PROVE  \E h \in [SUBSET D -> S] : Folds(h, D, b, op, c)
<1> DEFINE Small(n) == {s \in SUBSET D : Cardinality(s) <= n}
           Right(g, n) == \A s \in Small(n) : g[s] = IF s = {} THEN b ELSE op[g[s \ {c[s]}]][c[s]]
           T == {n \in Nat : \E g \in [Small(n) -> S] : Right(g, n)}
<1>1. \A s \in SUBSET D : IsFiniteSet(s) /\ Cardinality(s) \in Nat /\ Cardinality(s) <= Cardinality(D)
        /\ (Cardinality(s) = 0 <=> s = {})
  BY FS_Subset, FS_CardinalityType, FS_EmptySet
<1>2. ASSUME NEW s \in SUBSET D, s # {}
      PROVE  /\ c[s] \in s /\ s \ {c[s]} \in SUBSET D
             /\ Cardinality(s \ {c[s]}) = Cardinality(s) - 1
  BY <1>1, <1>2, FS_RemoveElement
<1>3. 0 \in T
  <2> DEFINE g == [s \in Small(0) |-> b]
  <2>1. \A s \in Small(0) : s = {}
    BY <1>1
  <2>2. g \in [Small(0) -> S] /\ Right(g, 0)
    BY <2>1
  <2> QED BY <2>2
<1>4. ASSUME NEW n \in T PROVE n + 1 \in T
  <2> DEFINE m == n + 1
  <2>0. n \in Nat /\ m \in Nat /\ m = n + 1
    OBVIOUS
  <2>1. PICK g \in [Small(n) -> S] : Right(g, n)
    OBVIOUS
  <2> HIDE DEF m
  <2> DEFINE k == [s \in Small(m) |-> IF s = {} THEN b ELSE op[g[s \ {c[s]}]][c[s]]]
  <2>2. ASSUME NEW s \in Small(m), s # {}
        PROVE  s \ {c[s]} \in Small(n) /\ c[s] \in D
    <3>1. s \in SUBSET D /\ Cardinality(s) <= m /\ Cardinality(s) \in Nat
      BY <1>1
    <3>2. c[s] \in s /\ s \ {c[s]} \in SUBSET D /\ Cardinality(s \ {c[s]}) = Cardinality(s) - 1
      BY <1>2, <2>2, <3>1
    <3> QED BY <2>0, <3>1, <3>2
  <2>3. k \in [Small(m) -> S]
    <3> SUFFICES ASSUME NEW s \in Small(m)
                 PROVE  (IF s = {} THEN b ELSE op[g[s \ {c[s]}]][c[s]]) \in S
      BY Zenon
    <3>1. CASE s # {}
      <4>1. g[s \ {c[s]}] \in S /\ c[s] \in D
        BY <2>1, <2>2, <3>1, Zenon
      <4>2. op[g[s \ {c[s]}]] \in [D -> S]
        BY <4>1, Zenon
      <4> QED BY <3>1, <4>1, <4>2, Zenon
    <3> QED BY <3>1
  <2>4. \A s \in Small(n) : s \in Small(m) /\ k[s] = g[s]
    <3> SUFFICES ASSUME NEW s \in Small(n) PROVE s \in Small(m) /\ k[s] = g[s]
      OBVIOUS
    <3>1. s \in Small(m)
      BY <1>1, <2>0
    <3>2. k[s] = IF s = {} THEN b ELSE op[g[s \ {c[s]}]][c[s]]
      BY <3>1, Zenon
    <3>3. g[s] = IF s = {} THEN b ELSE op[g[s \ {c[s]}]][c[s]]
      BY <2>1, Zenon
    <3> QED BY <3>1, <3>2, <3>3, Zenon
  <2>5. Right(k, m)
    BY <2>2, <2>4
  <2> QED BY <2>0, <2>3, <2>5 DEF m
<1>5. T = Nat
  <2> HIDE DEF T
  <2>1. T \in SUBSET Nat
    BY DEF T
  <2> QED BY <1>3, <1>4, <2>1, UpFromZero
<1>6. PICK g \in [Small(Cardinality(D)) -> S] : Right(g, Cardinality(D))
  BY <1>5, FS_CardinalityType
<1>7. Small(Cardinality(D)) = SUBSET D
  BY <1>1
<1>8. g = [s \in SUBSET D |-> IF s = {} THEN b ELSE op[g[s \ {c[s]}]][c[s]]]
  BY <1>6, <1>7
<1> QED BY <1>6, <1>7, <1>8 DEF Folds

LEMMA Greatest ==
  ASSUME NEW n \in Nat, NEW s \in SUBSET (1..n), s # {}
  PROVE  Max(s) \in s /\ \A y \in s : Max(s) >= y
<1> DEFINE T == {k \in Nat : \E y \in s : k = n - y}
<1>1. T \in SUBSET Nat /\ T # {}
  <2>1. PICK y \in s : TRUE
    OBVIOUS
  <2>2. n - y \in T
    BY <2>1
  <2> QED BY <2>2
<1>2. PICK k \in T : \A m \in T : k <= m
  <2> HIDE DEF T
  <2> QED BY <1>1, LeastNatural
<1>3. PICK y \in s : k = n - y
  OBVIOUS
<1>4. \A z \in s : y >= z
  <2> SUFFICES ASSUME NEW z \in s PROVE y >= z
    OBVIOUS
  <2>1. n - z \in T
    OBVIOUS
  <2> QED BY <1>2, <1>3, <2>1
<1>5. \E x \in s : \A z \in s : x >= z
  BY <1>4
<1> QED BY <1>5, Zenon DEF Max

LEMMA GreatestUpTo ==
  ASSUME NEW n \in Nat, NEW k \in 1..n
  PROVE  Max(1..k) = k /\ (1..k) \ {k} = 1..(k - 1) /\ 1..k # {} /\ 1..k \in SUBSET (1..n)
<1>1. 1..k \in SUBSET (1..n) /\ k \in 1..k
  OBVIOUS
<1>2. Max(1..k) \in 1..k /\ Max(1..k) >= k
  BY <1>1, Greatest
<1> QED BY <1>1, <1>2

(* One step after another.                                                 *)
Steps(g, n, b, op) == g[0] = b /\ \A i \in 1..n : g[i] = op[g[i - 1]][i]

LEMMA StepsExist ==
  ASSUME NEW n \in Nat, NEW S, NEW b \in S, NEW op \in [S -> [1..n -> S]]
  PROVE  \E g \in [0..n -> S] : Steps(g, n, b, op)
<1> DEFINE c == [s \in SUBSET (1..n) |-> Max(s)]
<1>1. IsFiniteSet(1..n)
  BY FS_Interval
<1>2. \A s \in SUBSET (1..n) : s # {} => c[s] \in s
  BY Greatest
<1>3. PICK h \in [SUBSET (1..n) -> S] : Folds(h, 1..n, b, op, c)
  <2> HIDE DEF c
  <2> QED BY <1>1, <1>2, FoldsExist, Zenon
<1>4. \A s \in SUBSET (1..n) : h[s] = IF s = {} THEN b ELSE op[h[s \ {c[s]}]][c[s]]
  BY <1>3, Zenon DEF Folds
<1> DEFINE g == [i \in 0..n |-> h[1..i]]
<1>5. \A i \in 0..n : 1..i \in SUBSET (1..n)
  OBVIOUS
<1>6. g \in [0..n -> S]
  BY <1>5
<1>7. g[0] = b
  <2>1. 1..0 = {} /\ 0 \in 0..n
    OBVIOUS
  <2> QED BY <1>4, <2>1
<1>8. ASSUME NEW i \in 1..n PROVE g[i] = op[g[i - 1]][i]
  <2>1. c[1..i] = i /\ (1..i) \ {i} = 1..(i - 1) /\ 1..i # {} /\ 1..i \in SUBSET (1..n)
    BY GreatestUpTo
  <2>2. i \in 0..n /\ i - 1 \in 0..n
    OBVIOUS
  <2>3. h[1..i] = op[h[1..(i - 1)]][i]
    <3>1. PICK s \in SUBSET (1..n) : s = 1..i
      BY <2>1
    <3>2. h[s] = op[h[s \ {c[s]}]][c[s]]
      BY <1>4, <2>1, <3>1, Zenon
    <3> QED BY <2>1, <3>1, <3>2, Zenon
  <2> QED BY <2>2, <2>3
<1>9. Steps(g, n, b, op)
  <2> HIDE DEF g
  <2> QED BY <1>7, <1>8 DEF Steps
<1> QED BY <1>6, <1>9

-----------------------------------------------------------------------------
(* SumFunctionOnSet of the community modules: it takes the elements out of *)
(* the set one after another, in an order of its own.                      *)

NextOut(s) == CHOOSE x \in s : TRUE

(* h adds up f on the subsets of D.                                        *)
AddsUp(h, D, f) ==
  h = [s \in SUBSET D |-> IF s = {} THEN 0 ELSE f[NextOut(s)] + h[s \ {NextOut(s)}]]

(* There is such a function: one more element at a time.                   *)
LEMMA SumOnSet ==
  ASSUME NEW D, IsFiniteSet(D), NEW f, \A x \in D : f[x] \in Nat
  PROVE  \E h \in [SUBSET D -> Nat] : AddsUp(h, D, f) /\ SumFunctionOnSet(f, D) = h[D]
<1> DEFINE op == [v \in Nat |-> [x \in D |-> f[x] + v]]
           out == [s \in SUBSET D |-> NextOut(s)]
<1>1. op \in [Nat -> [D -> Nat]]
  OBVIOUS
<1>2. \A s \in SUBSET D : s # {} => NextOut(s) \in s /\ out[s] = NextOut(s)
  <2> SUFFICES ASSUME NEW s \in SUBSET D, s # {} PROVE NextOut(s) \in s
    OBVIOUS
  <2> QED BY Zenon DEF NextOut
<1>3. PICK g \in [SUBSET D -> Nat] : Folds(g, D, 0, op, out)
  <2>1. 0 \in Nat /\ \A s \in SUBSET D : s # {} => out[s] \in s
    BY <1>2
  <2> HIDE DEF op, out
  <2> QED BY <1>1, <2>1, FoldsExist, Zenon
<1>4. AddsUp(g, D, f)
  <2>1. ASSUME NEW s \in SUBSET D, s # {}
        PROVE  op[g[s \ {out[s]}]][out[s]] = f[NextOut(s)] + g[s \ {NextOut(s)}]
    <3>1. NextOut(s) \in D /\ s \ {NextOut(s)} \in SUBSET D
      BY <1>2, <2>1
    <3> QED BY <1>2, <2>1, <3>1
  <2> HIDE DEF op, out
  <2>2. g = [s \in SUBSET D |-> g[s]]
    OBVIOUS
  <2>3. \A s \in SUBSET D : g[s] = IF s = {} THEN 0 ELSE f[NextOut(s)] + g[s \ {NextOut(s)}]
    <3>1. \A s \in SUBSET D : g[s] = IF s = {} THEN 0 ELSE op[g[s \ {out[s]}]][out[s]]
      BY <1>3, Zenon DEF Folds
    <3> QED BY <2>1, <3>1
  <2> QED BY <2>2, <2>3, Zenon DEF AddsUp
<1> DEFINE h == CHOOSE e : AddsUp(e, D, f)
<1>5. SumFunctionOnSet(f, D) = h[D]
  BY Zenon DEF SumFunctionOnSet, FoldFunctionOnSet, MapThenFoldSet, AddsUp, NextOut
<1>6. AddsUp(h, D, f)
  BY <1>4, Zenon
<1> HIDE DEF h
<1>7. \A s \in SUBSET D : h[s] = IF s = {} THEN 0 ELSE f[NextOut(s)] + h[s \ {NextOut(s)}]
  BY <1>6, Zenon DEF AddsUp
<1>8. \A s \in SUBSET D : h[s] \in Nat
  <2> DEFINE T == {n \in Nat : \E s \in SUBSET D : Cardinality(s) = n /\ h[s] \notin Nat}
  <2>1. \A s \in SUBSET D : IsFiniteSet(s) /\ Cardinality(s) \in Nat
    BY FS_Subset, FS_CardinalityType
  <2>2. ASSUME T # {} PROVE FALSE
    <3>1. PICK n \in T : \A m \in T : n <= m
      <4> HIDE DEF T
      <4>1. T \in SUBSET Nat
        BY DEF T
      <4> QED BY <2>2, <4>1, LeastNatural
    <3>2. PICK s \in SUBSET D : Cardinality(s) = n /\ h[s] \notin Nat
      OBVIOUS
    <3>3. s # {}
      <4>1. s = {} => h[s] = 0
        BY <1>7, Zenon
      <4> QED BY <3>2, <4>1
    <3>4. NextOut(s) \in s
      BY <1>2, <3>3
    <3>5. Cardinality(s \ {NextOut(s)}) = n - 1 /\ n \in Nat /\ s \ {NextOut(s)} \in SUBSET D
      BY <2>1, <3>2, <3>4, FS_RemoveElement
    <3>6. n - 1 \in Nat
      BY <2>1, <3>5
    <3>7. h[s \ {NextOut(s)}] \in Nat
      BY <3>1, <3>5, <3>6
    <3>8. f[NextOut(s)] \in Nat
      BY <3>4
    <3>9. h[s] = f[NextOut(s)] + h[s \ {NextOut(s)}]
      BY <1>7, <3>3, Zenon
    <3> QED BY <3>2, <3>7, <3>8, <3>9
  <2> QED BY <2>1, <2>2
<1>9. h = [s \in SUBSET D |-> h[s]]
  BY <1>6, Zenon DEF AddsUp
<1> QED BY <1>5, <1>6, <1>8, <1>9

(* More of each, more of all.                                              *)
LEMMA SumNotLess ==
  ASSUME NEW D, IsFiniteSet(D), NEW f, NEW g,
         \A x \in D : f[x] \in Nat /\ g[x] \in Nat /\ f[x] <= g[x]
  PROVE  /\ SumFunctionOnSet(f, D) \in Nat /\ SumFunctionOnSet(g, D) \in Nat
         /\ SumFunctionOnSet(f, D) <= SumFunctionOnSet(g, D)
<1>1. PICK h \in [SUBSET D -> Nat] : AddsUp(h, D, f) /\ SumFunctionOnSet(f, D) = h[D]
  BY SumOnSet
<1>2. PICK k \in [SUBSET D -> Nat] : AddsUp(k, D, g) /\ SumFunctionOnSet(g, D) = k[D]
  BY SumOnSet
<1>3. \A s \in SUBSET D : /\ h[s] = IF s = {} THEN 0 ELSE f[NextOut(s)] + h[s \ {NextOut(s)}]
                          /\ k[s] = IF s = {} THEN 0 ELSE g[NextOut(s)] + k[s \ {NextOut(s)}]
  BY <1>1, <1>2, Zenon DEF AddsUp
<1> DEFINE T == {n \in Nat : \E s \in SUBSET D : Cardinality(s) = n /\ ~(h[s] <= k[s])}
<1>4. \A s \in SUBSET D : IsFiniteSet(s) /\ Cardinality(s) \in Nat
  BY FS_Subset, FS_CardinalityType
<1>5. ASSUME T # {} PROVE FALSE
  <2>1. PICK n \in T : \A m \in T : n <= m
    <3> HIDE DEF T
    <3>1. T \in SUBSET Nat
      BY DEF T
    <3> QED BY <1>5, <3>1, LeastNatural
  <2>2. PICK s \in SUBSET D : Cardinality(s) = n /\ ~(h[s] <= k[s])
    OBVIOUS
  <2>3. s # {}
    <3>1. s = {} => h[s] = 0 /\ k[s] = 0
      BY <1>3, Zenon
    <3> QED BY <2>2, <3>1
  <2> PICK x : x = NextOut(s)
    OBVIOUS
  <2> PICK r : r = s \ {x}
    OBVIOUS
  <2>4. x \in s
    BY <2>3, Zenon DEF NextOut
  <2>5. Cardinality(r) = n - 1 /\ n \in Nat /\ r \in SUBSET D
    BY <1>4, <2>2, <2>4, FS_RemoveElement
  <2>6. n - 1 \in Nat
    BY <1>4, <2>5
  <2>7. h[r] <= k[r]
    BY <2>1, <2>5, <2>6
  <2>8. h[s] = f[x] + h[r] /\ k[s] = g[x] + k[r]
    BY <1>3, <2>3, Zenon
  <2>9. f[x] \in Nat /\ g[x] \in Nat /\ f[x] <= g[x] /\ h[r] \in Nat /\ k[r] \in Nat
    BY <2>4, <2>5
  <2> QED BY <2>2, <2>7, <2>8, <2>9
<1>6. h[D] <= k[D]
  <2>1. D \in SUBSET D
    OBVIOUS
  <2> QED BY <1>4, <1>5, <2>1
<1> QED BY <1>1, <1>2, <1>6

(* The order does not matter.                                              *)
InAnyOrder(h, D, f) ==
  h[{}] = 0 /\ \A s \in SUBSET D : \A x \in s : h[s] = f[x] + h[s \ {x}]

LEMMA AnyOrder ==
  ASSUME NEW D, IsFiniteSet(D), NEW f \in [D -> Nat], NEW h \in [SUBSET D -> Nat], AddsUp(h, D, f)
  PROVE  InAnyOrder(h, D, f)
<1> DEFINE Fine(s) == \A x \in s : h[s] = f[x] + h[s \ {x}]
           T == {n \in Nat : \E s \in SUBSET D : Cardinality(s) = n /\ ~Fine(s)}
<1>1. \A s \in SUBSET D : h[s] = IF s = {} THEN 0 ELSE f[NextOut(s)] + h[s \ {NextOut(s)}]
  BY DEF AddsUp
<1>2. h[{}] = 0
  BY <1>1
<1>3. \A s \in SUBSET D : IsFiniteSet(s) /\ Cardinality(s) \in Nat
  BY FS_Subset, FS_CardinalityType
<1>4. ASSUME T # {} PROVE FALSE
  <2>1. PICK n \in T : \A m \in T : n <= m
    <3> HIDE DEF T
    <3>1. T \in SUBSET Nat
      BY DEF T
    <3> QED BY <1>4, <3>1, LeastNatural
  <2>2. PICK s \in SUBSET D : Cardinality(s) = n /\ ~Fine(s)
    OBVIOUS
  <2>3. \A r \in SUBSET D : Cardinality(r) < n => Fine(r)
    BY <1>3, <2>1
  <2>4. PICK x \in s : h[s] # f[x] + h[s \ {x}]
    BY <2>2
  <2> DEFINE p == NextOut(s)
  <2>5. p \in s /\ p # x /\ h[s] = f[p] + h[s \ {p}]
    <3>1. NextOut(s) \in s
      BY <2>4, Zenon DEF NextOut
    <3> QED BY <1>1, <2>4, <3>1
  <2> HIDE DEF p, Fine
  <2>6. \A y \in s : s \ {y} \in SUBSET D /\ Fine(s \ {y})
    <3> SUFFICES ASSUME NEW y \in s PROVE s \ {y} \in SUBSET D /\ Fine(s \ {y})
      OBVIOUS
    <3>1. Cardinality(s \ {y}) = n - 1 /\ n \in Nat
      BY <1>3, <2>2, FS_RemoveElement
    <3> QED BY <2>3, <3>1
  <2>7. h[s \ {p}] = f[x] + h[(s \ {p}) \ {x}]
    BY <2>5, <2>6 DEF Fine
  <2>8. h[s \ {x}] = f[p] + h[(s \ {x}) \ {p}]
    BY <2>5, <2>6 DEF Fine
  <2>9. (s \ {p}) \ {x} = (s \ {x}) \ {p} /\ (s \ {x}) \ {p} \in SUBSET D
    OBVIOUS
  <2>10. f[x] \in Nat /\ f[p] \in Nat /\ h[(s \ {x}) \ {p}] \in Nat
    BY <2>5, <2>9
  <2>11. h[(s \ {p}) \ {x}] = h[(s \ {x}) \ {p}]
    BY <2>9, Zenon
  <2>12. h[s] \in Nat /\ h[s \ {p}] \in Nat /\ h[s \ {x}] \in Nat
    BY <2>4, <2>5, <2>6
  <2> DEFINE i == h[s]
             j == h[s \ {x}]
             k == h[s \ {p}]
             l == h[(s \ {x}) \ {p}]
             b == f[x]
             a == f[p]
  <2>13. i = a + k /\ k = b + l /\ j = a + l /\ i # b + j
    BY <2>4, <2>5, <2>7, <2>8, <2>11, Zenon
  <2>14. {a, b, i, j, k, l} \subseteq Nat
    BY <2>10, <2>12
  <2> HIDE DEF a, b, i, j, k, l
  <2> QED BY <2>13, <2>14
<1>5. \A s \in SUBSET D : Fine(s)
  BY <1>3, <1>4
<1> QED BY <1>2, <1>5 DEF InAnyOrder
=============================================================================
