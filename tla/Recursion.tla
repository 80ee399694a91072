------------------------------ MODULE Recursion -------------------------------
(***************************************************************************)
(* Two facts about the natural numbers that proofs of several components   *)
(* need: a set of them has a least member, and a function on them may be   *)
(* defined from its first value and the step from one value to the next.   *)
(***************************************************************************)
EXTENDS Integers, WellFoundedInduction, TLAPS

(* There is no descent without end below a natural number.                *)
LEMMA LeastMember ==
  ASSUME NEW S \in SUBSET Nat, S # {}
  PROVE  \E x \in S : \A y \in S : x <= y
<1>. DEFINE R == {ss \in Nat \X Nat : ss[1] < ss[2]}
<1>1. OpToRel(<, Nat) = R
  BY Zenon DEF OpToRel
<1>2. IsWellFoundedOn(R, Nat)
  BY <1>1, NatLessThanWellFounded, Zenon
<1>. HIDE DEF R
<1>3. PICK x \in S : \A y \in S : <<y, x>> \notin R
  BY <1>2, WFMin
<1>4. ASSUME NEW y \in S, y < x PROVE FALSE
  <2>1. <<y, x>> \in Nat \X Nat /\ <<y, x>>[1] = y /\ <<y, x>>[2] = x
    OBVIOUS
  <2>2. <<y, x>> \in R
    BY <1>4, <2>1, Zenon DEF R
  <2>. QED
    BY <1>3, <2>2
<1>. QED
  BY <1>4

(* The values a recursion gives up to n.                                   *)
Unrolls(f, n, first, next) ==
  /\ f[0] = first
  /\ \A i \in 1..n : f[i] = next[f[i - 1]]

(* There are such values up to every n: a least n without would follow one *)
(* that has them.                                                          *)
LEMMA UnrollsExists ==
  ASSUME NEW V, NEW first \in V, NEW next \in [V -> V], NEW n \in Nat
  PROVE  \E f \in [0..n -> V] : Unrolls(f, n, first, next)
<1>. DEFINE Fails == {m \in Nat : ~\E f \in [0..m -> V] : Unrolls(f, m, first, next)}
<1>1. SUFFICES ASSUME Fails # {} PROVE FALSE
  OBVIOUS
<1>2. PICK m \in Fails : \A k \in Fails : m <= k
  BY <1>1, LeastMember
<1>3. CASE m = 0
  <2>. DEFINE f == [i \in 0..0 |-> first]
  <2>1. f \in [0..m -> V] /\ Unrolls(f, m, first, next)
    BY <1>3 DEF Unrolls
  <2>. QED
    BY <1>2, <2>1
<1>4. CASE m # 0
  <2>1. m - 1 \in Nat /\ m - 1 \notin Fails
    BY <1>2, <1>4
  <2>2. PICK f \in [0..(m - 1) -> V] : Unrolls(f, m - 1, first, next)
    BY <2>1
  <2>. DEFINE g == [i \in 0..m |-> IF i = m THEN next[f[m - 1]] ELSE f[i]]
  <2>3. m \in Nat /\ f[m - 1] \in V
    BY <2>1
  <2>4. g \in [0..m -> V]
    BY <2>3
  <2>5. /\ g[0] = first
        /\ \A i \in 1..m : g[i] = next[g[i - 1]]
    BY <1>4, <2>2, <2>3 DEF Unrolls
  <2>. HIDE DEF g
  <2>. QED
    BY <1>2, <2>4, <2>5 DEF Unrolls
<1>. QED
  BY <1>3, <1>4

(* They are the same however far the recursion is unrolled.                *)
LEMMA UnrollsUnique ==
  ASSUME NEW first, NEW next, NEW m \in Nat, NEW n \in Nat, NEW f, NEW g,
         Unrolls(f, m, first, next), Unrolls(g, n, first, next), m <= n
  PROVE  f[m] = g[m]
<1>. DEFINE Differ == {i \in Nat : i <= m /\ f[i] # g[i]}
<1>1. SUFFICES ASSUME Differ # {} PROVE FALSE
  OBVIOUS
<1>2. PICK i \in Differ : \A j \in Differ : i <= j
  BY <1>1, LeastMember
<1>3. i # 0
  BY DEF Unrolls
<1>4. i - 1 \in Nat /\ i - 1 \notin Differ /\ i \in 1..m /\ i \in 1..n
  BY <1>2, <1>3
<1>5. f[i - 1] = g[i - 1] /\ f[i] = next[f[i - 1]] /\ g[i] = next[g[i - 1]]
  BY <1>4 DEF Unrolls
<1>. QED
  BY <1>2, <1>5

(* So the recursion defines a function.                                    *)
Recurses(r, first, next) ==
  /\ r[0] = first
  /\ \A n \in Nat : r[n + 1] = next[r[n]]

LEMMA RecursionExists ==
  ASSUME NEW V, NEW first \in V, NEW next \in [V -> V]
  PROVE  \E r \in [Nat -> V] : Recurses(r, first, next)
<1>. DEFINE F(n) == CHOOSE f \in [0..n -> V] : Unrolls(f, n, first, next)
            r == [n \in Nat |-> F(n)[n]]
<1>1. ASSUME NEW n \in Nat PROVE F(n) \in [0..n -> V] /\ Unrolls(F(n), n, first, next)
  BY UnrollsExists
<1>. HIDE DEF F
<1>2. ASSUME NEW n \in Nat PROVE F(n)[n] \in V /\ F(n + 1)[n] = F(n)[n]
  <2>1. n + 1 \in Nat /\ n <= n + 1 /\ n \in 0..n
    OBVIOUS
  <2>2. F(n) \in [0..n -> V] /\ Unrolls(F(n), n, first, next) /\ Unrolls(F(n + 1), n + 1, first, next)
    BY <1>1, <2>1
  <2>. QED
    BY <2>1, <2>2, UnrollsUnique
<1>3. r \in [Nat -> V]
  BY <1>2
<1>4. r[0] = first
  BY <1>1 DEF Unrolls
<1>5. ASSUME NEW n \in Nat PROVE r[n + 1] = next[r[n]]
  <2>1. n + 1 \in Nat /\ n + 1 \in 1..(n + 1) /\ (n + 1) - 1 = n
    OBVIOUS
  <2>2. F(n + 1)[n + 1] = next[F(n + 1)[n]]
    BY <1>1, <2>1 DEF Unrolls
  <2>. QED
    BY <1>2, <2>1, <2>2
<1>. HIDE DEF r
<1>. QED
  BY <1>3, <1>4, <1>5 DEF Recurses
=============================================================================
