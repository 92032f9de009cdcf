---------------------------- MODULE Recall_proofs ----------------------------
(***************************************************************************)
(* Proofs about Recall and the lineage it reads, for every set of          *)
(* memories, links, writes, verdicts and recalls.  Cycles, packing, the    *)
(* lineage query and the recency score are computed by folds and recursive *)
(* functions: what they compute is proved by induction on numbers, from    *)
(* the least number of a set (LeastNumber).                                *)
(*                                                                         *)
(*   1. induction, recursion and folds over finite sets                    *)
(*   2. components, what overrides what, and the cycle search              *)
(*   3. which versions speak for a chain                                   *)
(*   4. ranking and packing                                                *)
(*   5. the invariant of a recall, and what it promises                    *)
(*   6. boundaries in time                                                 *)
(***************************************************************************)
EXTENDS Recall, FiniteSetTheorems, FunctionTheorems, SequenceTheorems,
        WellFoundedInduction, TLAPS

-----------------------------------------------------------------------------
(* Induction, recursion and folds.                                         *)

LEMMA LeastNumber ==
  ASSUME NEW T \in SUBSET Nat, T # {}
  PROVE  \E n \in T : \A m \in T : n <= m
<1>1. PICK n \in T : \A m \in T : ~ (<<m, n>> \in OpToRel(<, Nat))
  BY NatLessThanWellFounded, WFMin
<1>2. ASSUME NEW m \in T, ~ (n <= m) PROVE FALSE
  <2>1. <<m, n>> \in Nat \X Nat /\ m < n
    BY <1>2
  <2>2. <<m, n>> \in OpToRel(<, Nat)
    BY <2>1 DEF OpToRel
  <2> QED BY <2>2, <1>1
<1> QED
  BY <1>2

(* Induction, for a set of numbers.                                        *)
LEMMA NumbersByInduction ==
  ASSUME NEW T \in SUBSET Nat, 0 \in T, \A n \in T : n + 1 \in T
  PROVE  T = Nat
<1> SUFFICES ASSUME T # Nat PROVE FALSE
  OBVIOUS
<1>1. PICK n \in Nat \ T : \A m \in Nat \ T : n <= m
  BY LeastNumber
<1>2. n # 0 /\ n - 1 \in Nat
  BY <1>1
<1>3. n - 1 \in T
  BY <1>1, <1>2
<1> QED
  BY <1>1, <1>3

(* g is base at 0, and F says how it goes on from one number to the next.  *)
Iterates(g, V, base, F) ==
  /\ g \in [Nat -> V]
  /\ g[0] = base
  /\ \A n \in Nat : g[n + 1] = F[<<n + 1, g[n]>>]

LEMMA RecursionOnNumbers ==
  ASSUME NEW V, NEW base \in V, NEW F \in [Nat \X V -> V]
  PROVE  \E g : Iterates(g, V, base, F)
<1> DEFINE Good(n, g) == /\ g \in [0..n -> V]
                         /\ g[0] = base
                         /\ \A k \in 0..n : k # n => g[k + 1] = F[<<k + 1, g[k]>>]
<1>1. \A n \in Nat : \E g : Good(n, g)
  <2> DEFINE T == {n \in Nat : \E g : Good(n, g)}
  <2>1. 0 \in T
    <3>1. Good(0, [k \in 0..0 |-> base])
      OBVIOUS
    <3> QED
      BY <3>1
  <2>2. ASSUME NEW n \in T PROVE n + 1 \in T
    <3>1. PICK g : Good(n, g)
      OBVIOUS
    <3> DEFINE h == [k \in 0..(n + 1) |-> IF k = n + 1 THEN F[<<n + 1, g[n]>>] ELSE g[k]]
    <3>2. g[n] \in V /\ F[<<n + 1, g[n]>>] \in V
      BY <3>1
    <3>3. \A k \in 0..n : g[k] \in V /\ h[k] = g[k]
      BY <3>1
    <3>4. h \in [0..(n + 1) -> V] /\ h[0] = base
      BY <3>1, <3>2, <3>3
    <3>5. ASSUME NEW k \in 0..(n + 1), k # n + 1 PROVE h[k + 1] = F[<<k + 1, h[k]>>]
      <4>1. k \in 0..n /\ h[k] = g[k]
        BY <3>3, <3>5
      <4>2. CASE k = n
        <5>1. h[n + 1] = F[<<n + 1, g[n]>>]
          OBVIOUS
        <5> QED
          BY <4>1, <4>2, <5>1
      <4>3. CASE k # n
        <5>1. k + 1 \in 0..n /\ h[k + 1] = g[k + 1]
          BY <3>3, <4>1, <4>3
        <5> QED
          BY <3>1, <4>1, <4>3, <5>1
      <4> QED
        BY <4>2, <4>3
    <3>6. Good(n + 1, h)
      BY <3>4, <3>5
    <3> HIDE DEF Good, h
    <3> QED
      BY <3>6
  <2>3. T = Nat
    <3> HIDE DEF T
    <3>1. T \in SUBSET Nat
      BY DEF T
    <3> QED
      BY <2>1, <2>2, <3>1, NumbersByInduction
  <2> QED
    BY <2>3
<1>2. ASSUME NEW n \in Nat, NEW g, NEW h, Good(n, g), Good(n + 1, h)
      PROVE  \A k \in 0..n : g[k] = h[k]
  <2> DEFINE T == {k \in Nat : k <= n => g[k] = h[k]}
  <2>1. 0 \in T
    BY <1>2
  <2>2. ASSUME NEW k \in T PROVE k + 1 \in T
    <3>1. CASE k + 1 <= n
      <4>1. k \in 0..n /\ k # n /\ k # n + 1 /\ g[k] = h[k]
        BY <2>2, <3>1
      <4>2. g[k + 1] = F[<<k + 1, g[k]>>] /\ h[k + 1] = F[<<k + 1, h[k]>>]
        BY <1>2, <4>1
      <4> QED
        BY <4>1, <4>2
    <3> QED
      BY <3>1
  <2>3. T = Nat
    <3> HIDE DEF T
    <3>1. T \in SUBSET Nat
      BY DEF T
    <3> QED
      BY <2>1, <2>2, <3>1, NumbersByInduction
  <2> QED
    BY <2>3
<1> DEFINE at(n) == CHOOSE g : Good(n, g)
           f == [n \in Nat |-> at(n)[n]]
<1>3. \A n \in Nat : Good(n, at(n))
  BY <1>1
<1>4. f \in [Nat -> V] /\ f[0] = base
  <2> HIDE DEF at
  <2>1. \A n \in Nat : at(n)[n] \in V
    BY <1>3
  <2>2. at(0)[0] = base
    BY <1>3
  <2> QED
    BY <2>1, <2>2
<1>5. ASSUME NEW n \in Nat PROVE f[n + 1] = F[<<n + 1, f[n]>>]
  <2> HIDE DEF at
  <2>1. at(n)[n] = at(n + 1)[n]
    <3>1. Good(n, at(n)) /\ Good(n + 1, at(n + 1))
      BY <1>3
    <3> HIDE DEF Good
    <3>2. \A k \in 0..n : at(n)[k] = at(n + 1)[k]
      BY <1>2, <3>1
    <3> QED
      BY <3>2
  <2>2. at(n + 1)[n + 1] = F[<<n + 1, at(n + 1)[n]>>]
    BY <1>3
  <2> QED
    BY <2>1, <2>2
<1> QED
  BY <1>4, <1>5 DEF Iterates

(* g is what a fold of F makes of the parts of X, taking out c of a part.  *)
FoldsParts(g, X, V, base, F, c) ==
  /\ g \in [SUBSET X -> V]
  /\ \A t \in SUBSET X : g[t] = IF t = {} THEN base ELSE F[<<c[t], g[t \ {c[t]}]>>]
(* A fold over the parts of a finite set satisfies its equation, whichever *)
(* member c takes out of a part.                                           *)
LEMMA FoldsExist ==
  ASSUME NEW X, IsFiniteSet(X), NEW V, NEW base \in V, NEW F \in [X \X V -> V],
         NEW c, \A t \in SUBSET X : t # {} => c[t] \in t
  PROVE  \E g : FoldsParts(g, X, V, base, F, c)
<1> DEFINE onward(g) == [t \in SUBSET X |->
                         IF t = {} THEN base ELSE F[<<c[t], g[t \ {c[t]}]>>]]
           W == [SUBSET X -> V]
           H == [p \in Nat \X W |-> onward(p[2])]
           start == [t \in SUBSET X |-> base]
<1>1. ASSUME NEW g \in W PROVE onward(g) \in W
  <2>1. ASSUME NEW t \in SUBSET X, t # {} PROVE F[<<c[t], g[t \ {c[t]}]>>] \in V
    <3>1. t \ {c[t]} \in SUBSET X /\ c[t] \in X
      BY <2>1
    <3> QED
      BY <3>1
  <2> QED
    BY <2>1
<1>2. start \in W /\ H \in [Nat \X W -> W]
  BY <1>1
<1>3. PICK G : Iterates(G, W, start, H)
  <2> HIDE DEF W, H, start
  <2> QED
    BY <1>2, RecursionOnNumbers
<1>4. \A n \in Nat : G[n] \in W /\ G[n + 1] = onward(G[n])
  <2> HIDE DEF W, onward
  <2>1. ASSUME NEW n \in Nat PROVE G[n] \in W /\ H[<<n + 1, G[n]>>] = onward(G[n])
    <3>1. G[n] \in W
      BY <1>3 DEF Iterates
    <3>2. <<n + 1, G[n]>> \in Nat \X W
      BY <3>1
    <3> QED
      BY <3>1, <3>2
  <2> QED
    BY <1>3, <2>1 DEF Iterates
<1> HIDE DEF W, H
<1> DEFINE Settled(n) == \A t \in SUBSET X : Cardinality(t) <= n => G[n + 1][t] = G[n][t]
           T == {n \in Nat : Settled(n)}
<1>5. \A t \in SUBSET X : IsFiniteSet(t) /\ Cardinality(t) \in Nat
  BY FS_Subset, FS_CardinalityType
<1>6. 0 \in T
  <2> SUFFICES ASSUME NEW t \in SUBSET X, Cardinality(t) <= 0 PROVE G[0 + 1][t] = G[0][t]
    OBVIOUS
  <2>1. t = {}
    BY <1>5, FS_EmptySet
  <2> QED
    BY <2>1, <1>3, <1>4 DEF Iterates
<1>7. ASSUME NEW n \in T PROVE n + 1 \in T
  <2> SUFFICES ASSUME NEW t \in SUBSET X, Cardinality(t) <= n + 1
               PROVE  G[n + 1 + 1][t] = G[n + 1][t]
    OBVIOUS
  <2>1. n \in Nat /\ n + 1 \in Nat /\ Settled(n)
    OBVIOUS
  <2>2. G[n + 1 + 1] = onward(G[n + 1]) /\ G[n + 1] = onward(G[n])
    BY <1>4, <2>1
  <2>3. CASE t = {}
    BY <2>2, <2>3
  <2>4. CASE t # {}
    <3>1. t \ {c[t]} \in SUBSET X /\ c[t] \in t
      BY <2>4
    <3>2. Cardinality(t \ {c[t]}) <= n
      BY <1>5, <2>1, <3>1, FS_RemoveElement
    <3>3. G[n + 1][t \ {c[t]}] = G[n][t \ {c[t]}]
      BY <2>1, <3>1, <3>2
    <3>4. /\ onward(G[n + 1])[t] = F[<<c[t], G[n + 1][t \ {c[t]}]>>]
          /\ onward(G[n])[t] = F[<<c[t], G[n][t \ {c[t]}]>>]
      BY <2>4
    <3> HIDE DEF onward
    <3> QED
      BY <2>2, <3>3, <3>4
  <2> QED
    BY <2>3, <2>4
<1>8. T = Nat
  <2>1. T \in SUBSET Nat
    OBVIOUS
  <2> HIDE DEF T
  <2> QED
    BY <1>6, <1>7, <2>1, NumbersByInduction
<1> DEFINE N == Cardinality(X)
<1>9. N \in Nat /\ G[N] \in W /\ G[N + 1] = onward(G[N])
  BY <1>4, FS_CardinalityType
<1>10. ASSUME NEW t \in SUBSET X PROVE G[N + 1][t] = G[N][t]
  <2>1. Cardinality(t) <= N
    BY FS_Subset
  <2>2. N \in T
    BY <1>8, <1>9
  <2> QED
    BY <2>1, <2>2
<1>11. \A t \in SUBSET X : G[N][t] = onward(G[N])[t]
  BY <1>9, <1>10
<1>12. \A t \in SUBSET X : G[N][t] = IF t = {} THEN base ELSE F[<<c[t], G[N][t \ {c[t]}]>>]
  BY <1>11
<1>13. G[N] \in [SUBSET X -> V]
  BY <1>9 DEF W
<1> HIDE DEF onward, N
<1>14. FoldsParts(G[N], X, V, base, F, c)
  BY <1>12, <1>13 DEF FoldsParts
<1> QED
  BY <1>14

(* A finite set has a member that a measure makes the greatest.            *)
LEMMA GreatestMember ==
  ASSUME NEW U, U # {}, NEW m \in Nat, NEW d \in [U -> 0..m]
  PROVE  \E k \in U : \A l \in U : d[l] <= d[k]
<1> DEFINE T == {m - d[k] : k \in U}
<1>1. T \in SUBSET Nat /\ T # {}
  OBVIOUS
<1>2. PICK n \in T : \A x \in T : n <= x
  <2> HIDE DEF T
  <2> QED
    BY <1>1, LeastNumber
<1>3. PICK k \in U : n = m - d[k]
  OBVIOUS
<1>4. ASSUME NEW l \in U PROVE d[l] <= d[k]
  <2>1. m - d[k] <= m - d[l]
    BY <1>2, <1>3
  <2>2. d[l] \in 0..m /\ d[k] \in 0..m
    OBVIOUS
  <2> QED
    BY <2>1, <2>2
<1> QED
  BY <1>4

-----------------------------------------------------------------------------
(* What is connected.                                                      *)

LEMMA ComponentIsConnected ==
  ASSUME NEW R, NEW s, NEW i \in R
  PROVE  /\ i \in Component(R, s, i)
         /\ Component(R, s, i) \subseteq R
         /\ Neighbours(R, s, Component(R, s, i)) \subseteq Component(R, s, i)
         /\ \A C \in SUBSET R : i \in C /\ Neighbours(R, s, C) \subseteq C
              => Component(R, s, i) \subseteq C
<1> DEFINE K == Component(R, s, i)
<1>1. i \in K /\ K \subseteq R
  BY DEF Component
<1>2. ASSUME NEW C \in SUBSET R, i \in C, Neighbours(R, s, C) \subseteq C
      PROVE  K \subseteq C
  BY <1>2 DEF Component
<1>3. ASSUME NEW j \in Neighbours(R, s, K) PROVE j \in K
  <2>1. j \in R
    BY DEF Neighbours
  <2>2. ASSUME NEW C \in SUBSET R, i \in C, Neighbours(R, s, C) \subseteq C
        PROVE  j \in C
    <3>1. K \subseteq C
      BY <1>2, <2>2
    <3>2. j \in Neighbours(R, s, C)
      BY <3>1 DEF Neighbours
    <3> QED
      BY <2>2, <3>2
  <2> QED
    BY <2>1, <2>2 DEF Component
<1> QED
  BY <1>1, <1>2, <1>3

(* Of two members of a component each is in the other's.                   *)
LEMMA ComponentsAreDisjoint ==
  ASSUME NEW R, NEW s, NEW i \in R, NEW j \in Component(R, s, i)
  PROVE  Component(R, s, j) = Component(R, s, i)
<1> DEFINE K == Component(R, s, i)
           D == {k \in K : i \in Component(R, s, k)}
<1>1. j \in R /\ K \subseteq R /\ i \in K /\ Neighbours(R, s, K) \subseteq K
  BY ComponentIsConnected
<1>2. Component(R, s, j) \subseteq K
  <2> HIDE DEF K
  <2> QED
    BY <1>1, ComponentIsConnected DEF K
<1>3. ASSUME NEW k \in D, NEW l \in R, s[k] = l \/ s[l] = k PROVE l \in D
  <2>1. k \in R /\ i \in Component(R, s, k) /\ k \in K
    BY <1>1
  <2>2. l \in K
    BY <1>1, <1>3, <2>1 DEF Neighbours
  <2>3. k \in Component(R, s, l)
    <3>1. l \in Component(R, s, l) /\ Neighbours(R, s, Component(R, s, l)) \subseteq Component(R, s, l)
      BY ComponentIsConnected
    <3> QED
      BY <1>3, <2>1, <3>1 DEF Neighbours
  <2>4. Component(R, s, k) \subseteq Component(R, s, l)
    BY <2>1, <2>3, ComponentIsConnected
  <2> QED
    BY <2>1, <2>2, <2>4
<1>4. D \in SUBSET R /\ i \in D /\ Neighbours(R, s, D) \subseteq D
  BY <1>1, <1>3 DEF Neighbours
<1>5. K \subseteq D
  <2> HIDE DEF D
  <2> QED
    BY <1>4, ComponentIsConnected
<1>6. i \in Component(R, s, j)
  BY <1>5
<1>7. K \subseteq Component(R, s, j)
  BY <1>1, <1>6, ComponentIsConnected
<1> QED
  BY <1>2, <1>7

-----------------------------------------------------------------------------
(* What overrides.                                                         *)

LEMMA OverridesSteps ==
  ASSUME NEW R, NEW s, NEW i \in R
  PROVE  /\ s[i] \in R => Overrides(R, s, i, s[i])
         /\ \A j \in R : Overrides(R, s, i, j) /\ s[j] \in R => Overrides(R, s, i, s[j])
         /\ \A j : Overrides(R, s, i, j) => j \in Component(R, s, i)
         /\ \A j : Overrides(R, s, i, j) => j \in R /\ \E k \in R : s[k] = j /\ (k = i \/ Overrides(R, s, i, k))
<1>1. s[i] \in R => Overrides(R, s, i, s[i])
  BY DEF Overrides
<1>2. ASSUME NEW j \in R, Overrides(R, s, i, j), s[j] \in R PROVE Overrides(R, s, i, s[j])
  BY <1>2 DEF Overrides
<1>3. ASSUME NEW j, Overrides(R, s, i, j) PROVE j \in Component(R, s, i)
  <2> DEFINE K == Component(R, s, i)
  <2>1. K \in SUBSET R /\ i \in K /\ Neighbours(R, s, K) \subseteq K
    BY ComponentIsConnected
  <2>2. \A k \in K \cup {i} : s[k] \in R => s[k] \in K
    BY <2>1 DEF Neighbours
  <2> QED
    BY <1>3, <2>1, <2>2 DEF Overrides
<1>4. ASSUME NEW j, Overrides(R, s, i, j)
      PROVE  j \in R /\ \E k \in R : s[k] = j /\ (k = i \/ Overrides(R, s, i, k))
  <2> DEFINE C == {l \in R : \E k \in R : s[k] = l /\ (k = i \/ Overrides(R, s, i, k))}
  <2>1. ASSUME NEW k \in C \cup {i}, s[k] \in R PROVE s[k] \in C
    <3>1. k \in R
      OBVIOUS
    <3>2. k = i \/ Overrides(R, s, i, k)
      BY <1>1, <1>2
    <3> QED
      BY <2>1, <3>1, <3>2
  <2>2. C \in SUBSET R
    OBVIOUS
  <2>3. j \in C
    <3> HIDE DEF C
    <3> QED
      BY <1>4, <2>1, <2>2 DEF Overrides
  <2> QED
    BY <2>3
<1> QED
  BY <1>1, <1>2, <1>3, <1>4

LEMMA OverridesIsTransitive ==
  ASSUME NEW R, NEW s, NEW i \in R, NEW j \in R, NEW k,
         s[i] = j \/ Overrides(R, s, i, j), Overrides(R, s, j, k)
  PROVE  Overrides(R, s, i, k)
<1>1. Overrides(R, s, i, j)
  BY OverridesSteps
<1> SUFFICES ASSUME NEW C \in SUBSET R, \A l \in C \cup {i} : s[l] \in R => s[l] \in C
             PROVE  k \in C
  BY DEF Overrides
<1>2. j \in C
  BY <1>1 DEF Overrides
<1>3. \A l \in C \cup {j} : s[l] \in R => s[l] \in C
  BY <1>2
<1> QED
  BY <1>3 DEF Overrides

-----------------------------------------------------------------------------
(* The cycle search.                                                       *)

(* The nodes a walk reads, one after the other.                            *)
Reads(node, R, s, start) ==
  /\ node[0] = start
  /\ \A n \in 1..Cardinality(R) : node[n] = IF node[n - 1] \in R THEN s[node[n - 1]] ELSE None

OnPath(node, R, done, n) ==
  /\ \A k \in 0..n : node[k] \in R \ done
  /\ \A j, k \in 0..n : node[j] = node[k] => j = k

LEMMA WalkReads ==
  ASSUME NEW R, IsFiniteSet(R), NEW s, NEW start, NEW done
  PROVE  \E node : LET steps == {n \in 0..Cardinality(R) : OnPath(node, R, done, n)} IN
           /\ Reads(node, R, s, start)
           /\ Walk(R, s, start, done) =
                [path |-> [n \in steps |-> node[n]],
                 stop |-> IF steps = {} THEN start ELSE node[Cardinality(steps)]]
<1> DEFINE N == Cardinality(R)
           V == R \cup {start, None} \cup {s[i] : i \in R}
           F == [p \in Nat \X V |-> IF p[2] \in R THEN s[p[2]] ELSE None]
           Eq(f) == f = [n \in 0..N |-> IF n = 0 THEN start
                           ELSE LET p == f[n - 1] IN IF p \in R THEN s[p] ELSE None]
<1>1. N \in Nat
  BY FS_CardinalityType
<1>2. start \in V /\ F \in [Nat \X V -> V]
  OBVIOUS
<1>3. PICK g : Iterates(g, V, start, F)
  <2> HIDE DEF V, F
  <2> QED
    BY <1>2, RecursionOnNumbers
<1> DEFINE h == [n \in 0..N |-> g[n]]
<1>4. Eq(h)
  <2>1. ASSUME NEW n \in 0..N, n # 0
        PROVE  h[n] = LET p == h[n - 1] IN IF p \in R THEN s[p] ELSE None
    <3>1. n - 1 \in Nat /\ n - 1 \in 0..N /\ (n - 1) + 1 = n
      BY <1>1, <2>1
    <3>2. g[n - 1] \in V /\ g[(n - 1) + 1] = F[<<(n - 1) + 1, g[n - 1]>>]
      BY <1>3, <3>1 DEF Iterates
    <3>3. <<n, g[n - 1]>> \in Nat \X V
      BY <1>1, <3>2
    <3>4. F[<<n, g[n - 1]>>] = IF g[n - 1] \in R THEN s[g[n - 1]] ELSE None
      BY <3>3
    <3> HIDE DEF F, V
    <3> QED
      BY <3>1, <3>2, <3>4
  <2>2. h[0] = start
    BY <1>1, <1>3 DEF Iterates
  <2> QED
    BY <2>1, <2>2
<1> DEFINE node == CHOOSE f : Eq(f)
<1>5. Eq(node)
  <2> HIDE DEF h, Eq
  <2> QED
    BY <1>4
<1>6. Reads(node, R, s, start)
  <2> HIDE DEF node
  <2> QED
    BY <1>1, <1>5 DEF Reads
<1>7. LET steps == {n \in 0..Cardinality(R) : OnPath(node, R, done, n)} IN
      Walk(R, s, start, done) =
        [path |-> [n \in steps |-> node[n]],
         stop |-> IF steps = {} THEN start ELSE node[Cardinality(steps)]]
  BY DEF Walk, OnPath
<1> HIDE DEF node
<1> QED
  BY <1>6, <1>7

(* A walk that starts outside what is done meets m nodes, each for the     *)
(* first time, and is stopped by what the last of them declares.           *)
Walked(node, m, R, s, start, done, w) ==
  /\ m \in Nat \ {0}
  /\ node[0] = start
  /\ \A k \in 0..(m - 1) : node[k] \in R \ done
  /\ \A j, k \in 0..(m - 1) : node[j] = node[k] => j = k
  /\ \A k \in 1..(m - 1) : s[node[k - 1]] = node[k]
  /\ s[node[m - 1]] \notin R \/ s[node[m - 1]] \in done
       \/ \E k \in 0..(m - 1) : s[node[m - 1]] = node[k]
  /\ w = [path |-> [n \in 0..(m - 1) |-> node[n]], stop |-> s[node[m - 1]]]

LEMMA WalksEnd ==
  ASSUME NEW R, IsFiniteSet(R), NEW s, NEW done, NEW start \in R \ done
  PROVE  \E node, m : Walked(node, m, R, s, start, done, Walk(R, s, start, done))
<1> DEFINE N == Cardinality(R)
<1>1. N \in Nat
  BY FS_CardinalityType
<1>2. PICK node : LET steps == {n \in 0..N : OnPath(node, R, done, n)} IN
           /\ Reads(node, R, s, start)
           /\ Walk(R, s, start, done) =
                [path |-> [n \in steps |-> node[n]],
                 stop |-> IF steps = {} THEN start ELSE node[Cardinality(steps)]]
  BY WalkReads
<1> DEFINE steps == {n \in 0..N : OnPath(node, R, done, n)}
           T == {n \in 0..N : ~ OnPath(node, R, done, n)}
<1>3. OnPath(node, R, done, 0)
  BY <1>2 DEF OnPath, Reads
<1>4. T # {}
  <2> SUFFICES ASSUME T = {} PROVE FALSE
    OBVIOUS
  <2>1. OnPath(node, R, done, N)
    BY <1>1
  <2> DEFINE f == [k \in 0..N |-> node[k]]
  <2>2. f \in [0..N -> R]
    BY <2>1 DEF OnPath
  <2>3. IsFiniteSet(0..N) /\ Cardinality(0..N) = N + 1
    BY <1>1, FS_Interval
  <2>4. \E x, y \in 0..N : x # y /\ f[x] = f[y]
    <3> HIDE DEF f
    <3>1. Cardinality(R) < Cardinality(0..N)
      BY <1>1, <2>3
    <3> QED
      BY ONLY <2>2, <2>3, <3>1, IsFiniteSet(R), FS_PigeonHole
  <2> QED
    BY <2>1, <2>4 DEF OnPath
<1>5. PICK m \in T : \A n \in T : m <= n
  <2>1. T \in SUBSET Nat
    BY <1>1
  <2> HIDE DEF T
  <2> QED
    BY <1>4, <2>1, LeastNumber
<1>6. m \in 1..N /\ ~ OnPath(node, R, done, m)
  BY <1>1, <1>3, <1>5
<1>7. OnPath(node, R, done, m - 1)
  <2>1. m - 1 \in 0..N /\ m - 1 \notin T
    BY <1>1, <1>5, <1>6
  <2> QED
    BY <2>1
<1>8. steps = 0..(m - 1)
  <2>1. ASSUME NEW n \in 0..(m - 1) PROVE n \in steps
    BY <1>1, <1>6, <1>7, <2>1 DEF OnPath
  <2>2. ASSUME NEW n \in steps PROVE n \in 0..(m - 1)
    <3> SUFFICES ASSUME m <= n PROVE FALSE
      BY <1>1, <1>6
    <3>1. OnPath(node, R, done, m)
      BY <1>1, <1>6 DEF OnPath
    <3> QED
      BY <1>6, <3>1
  <2> QED
    BY <2>1, <2>2
<1>9. Cardinality(steps) = m
  <2>1. 0 \in Int /\ m - 1 \in Int /\ ~ (0 > m - 1) /\ (m - 1) - 0 + 1 = m
    BY <1>1, <1>6
  <2>2. Cardinality(0..(m - 1)) = m
    BY <2>1, FS_Interval
  <2> HIDE DEF steps
  <2> QED
    BY <1>8, <2>2
<1>10. \A k \in 1..m : node[k - 1] \in R /\ node[k] = s[node[k - 1]]
  <2> SUFFICES ASSUME NEW k \in 1..m PROVE node[k - 1] \in R /\ node[k] = s[node[k - 1]]
    OBVIOUS
  <2>1. k - 1 \in 0..(m - 1) /\ k \in 1..N
    BY <1>1, <1>6
  <2>2. node[k - 1] \in R
    BY <1>7, <2>1 DEF OnPath
  <2> QED
    BY <1>2, <2>1, <2>2 DEF Reads
<1>11. node[m] \notin R \/ node[m] \in done \/ \E k \in 0..(m - 1) : node[m] = node[k]
  <2> SUFFICES ASSUME node[m] \in R \ done, \A k \in 0..(m - 1) : node[m] # node[k]
               PROVE  FALSE
    OBVIOUS
  <2>1. \A k \in 0..m : k = m \/ k \in 0..(m - 1)
    BY <1>1, <1>6
  <2>2. OnPath(node, R, done, m)
    BY <1>7, <2>1 DEF OnPath
  <2> QED
    BY <1>6, <2>2
<1>12. Walk(R, s, start, done) =
         [path |-> [n \in 0..(m - 1) |-> node[n]], stop |-> s[node[m - 1]]]
  <2>1. 0..(m - 1) # {} /\ node[m] = s[node[m - 1]]
    <3>1. 0 \in 0..(m - 1) /\ m \in 1..m
      BY <1>1, <1>6
    <3> QED
      BY <1>10, <3>1
  <2> HIDE DEF steps
  <2>2. Walk(R, s, start, done) =
          [path |-> [n \in steps |-> node[n]],
           stop |-> IF steps = {} THEN start ELSE node[Cardinality(steps)]]
    BY <1>2 DEF steps
  <2> QED
    BY <1>8, <1>9, <2>1, <2>2
<1>13. Walked(node, m, R, s, start, done, Walk(R, s, start, done))
  <2>1. m \in Nat \ {0} /\ node[0] = start
    BY <1>1, <1>2, <1>6 DEF Reads
  <2>2. /\ \A k \in 0..(m - 1) : node[k] \in R \ done
        /\ \A j, k \in 0..(m - 1) : node[j] = node[k] => j = k
    BY <1>7 DEF OnPath
  <2>3. \A k \in 1..(m - 1) : s[node[k - 1]] = node[k]
    BY <1>1, <1>6, <1>10
  <2>4. s[node[m - 1]] = node[m]
    BY <1>1, <1>6, <1>10
  <2> QED
    BY <1>11, <1>12, <2>1, <2>2, <2>3, <2>4 DEF Walked
<1> QED
  BY <1>13

(* What a search has found among the records it is done with: their loops, *)
(* and nothing else, in sets whose members override each other.            *)
SearchFits(R, s, found) ==
  /\ found \in [done : SUBSET R, cycles : SUBSET SUBSET R]
  /\ \A i \in found.done : s[i] \in R => s[i] \in found.done
  /\ UNION found.cycles = {i \in found.done : Overrides(R, s, i, i)}
  /\ \A c \in found.cycles : \A a, b \in c : Overrides(R, s, a, b)

(* What follows a node of a walk is in every set that has the node and     *)
(* that no link leaves.                                                    *)
LEMMA WalksFollowLinks ==
  ASSUME NEW R, NEW s, NEW start, NEW done, NEW w, NEW node, NEW m,
         Walked(node, m, R, s, start, done, w),
         NEW C, NEW q \in 0..(m - 1), node[q] \in C, \A k \in C : s[k] \in R => s[k] \in C
  PROVE  \A k \in q..(m - 1) : node[k] \in C
<1> DEFINE T == {n \in Nat : q + n \in q..(m - 1) => node[q + n] \in C}
<1>0. m \in Nat \ {0} /\ q \in Nat
  BY DEF Walked
<1>1. 0 \in T
  BY <1>0
<1>2. ASSUME NEW n \in T PROVE n + 1 \in T
  <2> SUFFICES ASSUME q + (n + 1) \in q..(m - 1) PROVE node[q + (n + 1)] \in C
    OBVIOUS
  <2>1. q + n \in q..(m - 1) /\ q + (n + 1) \in 1..(m - 1) /\ q + (n + 1) - 1 = q + n
    BY <1>0
  <2>2. s[node[q + n]] = node[q + (n + 1)] /\ node[q + (n + 1)] \in R
    <3> DEFINE k == q + (n + 1)
    <3>1. k \in 1..(m - 1) /\ k \in 0..(m - 1) /\ k - 1 = q + n
      BY <1>0, <2>1
    <3> HIDE DEF k
    <3>2. s[node[k - 1]] = node[k] /\ node[k] \in R
      BY <3>1 DEF Walked
    <3> QED
      BY <3>1, <3>2 DEF k
  <2>3. node[q + n] \in C
    BY <2>1
  <2> QED
    BY <2>2, <2>3
<1>3. T = Nat
  <2>1. T \in SUBSET Nat
    OBVIOUS
  <2> HIDE DEF T
  <2> QED
    BY <1>1, <1>2, <2>1, NumbersByInduction
<1>4. ASSUME NEW k \in q..(m - 1) PROVE node[k] \in C
  <2>1. k - q \in Nat /\ q + (k - q) = k
    BY <1>0
  <2> DEFINE n == k - q
  <2>2. n \in T
    BY <1>3, <2>1
  <2> HIDE DEF n
  <2>3. q + n \in q..(m - 1) => node[q + n] \in C
    BY <2>2
  <2> QED
    BY <2>1, <2>3 DEF n
<1> QED
  BY <1>4

(* The rest of a walk is closed but for what its last node declares.       *)
LEMMA RestOfWalk ==
  ASSUME NEW R, NEW s, NEW start, NEW done \in SUBSET R, NEW w, NEW node, NEW m,
         Walked(node, m, R, s, start, done, w),
         \A i \in done : s[i] \in R => s[i] \in done,
         NEW n \in 0..(m - 1),
         s[node[m - 1]] \in R => s[node[m - 1]] \in done \/ \E k \in (n + 1)..(m - 1) : s[node[m - 1]] = node[k]
  PROVE  ~ Overrides(R, s, node[n], node[n])
<1>0. m \in Nat \ {0} /\ n \in Nat
  BY DEF Walked
<1> DEFINE C == {node[k] : k \in (n + 1)..(m - 1)} \cup done
<1>1. C \in SUBSET R
  BY <1>0 DEF Walked
<1>2. ASSUME NEW k \in n..(m - 1), s[node[k]] \in R PROVE s[node[k]] \in C
  <2>1. CASE k = m - 1
    BY <1>0, <1>2, <2>1
  <2>2. CASE k # m - 1
    <3> DEFINE l == k + 1
    <3>1. l \in 1..(m - 1) /\ l - 1 = k /\ l \in (n + 1)..(m - 1)
      BY <1>0, <2>2
    <3> HIDE DEF l
    <3>2. s[node[l - 1]] = node[l]
      BY <3>1 DEF Walked
    <3> QED
      BY <3>1, <3>2
  <2> QED
    BY <2>1, <2>2
<1>3. \A x \in C \cup {node[n]} : s[x] \in R => s[x] \in C
  <2> SUFFICES ASSUME NEW x \in C \cup {node[n]}, s[x] \in R PROVE s[x] \in C
    OBVIOUS
  <2>1. CASE x \in done
    BY <2>1
  <2>2. CASE x \notin done
    <3>1. PICK k \in n..(m - 1) : x = node[k]
      BY <1>0, <2>2
    <3> QED
      BY <1>2, <3>1
  <2> QED
    BY <2>1, <2>2
<1>4. node[n] \notin C
  <2>1. node[n] \notin done
    BY <1>0 DEF Walked
  <2>2. \A k \in (n + 1)..(m - 1) : k \in 0..(m - 1) /\ k # n
    BY <1>0
  <2>3. \A k \in (n + 1)..(m - 1) : node[k] # node[n]
    BY <2>2 DEF Walked
  <2> QED
    BY <2>1, <2>3
<1> QED
  <2> HIDE DEF C
  <2> QED
    BY <1>1, <1>3, <1>4 DEF Overrides

LEMMA SearchGoesOn ==
  ASSUME NEW R, IsFiniteSet(R), NEW s, NEW found, SearchFits(R, s, found), NEW start \in R
  PROVE  /\ SearchFits(R, s, Searched(R, s, start, found))
         /\ found.done \cup {start} \subseteq Searched(R, s, start, found).done
<1>1. CASE start \in found.done
  BY <1>1 DEF Searched
<1>2. CASE start \notin found.done
  <2> DEFINE done == found.done
             w == Walk(R, s, start, done)
             met == Range(w.path)
             first == CHOOSE k \in DOMAIN w.path : w.path[k] = w.stop
             loop == {w.path[n] : n \in {k \in DOMAIN w.path : k >= first}}
             next == [done |-> done \cup met,
                      cycles |-> IF w.stop \in met THEN found.cycles \cup {loop} ELSE found.cycles]
  <2>1. done \in SUBSET R /\ found.cycles \in SUBSET SUBSET R
        /\ (\A i \in done : s[i] \in R => s[i] \in done)
    BY DEF SearchFits
  <2>2. PICK node, m : Walked(node, m, R, s, start, done, w)
    BY <1>2, <2>1, WalksEnd
  <2>3. m \in Nat \ {0}
    BY <2>2 DEF Walked
  <2> DEFINE last == node[m - 1]
  <2>4. /\ DOMAIN w.path = 0..(m - 1) /\ (\A n \in 0..(m - 1) : w.path[n] = node[n])
        /\ w.stop = s[last]
    BY <2>2 DEF Walked
  <2>5. met = {node[k] : k \in 0..(m - 1)} /\ met \subseteq R \ done /\ start \in met
    <3>1. met = {node[k] : k \in 0..(m - 1)}
      <4> HIDE DEF w
      <4> QED
        BY <2>4 DEF Range
    <3>2. 0 \in 0..(m - 1)
      BY <2>3
    <3> QED
      BY <2>2, <3>1, <3>2 DEF Walked
  <2>6. Searched(R, s, start, found) = next
    BY <1>2 DEF Searched
  <2> HIDE DEF w, met
  <2>7. \A i \in done \cup met : s[i] \in R => s[i] \in done \cup met
    <3> SUFFICES ASSUME NEW i \in met, s[i] \in R PROVE s[i] \in done \cup met
      BY <2>1
    <3>1. PICK k \in 0..(m - 1) : i = node[k]
      BY <2>5
    <3>2. CASE k = m - 1
      BY <2>2, <2>5, <3>1, <3>2 DEF Walked
    <3>3. CASE k # m - 1
      <4> DEFINE l == k + 1
      <4>1. l \in 1..(m - 1) /\ l \in 0..(m - 1) /\ l - 1 = k
        BY <2>3, <3>3
      <4> HIDE DEF l
      <4>2. s[node[l - 1]] = node[l]
        BY <2>2, <4>1 DEF Walked
      <4> QED
        BY <2>5, <3>1, <4>1, <4>2
    <3> QED
      BY <3>2, <3>3
  <2>8. CASE w.stop \notin met
    <3>1. ASSUME NEW i \in met PROVE ~ Overrides(R, s, i, i)
      <4>1. PICK n \in 0..(m - 1) : i = node[n]
        BY <2>5
      <4>2. s[node[m - 1]] \in R => s[node[m - 1]] \in done
        BY <2>2, <2>4, <2>5, <2>8 DEF Walked
      <4> QED
        BY <2>1, <2>2, <4>1, <4>2, RestOfWalk
    <3>2. next = [done |-> done \cup met, cycles |-> found.cycles]
      BY <2>8
    <3>3. UNION found.cycles = {i \in done \cup met : Overrides(R, s, i, i)}
      BY <3>1 DEF SearchFits
    <3>4. \A c \in found.cycles : \A a, b \in c : Overrides(R, s, a, b)
      BY DEF SearchFits
    <3>5. next \in [done : SUBSET R, cycles : SUBSET SUBSET R]
      BY <2>1, <2>5, <3>2
    <3>6. SearchFits(R, s, next)
      <4> HIDE DEF next
      <4>1. next.done = done \cup met /\ next.cycles = found.cycles
        BY <3>2
      <4> QED
        BY <2>7, <3>3, <3>4, <3>5, <4>1 DEF SearchFits
    <3> QED
      BY <2>5, <2>6, <3>2, <3>6
  <2>9. CASE w.stop \in met
    <3>1. first \in 0..(m - 1) /\ node[first] = w.stop
      <4>1. \E k \in DOMAIN w.path : w.path[k] = w.stop
        BY <2>4, <2>5, <2>9
      <4>2. first \in DOMAIN w.path /\ w.path[first] = w.stop
        BY <4>1
      <4> HIDE DEF first
      <4> QED
        BY <2>4, <4>2
    <3> HIDE DEF first
    <3>2. loop = {node[n] : n \in first..(m - 1)}
      <4>1. {k \in DOMAIN w.path : k >= first} = first..(m - 1)
        BY <2>3, <2>4, <3>1
      <4>2. \A n \in first..(m - 1) : w.path[n] = node[n]
        BY <2>3, <2>4, <3>1
      <4> QED
        BY <4>1, <4>2
    <3>3. loop \in SUBSET met
      BY <2>3, <2>5, <3>1, <3>2
    <3>4. ASSUME NEW a \in loop, NEW b \in loop PROVE Overrides(R, s, a, b)
      <4> SUFFICES ASSUME NEW C \in SUBSET R, \A k \in C \cup {a} : s[k] \in R => s[k] \in C
                   PROVE  b \in C
        BY DEF Overrides
      <4>1. PICK n \in first..(m - 1) : a = node[n]
        BY <3>2
      <4>2. PICK q \in first..(m - 1) : b = node[q]
        BY <3>2
      <4>3. s[last] = node[first] /\ node[first] \in R
        BY <2>2, <2>4, <3>1 DEF Walked
      <4>4. last \in C \cup {a}
        <5>1. CASE n = m - 1
          BY <4>1, <5>1
        <5>2. CASE n # m - 1
          <6> DEFINE l == n + 1
          <6>1. l \in 1..(m - 1) /\ l \in 0..(m - 1) /\ l - 1 = n /\ m - 1 \in l..(m - 1)
            BY <2>3, <3>1, <5>2
          <6> HIDE DEF l
          <6>2. s[node[l - 1]] = node[l] /\ node[l] \in R
            BY <2>2, <6>1 DEF Walked
          <6>3. node[l] \in C
            BY <4>1, <6>1, <6>2
          <6>4. \A k \in l..(m - 1) : node[k] \in C
            BY <2>2, <6>1, <6>3, WalksFollowLinks
          <6> QED
            BY <6>1, <6>4
        <5> QED
          BY <5>1, <5>2
      <4>5. node[first] \in C
        BY <4>3, <4>4
      <4>6. \A k \in first..(m - 1) : node[k] \in C
        BY <2>2, <3>1, <4>5, WalksFollowLinks
      <4> QED
        BY <4>2, <4>6
    <3>5. ASSUME NEW i \in met \ loop PROVE ~ Overrides(R, s, i, i)
      <4>1. PICK n \in 0..(m - 1) : i = node[n]
        BY <2>5
      <4>2. ~ (n >= first)
        BY <2>3, <3>1, <3>2, <4>1
      <4>3. first \in (n + 1)..(m - 1)
        BY <2>3, <3>1, <4>2
      <4>4. \E k \in (n + 1)..(m - 1) : s[node[m - 1]] = node[k]
        BY <2>4, <3>1, <4>3
      <4> QED
        BY <2>1, <2>2, <4>1, <4>4, RestOfWalk
    <3>6. next = [done |-> done \cup met, cycles |-> found.cycles \cup {loop}]
      BY <2>9
    <3> HIDE DEF loop
    <3>7. UNION (found.cycles \cup {loop}) = {i \in done \cup met : Overrides(R, s, i, i)}
      <4>1. UNION (found.cycles \cup {loop}) = (UNION found.cycles) \cup loop
        OBVIOUS
      <4>2. loop = {i \in met : Overrides(R, s, i, i)}
        BY <3>3, <3>4, <3>5
      <4>3. UNION found.cycles = {i \in done : Overrides(R, s, i, i)}
        BY DEF SearchFits
      <4> QED
        BY <4>1, <4>2, <4>3
    <3>8. \A c \in found.cycles \cup {loop} : \A a, b \in c : Overrides(R, s, a, b)
      BY <3>4 DEF SearchFits
    <3>9. next \in [done : SUBSET R, cycles : SUBSET SUBSET R]
      BY <2>1, <2>5, <3>3, <3>6
    <3>10. SearchFits(R, s, next)
      <4> HIDE DEF next
      <4>1. next.done = done \cup met /\ next.cycles = found.cycles \cup {loop}
        BY <3>6
      <4> QED
        BY <2>7, <3>7, <3>8, <3>9, <4>1 DEF SearchFits
    <3> QED
      BY <2>5, <2>6, <3>6, <3>10
  <2> QED
    BY <2>8, <2>9
<1> QED
  BY <1>1, <1>2

(* The cycle search finds every loop of the links, in whichever order it   *)
(* takes the records, and calls nothing else a cycle.                      *)
THEOREM CyclesAreLoops ==
  ASSUME NEW R, IsFiniteSet(R), NEW s
  PROVE  /\ UNION Cycles(R, s) = {i \in R : Overrides(R, s, i, i)}
         /\ \A c \in Cycles(R, s) : c \subseteq R /\ \A a, b \in c : Overrides(R, s, a, b)
<1> DEFINE V == {found \in [done : SUBSET R, cycles : SUBSET SUBSET R] : SearchFits(R, s, found)}
           base == [done |-> {}, cycles |-> {}]
           F == [p \in R \X V |-> Searched(R, s, p[1], p[2])]
           c == [t \in SUBSET R |-> CHOOSE x \in t : TRUE]
           Eq(f) == f = [t \in SUBSET R |->
                           IF t = {} THEN base
                           ELSE LET x == CHOOSE x \in t : TRUE
                                IN  Searched(R, s, x, f[t \ {x}])]
<1>1. base \in V
  BY DEF SearchFits
<1>2. \A found \in V : SearchFits(R, s, found)
  OBVIOUS
<1>3. \A start \in R, found \in V :
        /\ Searched(R, s, start, found) \in V
        /\ found.done \cup {start} \subseteq Searched(R, s, start, found).done
  <2> SUFFICES ASSUME NEW start \in R, NEW found \in V
               PROVE  /\ Searched(R, s, start, found) \in V
                      /\ found.done \cup {start} \subseteq Searched(R, s, start, found).done
    OBVIOUS
  <2>1. /\ SearchFits(R, s, Searched(R, s, start, found))
        /\ found.done \cup {start} \subseteq Searched(R, s, start, found).done
    BY SearchGoesOn
  <2>2. Searched(R, s, start, found) \in [done : SUBSET R, cycles : SUBSET SUBSET R]
    BY <2>1 DEF SearchFits
  <2> QED
    BY <2>1, <2>2
<1>4. F \in [R \X V -> V]
  <2> HIDE DEF V
  <2> QED
    BY <1>3
<1>5. \A t \in SUBSET R : t # {} => c[t] \in t /\ c[t] = CHOOSE x \in t : TRUE
  OBVIOUS
<1>6. PICK g : FoldsParts(g, R, V, base, F, c)
  <2> HIDE DEF V, base, F, c
  <2> QED
    BY <1>1, <1>4, <1>5, FoldsExist
<1>7. Eq(g)
  <2>1. g \in [SUBSET R -> V]
    BY <1>6 DEF FoldsParts
  <2>2. ASSUME NEW t \in SUBSET R, t # {}
        PROVE  g[t] = Searched(R, s, c[t], g[t \ {c[t]}])
    <3>1. c[t] \in R /\ t \ {c[t]} \in SUBSET R
      BY <1>5, <2>2
    <3>2. g[t \ {c[t]}] \in V
      BY <2>1, <3>1
    <3>4. g[t] = F[<<c[t], g[t \ {c[t]}]>>]
      BY <1>6, <2>2 DEF FoldsParts
    <3> HIDE DEF c, V
    <3>3. <<c[t], g[t \ {c[t]}]>> \in R \X V
      BY <3>1, <3>2
    <3> QED
      BY <3>3, <3>4
  <2>3. g[{}] = base
    BY <1>6 DEF FoldsParts
  <2>4. ASSUME NEW t \in SUBSET R
        PROVE  g[t] = IF t = {} THEN base
                      ELSE LET x == CHOOSE x \in t : TRUE IN Searched(R, s, x, g[t \ {x}])
    <3> HIDE DEF base, c
    <3> QED
      BY <1>5, <2>2, <2>3
  <2> HIDE DEF base, c, V
  <2> QED
    BY <2>1, <2>4
<1> DEFINE iter == CHOOSE f : Eq(f)
<1>8. Eq(iter)
  <2> HIDE DEF Eq
  <2> QED
    BY <1>7
<1>9. Cycles(R, s) = iter[R].cycles
  BY DEF Cycles, FoldSet, MapThenFoldSet
<1> HIDE DEF iter
<1> DEFINE Done(t) == iter[t] \in V /\ t \subseteq iter[t].done
           T == {n \in Nat : \A t \in SUBSET R : Cardinality(t) = n => Done(t)}
<1>10. \A t \in SUBSET R : IsFiniteSet(t) /\ Cardinality(t) \in Nat
  BY FS_Subset, FS_CardinalityType
<1>11. 0 \in T
  <2> SUFFICES ASSUME NEW t \in SUBSET R, Cardinality(t) = 0 PROVE Done(t)
    OBVIOUS
  <2>1. t = {} /\ iter[t] = base
    BY <1>8, <1>10, FS_EmptySet
  <2> HIDE DEF V
  <2> QED
    BY <1>1, <2>1
<1>12. ASSUME NEW n \in T PROVE n + 1 \in T
  <2> SUFFICES ASSUME NEW t \in SUBSET R, Cardinality(t) = n + 1 PROVE Done(t)
    OBVIOUS
  <2>1. t # {}
    <3>1. n + 1 # 0
      OBVIOUS
    <3> QED
      BY <3>1, FS_EmptySet
  <2> DEFINE x == CHOOSE x \in t : TRUE
  <2>2. x \in t /\ x \in R /\ t \ {x} \in SUBSET R
    BY <2>1
  <2>3. iter[t] = Searched(R, s, x, iter[t \ {x}])
    BY <1>8, <2>1
  <2> HIDE DEF x
  <2>4. Cardinality(t \ {x}) = n
    BY <1>10, <2>2, FS_RemoveElement
  <2>5. Done(t \ {x})
    BY <2>2, <2>4
  <2> HIDE DEF V
  <2>6. /\ iter[t] \in V
        /\ iter[t \ {x}].done \cup {x} \subseteq iter[t].done
    BY <1>3, <2>2, <2>3, <2>5
  <2> QED
    BY <2>2, <2>5, <2>6
<1>13. T = Nat
  <2>1. T \in SUBSET Nat
    OBVIOUS
  <2> HIDE DEF T
  <2> QED
    BY <1>11, <1>12, <2>1, NumbersByInduction
<1>14. Done(R)
  <2>1. Cardinality(R) \in T
    BY <1>10, <1>13
  <2> QED
    BY <2>1
<1>15. iter[R].done = R /\ SearchFits(R, s, iter[R])
  <2>1. SearchFits(R, s, iter[R]) /\ R \subseteq iter[R].done
    BY <1>2, <1>14
  <2> QED
    BY <2>1 DEF SearchFits
<1> QED
  BY <1>9, <1>15 DEF SearchFits

-----------------------------------------------------------------------------
(* Which versions speak for a chain.                                       *)

LEMMA ProtectedComponents ==
  ASSUME NEW R, IsFiniteSet(R), NEW s
  PROVE  /\ Protected(R, s) \subseteq R
         /\ \A i \in R : i \in Protected(R, s)
              <=> \E k \in Component(R, s, i) : Overrides(R, s, k, k)
<1> DEFINE loops == {i \in R : Overrides(R, s, i, i)}
<1>1. UNION Cycles(R, s) = loops
  BY CyclesAreLoops
<1>2. Protected(R, s) = UNION {C \in {Component(R, s, i) : i \in R} : C \cap loops # {}}
  BY <1>1 DEF Protected, Components
<1>3. \A i \in R : i \in Component(R, s, i) /\ Component(R, s, i) \subseteq R
  BY ComponentIsConnected
<1>4. ASSUME NEW i \in R, NEW k \in Component(R, s, i), Overrides(R, s, k, k)
      PROVE  i \in Protected(R, s)
  BY <1>2, <1>3, <1>4
<1>5. ASSUME NEW i \in Protected(R, s)
      PROVE  i \in R /\ \E k \in Component(R, s, i) : Overrides(R, s, k, k)
  <2>1. PICK h \in R : i \in Component(R, s, h) /\ Component(R, s, h) \cap loops # {}
    BY <1>2
  <2>2. Component(R, s, i) = Component(R, s, h)
    BY <2>1, ComponentsAreDisjoint
  <2> QED
    BY <1>3, <2>1, <2>2
<1> QED
  BY <1>4, <1>5

(* Linked records are protected together.                                  *)
LEMMA ProtectionSpreads ==
  ASSUME NEW R, IsFiniteSet(R), NEW s, NEW i \in R, NEW j \in Component(R, s, i)
  PROVE  i \in Protected(R, s) <=> j \in Protected(R, s)
<1>1. j \in R /\ Component(R, s, j) = Component(R, s, i)
  BY ComponentIsConnected, ComponentsAreDisjoint
<1> QED
  BY <1>1, ProtectedComponents

(* Where nothing overrides itself something is not superseded.             *)
LEMMA TopsExist ==
  ASSUME NEW R, IsFiniteSet(R), NEW s, NEW U \in SUBSET R, U # {},
         \A k \in U : ~ Overrides(R, s, k, k)
  PROVE  \E k \in U : \A l \in U : s[l] # k
<1> DEFINE below(k) == {x \in R : Overrides(R, s, k, x)}
           N == Cardinality(R)
           d == [k \in U |-> Cardinality(below(k))]
<1>1. N \in Nat
  BY FS_CardinalityType
<1>2. \A k \in U : /\ IsFiniteSet(below(k))
                   /\ Cardinality(below(k)) \in 0..N
  <2> SUFFICES ASSUME NEW k \in U PROVE IsFiniteSet(below(k)) /\ Cardinality(below(k)) \in 0..N
    OBVIOUS
  <2>1. below(k) \in SUBSET R
    OBVIOUS
  <2> HIDE DEF below
  <2>2. IsFiniteSet(below(k)) /\ Cardinality(below(k)) <= N
    BY <2>1, FS_Subset
  <2>3. Cardinality(below(k)) \in Nat
    BY <2>2, FS_CardinalityType
  <2> QED
    BY <1>1, <2>2, <2>3
<1>3. d \in [U -> 0..N]
  <2> HIDE DEF below
  <2> QED
    BY <1>2
<1>4. PICK k \in U : \A l \in U : d[l] <= d[k]
  <2> HIDE DEF d
  <2> QED
    BY <1>1, <1>3, GreatestMember
<1>5. ASSUME NEW l \in U, s[l] = k PROVE FALSE
  <2>1. Overrides(R, s, l, k)
    BY <1>5, OverridesSteps
  <2>2. \A x : Overrides(R, s, k, x) => Overrides(R, s, l, x)
    BY <2>1, OverridesIsTransitive
  <2>3. below(k) \subseteq below(l) /\ k \in below(l) /\ k \notin below(k)
    BY <2>1, <2>2
  <2>4. below(k) \in SUBSET (below(l) \ {k})
    BY <2>3
  <2> HIDE DEF below
  <2>5. /\ IsFiniteSet(below(l) \ {k})
        /\ Cardinality(below(l) \ {k}) = Cardinality(below(l)) - 1
    BY <1>2, <2>3, FS_RemoveElement
  <2>6. Cardinality(below(k)) <= Cardinality(below(l)) - 1
    BY <2>4, <2>5, FS_Subset
  <2>7. Cardinality(below(l)) <= Cardinality(below(k))
    BY <1>4
  <2> QED
    BY <1>2, <2>6, <2>7
<1> QED
  BY <1>5

(* Each suppressed record has a packable one above it, and only where      *)
(* links form a cycle is one packable record above another.                *)
THEOREM ChainsHaveHeads ==
  ASSUME NEW R, IsFiniteSet(R), NEW s
  PROVE  /\ \A j \in R \ Packable(R, s) : \E i \in Packable(R, s) : Overrides(R, s, i, j)
         /\ \A i, j \in Packable(R, s) :
              Overrides(R, s, i, j) => \E c \in Component(R, s, i) : Overrides(R, s, c, c)
<1> DEFINE free == R \ Protected(R, s)
<1>1. \A i \in free : ~ Overrides(R, s, i, i)
  BY ProtectedComponents, ComponentIsConnected
<1>2. \A j \in R : j \notin Packable(R, s) <=> j \in free /\ \E i \in free : s[i] = j
  BY DEF Packable, Suppressed
<1>3. ASSUME NEW j \in R \ Packable(R, s)
      PROVE  \E i \in Packable(R, s) : Overrides(R, s, i, j)
  <2> DEFINE U == {k \in free : Overrides(R, s, k, j)}
  <2>1. PICK i0 \in free : s[i0] = j
    BY <1>2
  <2>2. i0 \in U
    BY <2>1, OverridesSteps
  <2>3. PICK k \in U : \A l \in U : s[l] # k
    <3>1. U \in SUBSET R /\ U # {} /\ \A x \in U : ~ Overrides(R, s, x, x)
      BY <1>1, <2>2
    <3> HIDE DEF U
    <3> QED
      BY <3>1, TopsExist
  <2>4. ASSUME NEW l \in free, s[l] = k PROVE FALSE
    <3>1. Overrides(R, s, l, j)
      BY <2>4, OverridesIsTransitive
    <3> QED
      BY <2>3, <2>4, <3>1
  <2>5. k \in Packable(R, s)
    BY <1>2, <2>4 DEF Packable
  <2> QED
    BY <2>5
<1>4. ASSUME NEW i \in Packable(R, s), NEW j \in Packable(R, s), Overrides(R, s, i, j)
      PROVE  \E c \in Component(R, s, i) : Overrides(R, s, c, c)
  <2>1. i \in R /\ j \in R /\ j \in Component(R, s, i)
    BY <1>4, OverridesSteps DEF Packable
  <2>2. PICK k \in R : s[k] = j /\ (k = i \/ Overrides(R, s, i, k))
    BY <1>4, <2>1, OverridesSteps
  <2>3. k \in Component(R, s, i)
    BY <2>1, <2>2, OverridesSteps, ComponentIsConnected
  <2>4. j \in Protected(R, s) \/ k \in Protected(R, s)
    BY <1>2, <2>1, <2>2
  <2>5. i \in Protected(R, s)
    BY <2>1, <2>3, <2>4, ProtectionSpreads
  <2> QED
    BY <2>1, <2>5, ProtectedComponents
<1> QED
  BY <1>3, <1>4

(* A component with neither a cycle nor two heads has one packable member. *)
THEOREM HealthyComponentsSpeakOnce ==
  ASSUME NEW R, IsFiniteSet(R), NEW s, NEW part, NEW indexed, NEW overlap,
         NEW C \in Components(R, s)
  PROVE  \/ Cardinality(C \cap Packable(R, s)) = 1
         \/ \E f \in Diagnosis(R, s, part, indexed, overlap) :
              f[1] \in {"cycle", "heads"} /\ f[2] \subseteq C
<1> DEFINE findings == Diagnosis(R, s, part, indexed, overlap)
<1>1. PICK h \in R : C = Component(R, s, h)
  BY DEF Components
<1>2. C \subseteq R /\ h \in C /\ \A i \in C : Component(R, s, i) = C
  BY <1>1, ComponentIsConnected, ComponentsAreDisjoint
<1>3. CASE \E i \in C : Overrides(R, s, i, i)
  <2>1. PICK i \in C : Overrides(R, s, i, i)
    BY <1>3
  <2>2. PICK c \in Cycles(R, s) : i \in c
    BY <1>2, <2>1, CyclesAreLoops
  <2>3. c \subseteq C
    <3>1. \A b \in c : Overrides(R, s, i, b)
      BY <2>2, CyclesAreLoops
    <3>2. \A b \in c : b \in Component(R, s, i)
      BY <1>2, <2>1, <3>1, OverridesSteps
    <3> QED
      BY <1>2, <2>1, <3>2
  <2>4. <<"cycle", c>> \in findings
    BY <2>2 DEF Diagnosis
  <2> QED
    <3>1. <<"cycle", c>>[1] = "cycle" /\ <<"cycle", c>>[2] = c
      OBVIOUS
    <3> HIDE DEF findings
    <3> QED
      BY <2>3, <2>4, <3>1 DEF findings
<1>4. CASE \A i \in C : ~ Overrides(R, s, i, i)
  <2>1. C \cap Protected(R, s) = {}
    BY <1>2, <1>4, ProtectedComponents
  <2>2. \A i \in C, j \in R : s[j] = i => j \in C
    <3> SUFFICES ASSUME NEW i \in C, NEW j \in R, s[j] = i PROVE j \in C
      OBVIOUS
    <3>1. Neighbours(R, s, C) \subseteq C
      BY <1>1, ComponentIsConnected
    <3> QED
      BY <3>1 DEF Neighbours
  <2>3. C \cap Packable(R, s) = Heads(R, s, C)
    <3>1. ASSUME NEW i \in C PROVE i \in Packable(R, s) <=> Successors(R, s, i) = {}
      BY <1>2, <2>1, <2>2 DEF Packable, Suppressed, Successors
    <3> QED
      BY <3>1 DEF Heads
  <2>4. Heads(R, s, C) # {}
    <3>1. PICK k \in C : \A l \in C : s[l] # k
      BY <1>2, <1>4, TopsExist
    <3> QED
      BY <2>2, <3>1 DEF Heads, Successors
  <2>5. /\ IsFiniteSet(C) /\ IsFiniteSet(Heads(R, s, C))
        /\ Cardinality(Heads(R, s, C)) <= Cardinality(C)
        /\ Cardinality(Heads(R, s, C)) \in Nat /\ Cardinality(C) \in Nat
    <3>1. IsFiniteSet(C)
      BY <1>2, FS_Subset
    <3>2. Heads(R, s, C) \in SUBSET C
      BY DEF Heads
    <3> QED
      BY <3>1, <3>2, FS_Subset, FS_CardinalityType
  <2>6. CASE Cardinality(Heads(R, s, C)) > 1
    <3>1. Cardinality(C) >= 2
      BY <2>5, <2>6
    <3>2. <<"heads", Heads(R, s, C)>> \in findings
      BY <2>6, <3>1 DEF Diagnosis
    <3>3. Heads(R, s, C) \subseteq C
      BY DEF Heads
    <3>4. <<"heads", Heads(R, s, C)>>[1] = "heads" /\ <<"heads", Heads(R, s, C)>>[2] = Heads(R, s, C)
      OBVIOUS
    <3> HIDE DEF findings
    <3> QED
      BY <3>2, <3>3, <3>4 DEF findings
  <2>7. CASE ~ (Cardinality(Heads(R, s, C)) > 1)
    <3>1. Cardinality(Heads(R, s, C)) # 0
      BY <2>4, <2>5, FS_EmptySet
    <3> QED
      BY <2>3, <2>5, <2>7, <3>1
  <2> QED
    BY <2>6, <2>7
<1> QED
  BY <1>3, <1>4

-----------------------------------------------------------------------------
(* Ranking.                                                                *)

(* below says of each member which come before it, in a total order.       *)
TotallyOrdered(S, below) ==
  /\ \A i \in S : below[i] \subseteq S /\ i \notin below[i]
  /\ \A i, j \in S : i # j => i \in below[j] \/ j \in below[i]
  /\ \A i, j \in S : i \in below[j] => below[i] \subseteq below[j]

(* A permutation of S.                                                     *)
Lists(q, S) ==
  /\ q \in [1..Cardinality(S) -> S]
  /\ \A i \in S : \E n \in 1..Cardinality(S) : q[n] = i
  /\ \A m, n \in 1..Cardinality(S) : q[m] = q[n] => m = n

(* q takes the n-th to be one with n - 1 before it.                        *)
PicksByRank(q, S, below) ==
  /\ q = [n \in 1..Cardinality(S) |-> q[n]]
  /\ \A n \in 1..Cardinality(S) :
       (\E i \in S : Cardinality(below[i]) = n - 1)
         => q[n] \in S /\ Cardinality(below[q[n]]) = n - 1

(* The n-th in a total order is the one with n - 1 before it, and there is *)
(* one for each n.                                                         *)
LEMMA RanksAreUnique ==
  ASSUME NEW S, IsFiniteSet(S), NEW below, TotallyOrdered(S, below),
         NEW q, PicksByRank(q, S, below)
  PROVE  Lists(q, S)
<1> DEFINE N == Cardinality(S)
           rank == [i \in S |-> Cardinality(below[i]) + 1]
<1>1. N \in Nat
  BY FS_CardinalityType
<1>2. ASSUME NEW i \in S PROVE IsFiniteSet(below[i]) /\ Cardinality(below[i]) \in 0..(N - 1)
  <2>1. below[i] \in SUBSET (S \ {i})
    BY DEF TotallyOrdered
  <2>2. IsFiniteSet(S \ {i}) /\ Cardinality(S \ {i}) = N - 1
    BY FS_RemoveElement
  <2>3. IsFiniteSet(below[i]) /\ Cardinality(below[i]) <= N - 1
    BY <2>1, <2>2, FS_Subset
  <2> QED
    BY <1>1, <2>3, FS_CardinalityType
<1>3. rank \in [S -> 1..N]
  BY <1>1, <1>2
<1>4. ASSUME NEW i \in S, NEW j \in S, i \in below[j]
      PROVE  Cardinality(below[i]) < Cardinality(below[j])
  <2>1. below[i] \in SUBSET (below[j] \ {i})
    BY <1>4 DEF TotallyOrdered
  <2>2. IsFiniteSet(below[j] \ {i}) /\ Cardinality(below[j] \ {i}) = Cardinality(below[j]) - 1
    BY <1>2, <1>4, FS_RemoveElement
  <2>3. Cardinality(below[i]) <= Cardinality(below[j]) - 1
    BY <2>1, <2>2, FS_Subset
  <2> QED
    BY <1>1, <1>2, <2>3
<1>5. ASSUME NEW i \in S, NEW j \in S, rank[i] = rank[j] PROVE i = j
  <2>1. Cardinality(below[i]) = Cardinality(below[j])
    BY <1>1, <1>2, <1>5
  <2>2. ~ (Cardinality(below[i]) < Cardinality(below[j])) /\ ~ (Cardinality(below[j]) < Cardinality(below[i]))
    BY <1>2, <2>1
  <2> QED
    BY <1>4, <2>2 DEF TotallyOrdered
<1>6. \A n \in 1..N : \E i \in S : rank[i] = n
  <2>1. rank \in Injection(S, 1..N)
    <3> HIDE DEF rank
    <3> QED
      BY <1>3, <1>5, Fun_IsInj
  <2>2. IsFiniteSet(1..N) /\ Cardinality(1..N) = N
    BY <1>1, FS_Interval
  <2>3. rank \in Surjection(S, 1..N)
    <3> HIDE DEF rank
    <3> QED
      BY <2>1, <2>2, FS_Injection
  <2> HIDE DEF rank
  <2> QED
    BY <2>3, Fun_SurjectionProperties
<1>7. \A n \in 1..N : q[n] \in S /\ rank[q[n]] = n
  <2> SUFFICES ASSUME NEW n \in 1..N PROVE q[n] \in S /\ rank[q[n]] = n
    OBVIOUS
  <2>1. \E i \in S : Cardinality(below[i]) = n - 1
    BY <1>1, <1>2, <1>6
  <2>3. q[n] \in S /\ Cardinality(below[q[n]]) = n - 1
    BY <2>1 DEF PicksByRank
  <2> QED
    BY <1>1, <1>2, <2>3
<1>8. q \in [1..N -> S]
  BY <1>7 DEF PicksByRank
<1>9. ASSUME NEW i \in S PROVE \E n \in 1..N : q[n] = i
  <2>1. rank[i] \in 1..N
    BY <1>3
  <2>2. q[rank[i]] \in S /\ rank[q[rank[i]]] = rank[i]
    BY <1>7, <2>1
  <2> HIDE DEF rank
  <2> QED
    BY <1>5, <2>1, <2>2
<1>10. ASSUME NEW m \in 1..N, NEW n \in 1..N, q[m] = q[n] PROVE m = n
  <2> HIDE DEF rank
  <2> QED
    BY <1>7, <1>10
<1> QED
  BY <1>8, <1>9, <1>10 DEF Lists

(* By v, then by t, then the later of two.                                 *)
LEMMA OrderIsTotal ==
  ASSUME NEW S \in SUBSET Nat, NEW v \in [S -> Int], NEW t \in [S -> Int], NEW below,
         below = [i \in S |-> {j \in S : \/ v[j] > v[i]
                                         \/ v[j] = v[i] /\ t[j] > t[i]
                                         \/ v[j] = v[i] /\ t[j] = t[i] /\ j > i}]
  PROVE  TotallyOrdered(S, below)
<1>1. \A i \in S : below[i] \subseteq S /\ i \notin below[i]
  OBVIOUS
<1>2. \A i, j \in S : i # j => i \in below[j] \/ j \in below[i]
  OBVIOUS
<1>3. ASSUME NEW i \in S, NEW j \in S, i \in below[j], NEW k \in below[i] PROVE k \in below[j]
  <2>1. k \in S /\ v[k] \in Int /\ v[i] \in Int /\ v[j] \in Int /\ t[k] \in Int /\ t[i] \in Int /\ t[j] \in Int
    OBVIOUS
  <2>2. \/ v[k] > v[i]
        \/ v[k] = v[i] /\ t[k] > t[i]
        \/ v[k] = v[i] /\ t[k] = t[i] /\ k > i
    OBVIOUS
  <2>3. \/ v[i] > v[j]
        \/ v[i] = v[j] /\ t[i] > t[j]
        \/ v[i] = v[j] /\ t[i] = t[j] /\ i > j
    BY <1>3
  <2>4. \/ v[k] > v[j]
        \/ v[k] = v[j] /\ t[k] > t[j]
        \/ v[k] = v[j] /\ t[k] = t[j] /\ k > j
    BY <2>1, <2>2, <2>3
  <2> QED
    BY <2>1, <2>4
<1> QED
  BY <1>1, <1>2, <1>3 DEF TotallyOrdered

LEMMA HalvedIsNatural == Halved \in [Nat -> Nat]
<1> DEFINE F == [p \in Nat \X Nat |-> p[2] \div 2]
           Eq(f) == f = [n \in Nat |-> IF n = 0 THEN 80 ELSE f[n - 1] \div 2]
<1>1. F \in [Nat \X Nat -> Nat]
  OBVIOUS
<1>2. PICK g : Iterates(g, Nat, 80, F)
  <2> HIDE DEF F
  <2> QED
    BY <1>1, RecursionOnNumbers
<1>3. Eq(g)
  <2>1. ASSUME NEW n \in Nat, n # 0 PROVE g[n] = g[n - 1] \div 2
    <3>1. n - 1 \in Nat /\ (n - 1) + 1 = n
      BY <2>1
    <3>2. g[n - 1] \in Nat /\ g[(n - 1) + 1] = F[<<(n - 1) + 1, g[n - 1]>>]
      BY <1>2, <3>1 DEF Iterates
    <3> QED
      BY <3>1, <3>2
  <2> QED
    BY <1>2, <2>1 DEF Iterates
<1>4. Eq(Halved)
  <2>1. \E f : Eq(f)
    BY <1>3
  <2> QED
    BY <2>1 DEF Halved
<1> DEFINE T == {n \in Nat : Halved[n] \in Nat}
<1>5. 0 \in T
  BY <1>4
<1>6. ASSUME NEW n \in T PROVE n + 1 \in T
  <2>1. n + 1 \in Nat /\ n + 1 # 0 /\ (n + 1) - 1 = n /\ Halved[n] \in Nat
    OBVIOUS
  <2>2. Halved[n + 1] = Halved[n] \div 2
    BY <1>4, <2>1
  <2> QED
    BY <2>1, <2>2
<1>7. T = Nat
  <2>1. T \in SUBSET Nat
    OBVIOUS
  <2> HIDE DEF T
  <2> QED
    BY <1>5, <1>6, <2>1, NumbersByInduction
<1> QED
  BY <1>4, <1>7

(* What the steps of a recall read of the store.                           *)
StoreFits ==
  /\ memories \in [Id -> Record \cup {None}]
  /\ IsFiniteSet(Stored)
  /\ Stored = 1..Cardinality(Stored)

(* The candidates came out of the store, and text scores are fractions.    *)
CandidatesFit ==
  /\ Candidates \subseteq Stored
  /\ call.strongest \in Nat
  /\ \A i \in call.text : memories[i].strength > 0 /\ memories[i].strength <= call.strongest

LEMMA StoredRecords ==
  ASSUME StoreFits
  PROVE  /\ Stored \subseteq Id /\ Stored \subseteq Nat \ {0}
         /\ \A i \in Stored : memories[i] \in Record /\ i \in Id /\ i \in Nat
         /\ Cardinality(Stored) \in Nat
<1>1. Cardinality(Stored) \in Nat
  BY FS_CardinalityType DEF StoreFits
<1> QED
  BY <1>1 DEF StoreFits, Stored

LEMMA ScoresAreNumbers ==
  ASSUME StoreFits, CandidatesFit, NEW i \in Candidates
  PROVE  /\ TextScore(i) \in Nat /\ RecencyScore(i) \in Nat
         /\ Score(i) \in Nat /\ Weight(i) \in {65, 100}
<1>1. /\ i \in Stored /\ memories[i] \in Record /\ i \in Nat
      /\ Cardinality(Stored) \in Nat /\ i <= Cardinality(Stored)
  BY StoredRecords DEF StoreFits, CandidatesFit
<1>2. TextScore(i) \in Nat
  <2>1. CASE i \in call.text
    <3>1. /\ memories[i].strength \in Nat /\ memories[i].strength > 0
          /\ call.strongest \in Nat /\ call.strongest >= memories[i].strength
      BY <1>1, <2>1 DEF CandidatesFit, Record
    <3>2. ASSUME NEW a \in Nat, NEW b \in Nat, b > 0 PROVE (80 * a) \div b \in Nat
      <4>1. 80 * a \in Nat
        OBVIOUS
      <4> QED
        BY <3>2, <4>1
    <3> QED
      BY <2>1, <3>1, <3>2 DEF TextScore
  <2> QED
    BY <2>1 DEF TextScore
<1>3. RecencyScore(i) \in Nat
  <2>1. Cardinality(Stored) - i \in Nat
    BY <1>1
  <2> QED
    BY <2>1, HalvedIsNatural DEF RecencyScore
<1>4. Specificity[ScopeOf[memories[i].part]] \in Nat
  <2>1. ScopeOf[memories[i].part] \in {"user_global", "workspace", "agent_private"}
    BY <1>1, RecallAssumption DEF Record, Scope
  <2> QED
    BY <2>1 DEF Specificity
<1>5. memories[i].near \in Nat
  BY <1>1 DEF Record
<1>6. Score(i) \in Nat
  BY <1>2, <1>3, <1>4, <1>5 DEF Score
<1> QED
  BY <1>2, <1>3, <1>6 DEF Weight

LEMMA RankingLists ==
  ASSUME StoreFits, CandidatesFit, NEW S \in SUBSET Candidates
  PROVE  IsFiniteSet(S) /\ Lists(Ranked(S, RanksBefore), S)
<1>1. S \in SUBSET Stored /\ S \in SUBSET Nat /\ IsFiniteSet(S)
  BY StoredRecords, FS_Subset DEF StoreFits, CandidatesFit
<1> DEFINE v == [i \in S |-> IF Weight(i) = 65 THEN 20 * Score(i) ELSE 13 * Score(i)]
           t == [i \in S |-> TextScore(i)]
           below == [i \in S |-> {j \in S : \/ v[j] > v[i]
                                            \/ v[j] = v[i] /\ t[j] > t[i]
                                            \/ v[j] = v[i] /\ t[j] = t[i] /\ j > i}]
<1>2. v \in [S -> Int] /\ t \in [S -> Int]
  BY ScoresAreNumbers
<1>3. TotallyOrdered(S, below)
  <2> HIDE DEF v, t
  <2> QED
    BY <1>1, <1>2, OrderIsTotal
<1>4. ASSUME NEW i \in S, NEW j \in S
      PROVE  RanksBefore(j, i) <=> j \in below[i]
  <2>1. /\ Score(i) \in Nat /\ Score(j) \in Nat
        /\ Weight(i) \in {65, 100} /\ Weight(j) \in {65, 100}
        /\ TextScore(i) \in Nat /\ TextScore(j) \in Nat
    BY ScoresAreNumbers
  <2>2. /\ Score(j) * Weight(i) > Score(i) * Weight(j) <=> v[j] > v[i]
        /\ Score(j) * Weight(i) = Score(i) * Weight(j) <=> v[j] = v[i]
    <3>1. CASE Weight(i) = 65 /\ Weight(j) = 65
      BY <2>1, <3>1
    <3>2. CASE Weight(i) = 65 /\ Weight(j) = 100
      BY <2>1, <3>2
    <3>3. CASE Weight(i) = 100 /\ Weight(j) = 65
      BY <2>1, <3>3
    <3>4. CASE Weight(i) = 100 /\ Weight(j) = 100
      BY <2>1, <3>4
    <3> QED
      BY <2>1, <3>1, <3>2, <3>3, <3>4
  <2> HIDE DEF v
  <2> QED
    BY <2>1, <2>2 DEF RanksBefore
<1>5. \A i \in S : below[i] = {j \in S : RanksBefore(j, i)}
  <2>1. \A i \in S : below[i] \subseteq S
    BY <1>3 DEF TotallyOrdered
  <2> HIDE DEF below
  <2> QED
    BY <1>4, <2>1
<1> DEFINE q == Ranked(S, RanksBefore)
<1>6. q = [n \in 1..Cardinality(S) |-> q[n]]
  <2> DEFINE e(n) == CHOOSE i \in S : Cardinality({j \in S : RanksBefore(j, i)}) = n - 1
  <2>1. q = [n \in 1..Cardinality(S) |-> e(n)]
    BY DEF Ranked
  <2> HIDE DEF e, q
  <2> QED
    BY <2>1
<1>7. ASSUME NEW n \in 1..Cardinality(S), \E i \in S : Cardinality(below[i]) = n - 1
      PROVE  q[n] \in S /\ Cardinality(below[q[n]]) = n - 1
  <2> HIDE DEF below
  <2>1. \E i \in S : Cardinality({j \in S : RanksBefore(j, i)}) = n - 1
    BY <1>5, <1>7
  <2>2. q[n] = CHOOSE i \in S : Cardinality({j \in S : RanksBefore(j, i)}) = n - 1
    BY DEF Ranked
  <2>3. q[n] \in S /\ Cardinality({j \in S : RanksBefore(j, q[n])}) = n - 1
    BY <2>1, <2>2
  <2> HIDE DEF q
  <2> QED
    BY <1>5, <2>3
<1> HIDE DEF below, q
<1>8. PicksByRank(q, S, below)
  BY <1>6, <1>7 DEF PicksByRank
<1>9. Lists(q, S)
  BY <1>1, <1>3, <1>8, RanksAreUnique
<1> QED
  BY <1>1, <1>9 DEF q

-----------------------------------------------------------------------------
(* Folds over sequences.                                                   *)

(* G says how a fold goes on at each of N positions.                       *)
StepsThrough(G, N, V) == G \in [(1..N) \X V -> V]

(* f is computed part by part of the positions of a sequence, the last of  *)
(* them first, as FoldLeft does.                                           *)
FoldsPositions(f, N, V, base, G) ==
  /\ f[{}] = base
  /\ \A t \in SUBSET (1..N) :
       t # {} /\ f[t \ {Max(t)}] \in V => f[t] = G[<<Max(t), f[t \ {Max(t)}]>>]

(* h goes along the positions.                                             *)
Accumulates(h, N, V, base, G) ==
  /\ h \in [0..N -> V]
  /\ h[0] = base
  /\ \A n \in 1..N : h[n] = G[<<n, h[n - 1]>>]

LEMMA MaxOfNumbers ==
  ASSUME NEW t \in SUBSET Nat, IsFiniteSet(t), t # {}
  PROVE  Max(t) \in t /\ \A x \in t : x <= Max(t)
<1> DEFINE T == {n \in Nat : \A x \in t : x <= n}
<1>1. T # {}
  <2> DEFINE U(n) == \A u \in SUBSET t : Cardinality(u) = n => \E m \in Nat : \A x \in u : x <= m
             B == {n \in Nat : U(n)}
  <2>0. \A u \in SUBSET t : IsFiniteSet(u) /\ Cardinality(u) \in Nat
    BY FS_Subset, FS_CardinalityType
  <2>1. 0 \in B
    <3> SUFFICES ASSUME NEW u \in SUBSET t, Cardinality(u) = 0
                 PROVE  \E m \in Nat : \A x \in u : x <= m
      OBVIOUS
    <3>1. u = {}
      BY <2>0, FS_EmptySet
    <3> QED
      BY <3>1
  <2>2. ASSUME NEW n \in B PROVE n + 1 \in B
    <3> SUFFICES ASSUME NEW u \in SUBSET t, Cardinality(u) = n + 1
                 PROVE  \E m \in Nat : \A x \in u : x <= m
      OBVIOUS
    <3>1. n \in Nat /\ n + 1 # 0
      OBVIOUS
    <3>2. PICK y \in u : TRUE
      BY <3>1, FS_EmptySet
    <3>3. Cardinality(u \ {y}) = n /\ u \ {y} \in SUBSET t
      BY <2>0, <3>1, <3>2, FS_RemoveElement
    <3>4. PICK m \in Nat : \A x \in u \ {y} : x <= m
      BY <3>3
    <3>5. y \in Nat
      BY <3>2
    <3>6. CASE y <= m
      BY <3>4, <3>5, <3>6
    <3>7. CASE ~ (y <= m)
      <4>1. \A x \in u : x \in Nat /\ x <= y
        BY <3>4, <3>5, <3>7
      <4> QED
        BY <3>5, <4>1
    <3> QED
      BY <3>6, <3>7
  <2>3. B = Nat
    <3>1. B \in SUBSET Nat
      OBVIOUS
    <3> HIDE DEF B
    <3> QED
      BY <2>1, <2>2, <3>1, NumbersByInduction
  <2>4. U(Cardinality(t))
    <3>1. Cardinality(t) \in B
      BY <2>0, <2>3
    <3> QED
      BY <3>1
  <2> QED
    BY <2>4
<1>2. PICK m \in T : \A n \in T : m <= n
  BY <1>1, LeastNumber
<1>3. m \in t
  <2> SUFFICES ASSUME m \notin t PROVE FALSE
    OBVIOUS
  <2>1. \A x \in t : x \in Nat /\ x < m
    BY <1>2
  <2>2. m - 1 \in Nat /\ \A x \in t : x <= m - 1
    <3>1. PICK x \in t : TRUE
      OBVIOUS
    <3>2. m > 0 /\ m \in Nat
      BY <2>1, <3>1
    <3> QED
      BY <2>1, <3>2
  <2>3. m - 1 \in T
    BY <2>2
  <2> QED
    BY <1>2, <2>3
<1>4. \E x \in t : \A y \in t : x >= y
  BY <1>2, <1>3
<1>5. Max(t) \in t /\ \A y \in t : Max(t) >= y
  BY <1>4 DEF Max
<1> QED
  BY <1>5

LEMMA PositionsInOrder ==
  ASSUME NEW N \in Nat, NEW V, NEW base \in V, NEW G, StepsThrough(G, N, V),
         NEW f, FoldsPositions(f, N, V, base, G)
  PROVE  \E h : Accumulates(h, N, V, base, G) /\ h[N] = f[1..N]
<1> DEFINE h == [n \in 0..N |-> f[1..n]]
           T == {n \in Nat : n <= N => /\ f[1..n] \in V
                                       /\ n > 0 => f[1..n] = G[<<n, f[1..(n - 1)]>>]}
<1>1. 0 \in T
  <2>1. 1..0 = {}
    OBVIOUS
  <2> QED
    BY <2>1 DEF FoldsPositions
<1>2. ASSUME NEW n \in T PROVE n + 1 \in T
  <2> SUFFICES ASSUME n + 1 <= N
               PROVE  f[1..(n + 1)] \in V /\ f[1..(n + 1)] = G[<<n + 1, f[1..n]>>]
    OBVIOUS
  <2>1. n \in Nat /\ n + 1 \in 1..N /\ f[1..n] \in V
    OBVIOUS
  <2> DEFINE t == 1..(n + 1)
  <2>2. t \in SUBSET (1..N) /\ t # {} /\ t \in SUBSET Nat /\ IsFiniteSet(t)
    <3>1. IsFiniteSet(1..(n + 1))
      <4>1. 1 \in Int /\ n + 1 \in Int
        BY <2>1
      <4> QED
        BY <4>1, FS_Interval
    <3>2. \A x \in t : x \in 1..N
      BY <2>1
    <3>3. n + 1 \in t
      BY <2>1
    <3>4. IsFiniteSet(t)
      BY <3>1
    <3> HIDE DEF t
    <3> QED
      BY <3>2, <3>3, <3>4
  <2>3. Max(t) = n + 1
    <3>0. n + 1 \in t
      BY <2>1
    <3>1. Max(t) \in t /\ n + 1 \in t /\ \A x \in t : x <= Max(t)
      <4> HIDE DEF t
      <4> QED
        BY <2>2, <3>0, MaxOfNumbers
    <3> HIDE DEF t
    <3>2. Max(t) <= n + 1 /\ n + 1 <= Max(t) /\ Max(t) \in Nat
      BY <2>1, <3>1 DEF t
    <3> QED
      BY <2>1, <3>2
  <2>4. t \ {n + 1} = 1..n
    BY <2>1
  <2> HIDE DEF t
  <2>5. f[t] = G[<<n + 1, f[1..n]>>]
    BY <2>1, <2>2, <2>3, <2>4 DEF FoldsPositions
  <2>6. <<n + 1, f[1..n]>> \in (1..N) \X V
    BY <2>1
  <2>7. f[t] \in V
    BY <2>5, <2>6 DEF StepsThrough
  <2> QED
    BY <2>5, <2>7 DEF t
<1>3. T = Nat
  <2>1. T \in SUBSET Nat
    OBVIOUS
  <2> HIDE DEF T
  <2> QED
    BY <1>1, <1>2, <2>1, NumbersByInduction
<1>4. \A n \in 0..N : f[1..n] \in V /\ (n > 0 => f[1..n] = G[<<n, f[1..(n - 1)]>>])
  <2> SUFFICES ASSUME NEW n \in 0..N
               PROVE  f[1..n] \in V /\ (n > 0 => f[1..n] = G[<<n, f[1..(n - 1)]>>])
    OBVIOUS
  <2>1. n \in Nat /\ n <= N
    OBVIOUS
  <2>2. n \in T
    BY <1>3, <2>1
  <2> QED
    BY <2>1, <2>2
<1>5. h \in [0..N -> V]
  BY <1>4
<1>6. h[0] = base
  <2>1. 1..0 = {} /\ 0 \in 0..N
    OBVIOUS
  <2> QED
    BY <2>1 DEF FoldsPositions
<1>7. ASSUME NEW n \in 1..N PROVE h[n] = G[<<n, h[n - 1]>>]
  <2>1. n \in 0..N /\ n > 0 /\ n - 1 \in 0..N
    OBVIOUS
  <2>2. h[n] = f[1..n] /\ h[n - 1] = f[1..(n - 1)]
    BY <2>1
  <2> QED
    BY <1>4, <2>1, <2>2
<1>8. h[N] = f[1..N]
  OBVIOUS
<1> HIDE DEF h
<1> QED
  BY <1>5, <1>6, <1>7, <1>8 DEF Accumulates

(* There is such an f.                                                     *)
FoldsAll(g, N, V, base, G) ==
  /\ g \in [SUBSET (1..N) -> V]
  /\ \A t \in SUBSET (1..N) :
       g[t] = IF t = {} THEN base ELSE G[<<Max(t), g[t \ {Max(t)}]>>]

LEMMA PositionsCanBeFolded ==
  ASSUME NEW N \in Nat, NEW V, NEW base \in V, NEW G, StepsThrough(G, N, V)
  PROVE  \E g : FoldsAll(g, N, V, base, G)
<1> DEFINE X == 1..N
           c == [t \in SUBSET X |-> Max(t)]
<1>1. IsFiniteSet(X)
  BY FS_Interval
<1>2. ASSUME NEW t \in SUBSET X, t # {} PROVE c[t] \in t
  <2>0. IsFiniteSet(t)
    BY <1>1, FS_Subset
  <2>1. IsFiniteSet(t) /\ t \in SUBSET Nat
    BY <2>0
  <2> QED
    BY <1>2, <2>1, MaxOfNumbers
<1>3. PICK g : FoldsParts(g, X, V, base, G, c)
  <2> HIDE DEF X, c
  <2> QED
    BY <1>1, <1>2, FoldsExist DEF X, StepsThrough
<1>4. \A t \in SUBSET X : c[t] = Max(t)
  OBVIOUS
<1> HIDE DEF c
<1>5. g \in [SUBSET X -> V]
  BY <1>3 DEF FoldsParts
<1>6. \A t \in SUBSET X : g[t] = IF t = {} THEN base ELSE G[<<Max(t), g[t \ {Max(t)}]>>]
  BY <1>3, <1>4 DEF FoldsParts
<1> QED
  BY <1>5, <1>6 DEF FoldsAll

-----------------------------------------------------------------------------
(* What the packed blocks cost together.                                   *)

CostOf(packed) == FoldLeft(LAMBDA n, p : n + p.cost, 0, packed)

(* h adds up the costs.                                                    *)
AddsUp(h, packed) ==
  /\ h \in [0..Len(packed) -> Nat]
  /\ h[0] = 0
  /\ \A n \in 1..Len(packed) : h[n] = h[n - 1] + packed[n].cost

LEMMA CostsAddUp ==
  ASSUME NEW packed \in Seq(Packed)
  PROVE  \E h : AddsUp(h, packed) /\ CostOf(packed) = h[Len(packed)]
<1> DEFINE N == Len(packed)
           G == [p \in (1..N) \X Nat |-> p[2] + packed[p[1]].cost]
           Eq(f) == f = [t \in SUBSET (1..N) |->
                           IF t = {} THEN 0
                           ELSE LET x == Max(t) IN f[t \ {x}] + packed[x].cost]
<1>1. N \in Nat /\ DOMAIN packed = 1..N /\ \A n \in 1..N : packed[n].cost \in Nat
  <2>1. \A n \in 1..N : packed[n] \in Packed
    OBVIOUS
  <2> QED
    BY <2>1 DEF Packed
<1>2. StepsThrough(G, N, Nat)
  BY <1>1 DEF StepsThrough
<1>3. \A t \in SUBSET (1..N) : t # {} => Max(t) \in t
  <2> SUFFICES ASSUME NEW t \in SUBSET (1..N), t # {} PROVE Max(t) \in t
    OBVIOUS
  <2>1. IsFiniteSet(1..N)
    BY <1>1, FS_Interval
  <2>2. IsFiniteSet(t)
    BY <2>1, FS_Subset
  <2>3. t \in SUBSET Nat
    BY <1>1
  <2> QED
    BY <2>2, <2>3, MaxOfNumbers
<1>4. PICK g : FoldsAll(g, N, Nat, 0, G)
  <2> HIDE DEF G, N
  <2> QED
    BY <1>1, <1>2, PositionsCanBeFolded
<1>5. Eq(g)
  <2> SUFFICES ASSUME NEW t \in SUBSET (1..N), t # {}
               PROVE  g[t] = g[t \ {Max(t)}] + packed[Max(t)].cost
    BY <1>4 DEF FoldsAll
  <2>1. g[t] = G[<<Max(t), g[t \ {Max(t)}]>>]
    BY <1>4 DEF FoldsAll
  <2>2. Max(t) \in 1..N /\ g[t \ {Max(t)}] \in Nat
    BY <1>3, <1>4 DEF FoldsAll
  <2> QED
    BY <2>1, <2>2
<1> DEFINE iter == CHOOSE f : Eq(f)
<1>6. Eq(iter)
  <2> HIDE DEF Eq
  <2> QED
    BY <1>5
<1>7. CostOf(packed) = iter[1..N]
  BY <1>1 DEF CostOf, FoldLeft, MapThenFoldSet
<1> HIDE DEF iter
<1>8. FoldsPositions(iter, N, Nat, 0, G)
  <2>1. iter[{}] = 0
    BY <1>6
  <2>2. ASSUME NEW t \in SUBSET (1..N), t # {}, iter[t \ {Max(t)}] \in Nat
        PROVE  iter[t] = G[<<Max(t), iter[t \ {Max(t)}]>>]
    <3>1. iter[t] = iter[t \ {Max(t)}] + packed[Max(t)].cost
      BY <1>6, <2>2
    <3>2. Max(t) \in 1..N
      BY <1>3, <2>2
    <3> QED
      BY <2>2, <3>1, <3>2
  <2> QED
    BY <2>1, <2>2 DEF FoldsPositions
<1>9. PICK h : Accumulates(h, N, Nat, 0, G) /\ h[N] = iter[1..N]
  <2> HIDE DEF G, N
  <2> QED
    BY <1>1, <1>2, <1>8, PositionsInOrder
<1>10. AddsUp(h, packed)
  <2>1. h \in [0..N -> Nat] /\ h[0] = 0
    BY <1>9 DEF Accumulates
  <2>2. ASSUME NEW n \in 1..N PROVE h[n] = h[n - 1] + packed[n].cost
    <3>1. h[n] = G[<<n, h[n - 1]>>]
      BY <1>9 DEF Accumulates
    <3>2. n - 1 \in 0..N
      BY <1>1
    <3>3. h[n - 1] \in Nat
      BY <2>1, <3>2
    <3> QED
      BY <3>1, <3>3
  <2> HIDE DEF N
  <2> QED
    BY <2>1, <2>2 DEF AddsUp, N
<1> QED
  BY <1>7, <1>9, <1>10

LEMMA CostOfNothing == CostOf(<<>>) = 0
<1>1. <<>> \in Seq(Packed) /\ Len(<<>>) = 0
  OBVIOUS
<1>2. PICK h : AddsUp(h, <<>>) /\ CostOf(<<>>) = h[Len(<<>>)]
  BY <1>1, CostsAddUp
<1> QED
  BY <1>1, <1>2 DEF AddsUp

LEMMA CostOfOneMore ==
  ASSUME NEW packed \in Seq(Packed), NEW p \in Packed
  PROVE  CostOf(Append(packed, p)) = CostOf(packed) + p.cost
<1> DEFINE more == Append(packed, p)
           N == Len(packed)
<1>1. /\ more \in Seq(Packed) /\ Len(more) = N + 1 /\ N \in Nat
      /\ more[N + 1] = p /\ \A n \in 1..N : more[n] = packed[n]
  OBVIOUS
<1> HIDE DEF more
<1>2. PICK h : AddsUp(h, packed) /\ CostOf(packed) = h[N]
  BY CostsAddUp
<1>3. PICK k : AddsUp(k, more) /\ CostOf(more) = k[N + 1]
  BY <1>1, CostsAddUp
<1> DEFINE T == {n \in Nat : n <= N => h[n] = k[n]}
<1>4. 0 \in T
  BY <1>2, <1>3 DEF AddsUp
<1>5. ASSUME NEW n \in T PROVE n + 1 \in T
  <2> SUFFICES ASSUME n + 1 <= N PROVE h[n + 1] = k[n + 1]
    OBVIOUS
  <2>1. n + 1 \in 1..N /\ n + 1 \in 1..(N + 1) /\ (n + 1) - 1 = n /\ h[n] = k[n]
    BY <1>1
  <2>2. h[n + 1] = h[n] + packed[n + 1].cost
    BY <1>2, <2>1 DEF AddsUp
  <2>3. k[n + 1] = k[n] + more[n + 1].cost
    BY <1>1, <1>3, <2>1 DEF AddsUp
  <2> QED
    BY <1>1, <2>1, <2>2, <2>3
<1>6. T = Nat
  <2>1. T \in SUBSET Nat
    OBVIOUS
  <2> HIDE DEF T
  <2> QED
    BY <1>4, <1>5, <2>1, NumbersByInduction
<1>7. h[N] = k[N]
  <2>1. N \in T
    BY <1>1, <1>6
  <2> QED
    BY <1>1, <2>1
<1>8. k[N + 1] = k[N] + p.cost
  <2>1. N + 1 \in 1..(N + 1) /\ (N + 1) - 1 = N
    BY <1>1
  <2> QED
    BY <1>1, <1>3, <2>1 DEF AddsUp
<1> QED
  BY <1>2, <1>3, <1>7, <1>8 DEF more

-----------------------------------------------------------------------------
(* Packing.                                                                *)

Packs == [packed : Seq(Packed), tokens : Nat, rejected : SUBSET Id]

IdsOf(packed) == {packed[k].id : k \in 1..Len(packed)}

(* What packing the members of X comes to.                                 *)
PackFits(acc, X, budget) ==
  /\ acc \in Packs
  /\ IdsOf(acc.packed) \cup acc.rejected = X
  /\ IdsOf(acc.packed) \cap acc.rejected = {}
  /\ \A j, k \in 1..Len(acc.packed) : acc.packed[j].id = acc.packed[k].id => j = k
  /\ acc.tokens = CostOf(acc.packed)
  /\ acc.tokens <= budget
  /\ \A k \in 1..Len(acc.packed) :
       acc.packed[k].truncated => Len(acc.packed) = 1 /\ acc.tokens = budget

LEMMA BlocksCost ==
  ASSUME NEW i, memories[i] \in Record
  PROVE  Block(i) \in Nat /\ EmptyBlock(i) \in Nat /\ Block(i) >= 2
<1>1. memories[i].size \in Nat
  BY DEF Record
<1>3. EmptyBlock(i) \in Nat /\ EmptyBlock(i) >= 2
  <2> DEFINE a == Predecessor(Candidates, links, i) # None
             b == i \in call.noticed
  <2>1. Line(a) \in {0, 1} /\ Line(b) \in {0, 1}
    BY DEF Line, LineTokens
  <2>2. EmptyBlock(i) = 2 + Line(a) + Line(b)
    BY DEF EmptyBlock, FieldTokens
  <2> HIDE DEF a, b
  <2> QED
    BY <2>1, <2>2
<1> QED
  BY <1>1, <1>3 DEF Block

LEMMA OneMorePacked ==
  ASSUME NEW acc, NEW X, NEW budget \in Nat, PackFits(acc, X, budget),
         NEW i \in Id, i \notin X, NEW cost \in Nat, NEW truncated \in BOOLEAN,
         acc.tokens + cost <= budget,
         \A k \in 1..Len(acc.packed) : ~ acc.packed[k].truncated,
         truncated => acc.packed = <<>> /\ cost = budget
  PROVE  PackFits(With(acc, i, cost, truncated), X \cup {i}, budget)
<1> DEFINE p == [id |-> i, cost |-> cost, truncated |-> truncated]
           new == With(acc, i, cost, truncated)
           N == Len(acc.packed)
<1>1. acc \in Packs /\ acc.packed \in Seq(Packed) /\ p \in Packed /\ acc.tokens \in Nat
  BY DEF PackFits, Packs, Packed
<1>2. /\ new.packed = Append(acc.packed, p) /\ new.tokens = acc.tokens + cost
      /\ new.rejected = acc.rejected
      /\ new = [packed |-> new.packed, tokens |-> new.tokens, rejected |-> new.rejected]
  <2>1. new = [acc EXCEPT !.packed = Append(@, p), !.tokens = @ + cost]
    BY DEF With
  <2> HIDE DEF p, new
  <2> QED
    BY <1>1, <2>1 DEF Packs
<1>3. /\ new.packed \in Seq(Packed) /\ Len(new.packed) = N + 1 /\ N \in Nat
      /\ new.packed[N + 1] = p /\ \A n \in 1..N : new.packed[n] = acc.packed[n]
  <2> HIDE DEF p, new
  <2> QED
    BY <1>1, <1>2
<1>4. new \in Packs
  <2> HIDE DEF p
  <2>1. new.tokens \in Nat /\ new.rejected \in SUBSET Id
    BY <1>1, <1>2 DEF Packs
  <2> HIDE DEF new
  <2> QED
    BY <1>2, <1>3, <2>1 DEF Packs
<1>5. p.id = i /\ p.cost = cost /\ p.truncated = truncated
  OBVIOUS
<1> HIDE DEF new, p
<1>6. IdsOf(new.packed) = IdsOf(acc.packed) \cup {i}
  <2>1. \A n \in 1..(N + 1) : n = N + 1 \/ n \in 1..N
    BY <1>3
  <2>2. N + 1 \in 1..(N + 1) /\ 1..N \subseteq 1..(N + 1)
    BY <1>3
  <2> QED
    BY <1>3, <1>5, <2>1, <2>2 DEF IdsOf
<1>7. i \notin IdsOf(acc.packed) /\ i \notin acc.rejected
  BY DEF PackFits
<1>8. ASSUME NEW j \in 1..(N + 1), NEW k \in 1..(N + 1), new.packed[j].id = new.packed[k].id
      PROVE  j = k
  <2>1. \A n \in 1..N : new.packed[n].id # i
    BY <1>3, <1>7 DEF IdsOf
  <2>2. (j = N + 1 \/ j \in 1..N) /\ (k = N + 1 \/ k \in 1..N)
    BY <1>3
  <2>3. CASE j \in 1..N /\ k \in 1..N
    <3>1. acc.packed[j].id = acc.packed[k].id
      BY <1>3, <1>8, <2>3
    <3> QED
      BY <2>3, <3>1 DEF PackFits
  <2> QED
    BY <1>3, <1>5, <1>8, <2>1, <2>2, <2>3
<1>9. new.tokens = CostOf(new.packed)
  <2>1. CostOf(new.packed) = CostOf(acc.packed) + cost
    BY <1>1, <1>2, <1>5, CostOfOneMore
  <2> QED
    BY <1>2, <2>1 DEF PackFits
<1>10. ASSUME NEW k \in 1..(N + 1), new.packed[k].truncated
       PROVE  N + 1 = 1 /\ new.tokens = budget
  <2>1. k = N + 1
    BY <1>3, <1>10
  <2>2. truncated
    BY <1>3, <1>5, <1>10, <2>1
  <2>3. acc.packed = <<>> /\ cost = budget
    BY <2>2
  <2>4. acc.tokens = 0
    BY <2>3, CostOfNothing DEF PackFits
  <2>5. N = 0
    BY <2>3
  <2> QED
    BY <1>2, <2>3, <2>4, <2>5
<1> QED
  <2>1. IdsOf(new.packed) \cup new.rejected = X \cup {i} /\ IdsOf(new.packed) \cap new.rejected = {}
    BY <1>2, <1>6, <1>7 DEF PackFits
  <2>2. PackFits(new, X \cup {i}, budget)
    BY <1>2, <1>3, <1>4, <1>8, <1>9, <1>10, <2>1 DEF PackFits
  <2> QED
    BY <2>2 DEF new

LEMMA PackNextFits ==
  ASSUME NEW acc, NEW X, NEW budget \in Nat, PackFits(acc, X, budget),
         NEW i \in Id, i \notin X, memories[i] \in Record
  PROVE  PackFits(PackNext(acc, i, budget), X \cup {i}, budget)
<1> DEFINE cost == Block(i) + Line(acc.packed # <<>>)
           N == Len(acc.packed)
<1>1. Block(i) \in Nat /\ EmptyBlock(i) \in Nat /\ Block(i) >= 2
  BY BlocksCost
<1>2. cost \in Nat /\ cost > 0
  BY <1>1 DEF Line, LineTokens
<1>3. acc \in Packs /\ acc.packed \in Seq(Packed) /\ acc.tokens \in Nat /\ acc.rejected \in SUBSET Id
  BY DEF PackFits, Packs
<1>4. N \in Nat /\ (acc.packed = <<>> <=> N = 0)
  BY <1>3
<1> HIDE DEF cost
<1>5. CASE acc.tokens + cost <= budget
  <2>1. \A k \in 1..N : ~ acc.packed[k].truncated
    <3>1. acc.tokens # budget
      BY <1>2, <1>3, <1>5
    <3> QED
      BY <3>1 DEF PackFits
  <2>2. PackNext(acc, i, budget) = With(acc, i, cost, FALSE)
    BY <1>5 DEF PackNext, cost
  <2>3. PackFits(With(acc, i, cost, FALSE), X \cup {i}, budget)
    BY <1>2, <1>5, <2>1, OneMorePacked
  <2> QED
    BY <2>2, <2>3
<1>6. CASE /\ ~ (acc.tokens + cost <= budget)
           /\ acc.packed = <<>> /\ EmptyBlock(i) <= budget
  <2>1. PackNext(acc, i, budget) = With(acc, i, budget, TRUE)
    BY <1>6 DEF PackNext, cost
  <2>2. acc.tokens = 0
    BY <1>6, CostOfNothing DEF PackFits
  <2>3. \A k \in 1..N : ~ acc.packed[k].truncated
    BY <1>4, <1>6
  <2>4. PackFits(With(acc, i, budget, TRUE), X \cup {i}, budget)
    <3>1. acc.tokens + budget <= budget /\ TRUE \in BOOLEAN
      BY <2>2
    <3> QED
      BY <1>6, <2>3, <3>1, OneMorePacked
  <2> QED
    BY <2>1, <2>4
<1>7. CASE /\ ~ (acc.tokens + cost <= budget)
           /\ ~ (acc.packed = <<>> /\ EmptyBlock(i) <= budget)
  <2> DEFINE new == [acc EXCEPT !.rejected = @ \cup {i}]
  <2>1. PackNext(acc, i, budget) = new
    BY <1>7 DEF PackNext, cost
  <2>2. /\ new.packed = acc.packed /\ new.tokens = acc.tokens
        /\ new.rejected = acc.rejected \cup {i} /\ new \in Packs
    BY <1>3 DEF Packs
  <2> HIDE DEF new
  <2>3. PackFits(new, X \cup {i}, budget)
    BY <2>2 DEF PackFits
  <2> QED
    BY <2>1, <2>3
<1> QED
  BY <1>5, <1>6, <1>7

LEMMA PackNextIsAPack ==
  ASSUME NEW acc \in Packs, NEW budget \in Nat, NEW i \in Id, memories[i] \in Record
  PROVE  PackNext(acc, i, budget) \in Packs
<1> DEFINE cost == Block(i) + Line(acc.packed # <<>>)
<1>1. cost \in Nat
  BY BlocksCost DEF Line, LineTokens
<1>2. ASSUME NEW c \in Nat, NEW truncated \in BOOLEAN
      PROVE  With(acc, i, c, truncated) \in Packs
  <2>1. [id |-> i, cost |-> c, truncated |-> truncated] \in Packed
    BY DEF Packed
  <2>2. acc.packed \in Seq(Packed) /\ acc.tokens + c \in Nat
    BY DEF Packs
  <2>3. Append(acc.packed, [id |-> i, cost |-> c, truncated |-> truncated]) \in Seq(Packed)
    BY <2>1, <2>2
  <2> QED
    BY <2>2, <2>3 DEF With, Packs
<1>3. [acc EXCEPT !.rejected = @ \cup {i}] \in Packs
  BY DEF Packs
<1> HIDE DEF cost
<1> QED
  BY <1>1, <1>2, <1>3 DEF PackNext, cost

(* Everything a list has, one after the other.                             *)
LEMMA PackingFits ==
  ASSUME NEW q, NEW S \in SUBSET Id, IsFiniteSet(S), Lists(q, S),
         \A i \in S : memories[i] \in Record, NEW budget \in Nat
  PROVE  PackFits(FoldLeft(LAMBDA acc, i : PackNext(acc, i, budget), NothingPacked, q),
                  S, budget)
<1> DEFINE N == Cardinality(S)
           G == [p \in (1..N) \X Packs |-> PackNext(p[2], q[p[1]], budget)]
           Eq(f) == f = [t \in SUBSET (1..N) |->
                           IF t = {} THEN NothingPacked
                           ELSE LET x == Max(t) IN PackNext(f[t \ {x}], q[x], budget)]
<1>1. /\ N \in Nat /\ q \in [1..N -> S] /\ DOMAIN q = 1..N
      /\ \A n \in 1..N : q[n] \in S /\ q[n] \in Id /\ memories[q[n]] \in Record
  BY FS_CardinalityType DEF Lists
<1>2. NothingPacked \in Packs
  BY DEF NothingPacked, Packs
<1>3. StepsThrough(G, N, Packs)
  <2>1. \A n \in 1..N, acc \in Packs : PackNext(acc, q[n], budget) \in Packs
    BY <1>1, PackNextIsAPack
  <2> QED
    BY <2>1 DEF StepsThrough
<1>4. \A t \in SUBSET (1..N) : t # {} => Max(t) \in t
  <2> SUFFICES ASSUME NEW t \in SUBSET (1..N), t # {} PROVE Max(t) \in t
    OBVIOUS
  <2>1. IsFiniteSet(1..N)
    BY <1>1, FS_Interval
  <2>2. IsFiniteSet(t)
    BY <2>1, FS_Subset
  <2>3. t \in SUBSET Nat
    BY <1>1
  <2> QED
    BY <2>2, <2>3, MaxOfNumbers
<1>5. PICK g : FoldsAll(g, N, Packs, NothingPacked, G)
  <2> HIDE DEF G, N
  <2> QED
    BY <1>1, <1>2, <1>3, PositionsCanBeFolded
<1>6. Eq(g)
  <2> HIDE DEF N
  <2> SUFFICES ASSUME NEW t \in SUBSET (1..N), t # {}
               PROVE  g[t] = PackNext(g[t \ {Max(t)}], q[Max(t)], budget)
    BY <1>5 DEF FoldsAll
  <2>1. g[t] = G[<<Max(t), g[t \ {Max(t)}]>>]
    BY <1>5 DEF FoldsAll
  <2>2. Max(t) \in 1..N /\ g[t \ {Max(t)}] \in Packs
    BY <1>4, <1>5 DEF FoldsAll
  <2> QED
    BY <2>1, <2>2
<1> DEFINE iter == CHOOSE f : Eq(f)
<1>7. Eq(iter)
  <2> HIDE DEF Eq
  <2> QED
    BY <1>6
<1>8. FoldLeft(LAMBDA acc, i : PackNext(acc, i, budget), NothingPacked, q) = iter[1..N]
  BY <1>1 DEF FoldLeft, MapThenFoldSet
<1> HIDE DEF iter
<1>9. FoldsPositions(iter, N, Packs, NothingPacked, G)
  <2> HIDE DEF N
  <2>1. iter[{}] = NothingPacked
    BY <1>7
  <2>2. ASSUME NEW t \in SUBSET (1..N), t # {}, iter[t \ {Max(t)}] \in Packs
        PROVE  iter[t] = G[<<Max(t), iter[t \ {Max(t)}]>>]
    <3>1. iter[t] = PackNext(iter[t \ {Max(t)}], q[Max(t)], budget)
      BY <1>7, <2>2
    <3>2. Max(t) \in 1..N
      BY <1>4, <2>2
    <3> QED
      BY <2>2, <3>1, <3>2
  <2> HIDE DEF G
  <2> QED
    BY <2>1, <2>2 DEF FoldsPositions
<1>10. PICK h : Accumulates(h, N, Packs, NothingPacked, G) /\ h[N] = iter[1..N]
  <2> HIDE DEF G, N
  <2> QED
    BY <1>1, <1>2, <1>3, <1>9, PositionsInOrder
<1> DEFINE first(n) == {q[k] : k \in 1..n}
           T == {n \in Nat : n <= N => PackFits(h[n], first(n), budget)}
<1> HIDE DEF Eq
<1>11. 0 \in T
  <2>1. first(0) = {}
    OBVIOUS
  <2>2. h[0] = NothingPacked
    BY <1>10 DEF Accumulates
  <2>3. PackFits(NothingPacked, {}, budget)
    <3>1. /\ NothingPacked.packed = <<>> /\ NothingPacked.tokens = 0
          /\ NothingPacked.rejected = {} /\ Len(<<>>) = 0
      BY DEF NothingPacked
    <3>2. IdsOf(<<>>) = {}
      BY <3>1 DEF IdsOf
    <3> QED
      BY <1>2, <3>1, <3>2, CostOfNothing DEF PackFits
  <2> HIDE DEF first
  <2> QED
    BY <2>1, <2>2, <2>3
<1>12. ASSUME NEW n \in T PROVE n + 1 \in T
  <2> SUFFICES ASSUME n + 1 <= N PROVE PackFits(h[n + 1], first(n + 1), budget)
    OBVIOUS
  <2>1. n \in Nat /\ n + 1 \in 1..N /\ n \in 0..N /\ (n + 1) - 1 = n
    BY <1>1
  <2>2. PackFits(h[n], first(n), budget)
    BY <1>1, <2>1
  <2>3. h[n + 1] = PackNext(h[n], q[n + 1], budget)
    <3>1. h[n + 1] = G[<<n + 1, h[n]>>] /\ h[n] \in Packs
      BY <1>10, <2>1 DEF Accumulates
    <3> HIDE DEF N
    <3> QED
      BY <2>1, <3>1
  <2>4. first(n + 1) = first(n) \cup {q[n + 1]}
    <3>1. \A k \in 1..(n + 1) : k \in 1..n \/ k = n + 1
      BY <2>1
    <3>2. n + 1 \in 1..(n + 1) /\ 1..n \subseteq 1..(n + 1)
      BY <2>1
    <3> QED
      BY <3>1, <3>2
  <2>5. q[n + 1] \notin first(n)
    <3> SUFFICES ASSUME NEW k \in 1..n, q[k] = q[n + 1] PROVE FALSE
      OBVIOUS
    <3>1. k \in 1..N /\ k # n + 1
      BY <1>1, <2>1
    <3> QED
      BY <2>1, <3>1 DEF Lists
  <2> HIDE DEF first
  <2> QED
    BY <1>1, <2>1, <2>2, <2>3, <2>4, <2>5, PackNextFits
<1>13. T = Nat
  <2>1. T \in SUBSET Nat
    OBVIOUS
  <2> HIDE DEF T
  <2> QED
    BY <1>11, <1>12, <2>1, NumbersByInduction
<1>14. PackFits(h[N], first(N), budget)
  <2>1. N \in T
    BY <1>1, <1>13
  <2> QED
    BY <1>1, <2>1
<1>15. first(N) = S
  BY <1>1 DEF Lists
<1> HIDE DEF first
<1> QED
  BY <1>8, <1>10, <1>14, <1>15

-----------------------------------------------------------------------------
(* The invariant of a recall.                                              *)

(* What was retrieved is in the caller's scopes, admitted unless it came   *)
(* by its vector, and withheld is what was not admitted afterwards.        *)
CallFits ==
  /\ call.step # "idle" => call.ask \in Asks
  /\ ~ call.vector => call.semantic = {} /\ call.step # "vector"
  /\ call.step = "embed" => call.semantic = {}
  /\ call.text \cup call.recent \subseteq Admitted
  /\ \A i \in Candidates : memories[i].part \in call.ask.sees
  /\ call.step \notin {"pack", "done"} => call.withheld = {}
  /\ call.withheld \cap (call.text \cup call.recent) = {}

PackingDone ==
  call.step = "done" =>
    PackFits([packed |-> call.packed, tokens |-> CostOf(call.packed),
              rejected |-> call.rejected],
             Packable(Candidates, links), call.ask.budget)

RecallInv == TypeOK /\ StoreFits /\ CandidatesFit /\ CallFits /\ PackingDone

LEMMA InitRecall == Init => RecallInv
<1> SUFFICES ASSUME Init PROVE RecallInv
  OBVIOUS
<1>1. Stored = {} /\ Admitted = {}
  BY DEF Init, Stored, Admitted
<1>2. IsFiniteSet({}) /\ Cardinality({}) = 0 /\ 1..0 = {}
  BY FS_EmptySet
<1>3. StoreFits
  BY <1>1, <1>2 DEF Init, StoreFits
<1>4. NoCall \in Call
  <2>1. <<>> \in Seq(Packed)
    OBVIOUS
  <2> QED
    BY <2>1 DEF NoCall, Call, Steps
<1>5. Candidates = {}
  BY DEF Init, NoCall, Candidates
<1> QED
  BY <1>1, <1>3, <1>4, <1>5
  DEF Init, RecallInv, TypeOK, CandidatesFit, CallFits, PackingDone, NoCall

(* Of a stored memory only the disposition changes, and only once.         *)
Kept(i) ==
  /\ i \in Stored'
  /\ memories'[i].part = memories[i].part
  /\ memories'[i].strength = memories[i].strength
  /\ memories'[i].supersedes = memories[i].supersedes
  /\ i \in Admitted => i \in Admitted'

(* What a call has read stays true while the store moves on.               *)
LEMMA CallsOutliveWrites ==
  ASSUME RecallInv, call' = call, \A i \in Stored : Kept(i)
  PROVE  CandidatesFit' /\ CallFits' /\ PackingDone'
<1>1. Candidates' = Candidates /\ Candidates \subseteq Stored
  BY DEF Candidates, RecallInv, CandidatesFit
<1>2. links' = links
  BY <1>1 DEF links, Kept
<1>3. CandidatesFit'
  <2>1. call.text \subseteq Stored
    BY <1>1 DEF Candidates
  <2> QED
    BY <1>1, <2>1 DEF CandidatesFit, RecallInv, Kept
<1>4. CallFits'
  <2>1. Admitted \subseteq Admitted'
    BY DEF Kept, Admitted
  <2>2. \A i \in Candidates : memories'[i].part = memories[i].part
    BY <1>1 DEF Kept
  <2> QED
    BY <1>1, <2>1, <2>2 DEF CallFits, RecallInv
<1>5. PackingDone'
  BY <1>1, <1>2 DEF PackingDone, RecallInv
<1> QED
  BY <1>3, <1>4, <1>5

LEMMA StoreKeepsRecall ==
  ASSUME RecallInv, NEW w \in Writes, Store(w)
  PROVE  RecallInv'
<1> DEFINE N == Cardinality(Stored)
           i == N + 1
           m(d) == [part |-> w.part, kind |-> w.kind, claim |-> w.claim,
                    content |-> w.content, supersedes |-> w.supersedes,
                    strength |-> w.strength, near |-> w.near, size |-> w.size,
                    disposition |-> d]
<1>1. /\ memories \in [Id -> Record \cup {None}] /\ contests \in [Id -> Nat]
      /\ vectors \subseteq Stored /\ IsFiniteSet(Stored) /\ Stored = 1..N
      /\ \A e \in Id : contests[e] > 0 => e \in Stored \ Admitted
  BY DEF RecallInv, TypeOK, StoreFits
<1>2. N \in Nat /\ i \in Id /\ i \notin Stored
  <2>1. N \in Nat
    BY <1>1, FS_CardinalityType
  <2>2. i \in Id
    BY DEF Store
  <2> QED
    BY <1>1, <2>1, <2>2
<1> HIDE DEF m, i
<1>3. PICK d \in {"admitted", "contested"} :
        /\ memories' = [memories EXCEPT ![i] = m(d)]
        /\ IF d = "admitted" THEN UNCHANGED contests
           ELSE \E e \in OpenFor(w) \cup {i} : contests' = [contests EXCEPT ![e] = @ + 1]
  BY DEF Store, i, m
<1>4. call' = call /\ vectors' = vectors
  BY DEF Store
<1>5. m(d) \in Record /\ m(d).disposition = d /\ m(d) # None
  <2>1. w \in Write
    BY RecallAssumption
  <2>2. m(d) \in Record
    BY <2>1 DEF m, Write, Record
  <2> QED
    BY <2>2, RecallAssumption DEF m
<1>6. memories' \in [Id -> Record \cup {None}]
  BY <1>1, <1>2, <1>3, <1>5
<1>7. memories'[i] = m(d) /\ \A j \in Id \ {i} : memories'[j] = memories[j]
  BY <1>1, <1>2, <1>3
<1>8. Stored' = Stored \cup {i}
  BY <1>2, <1>5, <1>7 DEF Stored
<1>9. \A j \in Stored : j \in Id /\ j # i
  BY <1>2 DEF Stored
<1>10. \A j \in Stored : j \in Admitted' <=> j \in Admitted
  BY <1>7, <1>8, <1>9 DEF Admitted
<1>11. \A j \in Stored : Kept(j)
  BY <1>7, <1>8, <1>9, <1>10 DEF Kept
<1>12. StoreFits'
  <2>1. IsFiniteSet(Stored') /\ Cardinality(Stored') = N + 1
    BY <1>1, <1>2, <1>8, FS_AddElement
  <2>2. Stored' = 1..(N + 1)
    BY <1>1, <1>2, <1>8 DEF i
  <2> QED
    BY <1>6, <2>1, <2>2 DEF StoreFits
<1>13. TypeOK'
  <2>1. contests' \in [Id -> Nat] /\ \A e \in Id : contests'[e] > 0 => e \in Stored' \ Admitted'
    <3>1. CASE d = "admitted"
      <4>1. contests' = contests
        BY <1>3, <3>1
      <4> QED
        BY <1>1, <1>8, <1>10, <4>1
    <3>2. CASE d = "contested"
      <4>1. PICK e \in OpenFor(w) \cup {i} : contests' = [contests EXCEPT ![e] = @ + 1]
        BY <1>3, <3>2
      <4>2. i \notin Admitted' /\ i \in Stored'
        BY <1>5, <1>7, <1>8, <3>2 DEF Admitted
      <4>3. e \in Id /\ e \in Stored' \ Admitted'
        <5>1. CASE e \in OpenFor(w)
          BY <1>1, <1>8, <1>9, <1>10, <5>1 DEF OpenFor
        <5> QED
          BY <1>2, <4>2, <5>1
      <4>4. contests' \in [Id -> Nat]
        BY <1>1, <4>1, <4>3
      <4>5. \A k \in Id : k # e => contests'[k] = contests[k]
        BY <1>1, <4>1
      <4>6. \A k \in Id : contests[k] > 0 => k \in Stored' \ Admitted'
        BY <1>1, <1>8, <1>10
      <4> QED
        BY <4>3, <4>4, <4>5, <4>6
    <3> QED
      BY <3>1, <3>2
  <2>2. call' \in Call /\ vectors' \subseteq Stored'
    BY <1>1, <1>4, <1>8 DEF RecallInv, TypeOK
  <2> QED
    BY <1>6, <2>1, <2>2 DEF TypeOK
<1>14. CandidatesFit' /\ CallFits' /\ PackingDone'
  BY <1>4, <1>11, CallsOutliveWrites
<1> QED
  BY <1>12, <1>13, <1>14 DEF RecallInv

LEMMA EmbedKeepsRecall ==
  ASSUME RecallInv, NEW i \in Id, Embed(i)
  PROVE  RecallInv'
<1>1. memories' = memories /\ contests' = contests /\ call' = call /\ vectors' = vectors \cup {i}
      /\ i \in Stored
  BY DEF Embed
<1>2. Stored' = Stored /\ Admitted' = Admitted
  BY <1>1 DEF Stored, Admitted
<1>3. TypeOK' /\ StoreFits'
  BY <1>1, <1>2 DEF RecallInv, TypeOK, StoreFits
<1>4. \A j \in Stored : Kept(j)
  BY <1>1, <1>2 DEF Kept
<1> QED
  BY <1>1, <1>3, <1>4, CallsOutliveWrites DEF RecallInv

LEMMA ResolveKeepsRecall ==
  ASSUME RecallInv, NEW i \in Id, NEW admits \in BOOLEAN, Resolve(i, admits)
  PROVE  RecallInv'
<1>1. /\ memories \in [Id -> Record \cup {None}] /\ contests \in [Id -> Nat]
      /\ vectors \subseteq Stored /\ IsFiniteSet(Stored) /\ Stored = 1..Cardinality(Stored)
      /\ \A e \in Id : contests[e] > 0 => e \in Stored \ Admitted
      /\ call \in Call
  BY DEF RecallInv, TypeOK, StoreFits
<1>2. /\ contests[i] > 0 /\ contests' = [contests EXCEPT ![i] = 0]
      /\ memories' = IF admits THEN [memories EXCEPT ![i].disposition = "admitted"] ELSE memories
      /\ vectors' = vectors /\ call' = call
  BY DEF Resolve
<1>3. i \in Stored /\ memories[i] \in Record /\ i \notin Admitted
  BY <1>1, <1>2 DEF Stored
<1>4. /\ memories'[i] \in Record
      /\ memories'[i].part = memories[i].part
      /\ memories'[i].strength = memories[i].strength
      /\ memories'[i].supersedes = memories[i].supersedes
  BY <1>1, <1>2, <1>3 DEF Record
<1>5. memories' \in [Id -> Record \cup {None}] /\ \A j \in Id \ {i} : memories'[j] = memories[j]
  BY <1>1, <1>2, <1>4
<1>6. Stored' = Stored
  <2>1. memories'[i] # None /\ memories[i] # None
    BY <1>3, <1>4, RecallAssumption
  <2> QED
    BY <1>5, <2>1 DEF Stored
<1>7. \A j \in Stored \ {i} : j \in Admitted' <=> j \in Admitted
  BY <1>5, <1>6 DEF Admitted, Stored
<1>8. \A j \in Stored : Kept(j)
  <2> SUFFICES ASSUME NEW j \in Stored PROVE Kept(j)
    OBVIOUS
  <2>1. j \in Id
    BY DEF Stored
  <2> QED
    BY <1>3, <1>4, <1>5, <1>6, <1>7, <2>1 DEF Kept
<1>9. StoreFits'
  BY <1>1, <1>5, <1>6 DEF StoreFits
<1>10. TypeOK'
  <2>1. contests' \in [Id -> Nat] /\ \A e \in Id : contests'[e] > 0 => e # i /\ contests[e] > 0
    BY <1>1, <1>2
  <2>2. \A e \in Id : contests'[e] > 0 => e \in Stored' \ Admitted'
    BY <1>1, <1>6, <1>7, <2>1
  <2> QED
    BY <1>1, <1>2, <1>5, <1>6, <2>1, <2>2 DEF TypeOK
<1> QED
  BY <1>2, <1>8, <1>9, <1>10, CallsOutliveWrites DEF RecallInv

(* The store as a step of the recall leaves it.                            *)
LEMMA StoreUntouched ==
  ASSUME RecallInv, UNCHANGED <<memories, vectors, contests>>
  PROVE  /\ Stored' = Stored /\ Admitted' = Admitted /\ memories' = memories
         /\ StoreFits'
         /\ call' \in Call => TypeOK'
         /\ call \in Call
<1>1. Stored' = Stored /\ Admitted' = Admitted
  BY DEF Stored, Admitted
<1> QED
  BY <1>1 DEF RecallInv, TypeOK, StoreFits

LEMMA StepsOfRecall ==
  ASSUME NEW c \in Call
  PROVE  /\ c.step \in Steps /\ c.ask \in Asks \cup {None} /\ c.vector \in BOOLEAN
         /\ c.strongest \in Nat /\ c.hidden \in Nat /\ c.text \in SUBSET Id
         /\ c.semantic \in SUBSET Id /\ c.recent \in SUBSET Id /\ c.noticed \in SUBSET Id
         /\ c.withheld \in SUBSET Id /\ c.packed \in Seq(Packed) /\ c.rejected \in SUBSET Id
  BY DEF Call

LEMMA BeginKeepsRecall ==
  ASSUME RecallInv, NEW ask \in Asks, Begin(ask)
  PROVE  RecallInv'
<1>1. UNCHANGED <<memories, vectors, contests>>
  BY DEF Begin
<1> DEFINE next == IF Visible(ask) # {} /\ Embeds THEN "embed" ELSE "text"
<1>2. next \in Steps /\ next \notin {"vector", "pack", "done", "idle"}
  BY DEF Steps
<1>3. call' = [NoCall EXCEPT !.ask = ask, !.step = next]
  BY DEF Begin
<1> HIDE DEF next
<1>4. /\ call'.ask = ask /\ call'.step = next /\ call'.vector = FALSE /\ call'.strongest = 0
      /\ call'.text = {} /\ call'.semantic = {} /\ call'.recent = {} /\ call'.withheld = {}
  BY <1>3 DEF NoCall
<1>5. call' \in Call
  <2>1. <<>> \in Seq(Packed)
    OBVIOUS
  <2> QED
    BY <1>2, <1>3, <2>1 DEF NoCall, Call
<1>6. Candidates' = {}
  BY <1>4 DEF Candidates
<1>7. CandidatesFit' /\ CallFits' /\ PackingDone'
  BY <1>2, <1>4, <1>6 DEF CandidatesFit, CallFits, PackingDone
<1> QED
  BY <1>1, <1>5, <1>7, StoreUntouched DEF RecallInv

LEMMA EmbedQueryKeepsRecall ==
  ASSUME RecallInv, NEW answers \in BOOLEAN, EmbedQuery(answers)
  PROVE  RecallInv'
<1>1. UNCHANGED <<memories, vectors, contests>> /\ call.step = "embed"
  BY DEF EmbedQuery
<1>2. call' = [call EXCEPT !.step = "text", !.vector = answers]
  BY DEF EmbedQuery
<1>3. call \in Call /\ Admitted' = Admitted /\ Stored' = Stored /\ memories' = memories
  BY <1>1, StoreUntouched
<1>4. /\ call'.step = "text" /\ call'.vector = answers /\ call'.ask = call.ask
      /\ call'.strongest = call.strongest /\ call'.text = call.text
      /\ call'.semantic = call.semantic /\ call'.recent = call.recent
      /\ call'.withheld = call.withheld /\ call' \in Call
  BY <1>2, <1>3 DEF Call, Steps
<1>5. call.vector \/ call.semantic = {}
  BY DEF RecallInv, CallFits
<1>6. call.semantic = {}
  BY <1>1 DEF RecallInv, CallFits
<1>7. Candidates' = Candidates
  BY <1>4 DEF Candidates
<1>8. CandidatesFit' /\ CallFits' /\ PackingDone'
  BY <1>1, <1>3, <1>4, <1>6, <1>7 DEF RecallInv, CandidatesFit, CallFits, PackingDone
<1> QED
  BY <1>1, <1>4, <1>8, StoreUntouched DEF RecallInv

LEMMA VisibleIsAdmitted ==
  ASSUME NEW ask
  PROVE  /\ Visible(ask) \subseteq Admitted /\ Matching(ask) \subseteq Visible(ask)
         /\ \A i \in Visible(ask) : memories[i].part \in ask.sees
         /\ \A i \in Matching(ask) : memories[i].strength > 0
         /\ Admitted \subseteq Stored
         /\ HeldAside(ask) \subseteq Stored \ Admitted
  BY DEF Visible, Matching, Admitted, HeldAside

LEMMA ScopeFilteredIsNatural ==
  ASSUME NEW ask, IsFiniteSet(Stored)
  PROVE  ScopeFiltered(ask) \in Nat
<1> DEFINE hidden == {i \in Admitted : /\ memories[i].strength > 0
                                       /\ memories[i].part \notin ask.sees
                                       /\ memories[i].kind \in Asked(ask.kinds, Kind)
                                       /\ ScopeOf[memories[i].part] \in Asked(ask.scopes, Scope)}
<1>1. hidden \in SUBSET Stored
  BY DEF Admitted
<1>2. ScopeFiltered(ask) = Min({Cardinality(hidden), FilteredCap})
  BY DEF ScopeFiltered
<1> HIDE DEF hidden
<1>3. Cardinality(hidden) \in Nat /\ FilteredCap \in Nat
  BY <1>1, FS_Subset, FS_CardinalityType, RecallAssumption
<1>4. \E x \in {Cardinality(hidden), FilteredCap} :
        \A y \in {Cardinality(hidden), FilteredCap} : x <= y
  BY <1>3
<1>5. Min({Cardinality(hidden), FilteredCap}) \in {Cardinality(hidden), FilteredCap}
  BY <1>4 DEF Min
<1> QED
  BY <1>2, <1>3, <1>5

LEMMA RetrieveTextKeepsRecall ==
  ASSUME RecallInv, RetrieveText
  PROVE  RecallInv'
<1> DEFINE hits == Top(Matching(call.ask), Limit, Stronger)
           next == IF call.vector THEN "vector" ELSE "recent"
           best == IF hits = {} THEN 0 ELSE Max({memories[i].strength : i \in hits})
           hidden == ScopeFiltered(call.ask)
<1>1. UNCHANGED <<memories, vectors, contests>> /\ call.step = "text"
  BY DEF RetrieveText
<1>2. call' = [call EXCEPT !.step = next, !.text = hits, !.strongest = best, !.hidden = hidden]
  BY DEF RetrieveText
<1>3. call \in Call /\ Admitted' = Admitted /\ Stored' = Stored /\ memories' = memories /\ StoreFits
  BY <1>1, StoreUntouched DEF RecallInv
<1>4. hits \subseteq Matching(call.ask)
  BY DEF Top
<1>5. /\ hits \subseteq Admitted /\ hits \in SUBSET Id /\ hits \in SUBSET Stored
      /\ \A i \in hits : /\ memories[i].part \in call.ask.sees
                         /\ memories[i].strength > 0 /\ memories[i].strength \in Nat
  <2>1. hits \subseteq Admitted /\ hits \subseteq Stored
    BY <1>4, VisibleIsAdmitted
  <2>2. \A i \in hits : memories[i] \in Record /\ i \in Id
    BY <1>3, <2>1, StoredRecords
  <2> HIDE DEF hits
  <2> QED
    BY <1>4, <2>1, <2>2, VisibleIsAdmitted DEF Record
<1> HIDE DEF hits, next
<1>6. best \in Nat /\ \A i \in hits : memories[i].strength <= best
  <2>1. CASE hits = {}
    BY <2>1
  <2>2. CASE hits # {}
    <3> DEFINE strengths == {memories[i].strength : i \in hits}
    <3>1. IsFiniteSet(hits)
      BY <1>3, <1>5, FS_Subset DEF StoreFits
    <3>2. IsFiniteSet(strengths)
      <4> DEFINE f == [i \in hits |-> memories[i].strength]
      <4>1. f \in [hits -> strengths] /\ \A x \in strengths : \E i \in hits : f[i] = x
        OBVIOUS
      <4> HIDE DEF f, strengths
      <4>2. f \in Surjection(hits, strengths)
        BY <4>1, Fun_IsSurj
      <4> QED
        BY <3>1, <4>2, FS_Surjection
    <3>3. strengths \in SUBSET Nat /\ strengths # {}
      BY <1>5, <2>2
    <3>4. \A i \in hits : memories[i].strength \in strengths
      OBVIOUS
    <3> HIDE DEF strengths
    <3>5. Max(strengths) \in strengths /\ \A x \in strengths : x <= Max(strengths)
      BY <3>2, <3>3, MaxOfNumbers
    <3> QED
      BY <2>2, <3>3, <3>4, <3>5 DEF strengths
  <2> QED
    BY <2>1, <2>2
<1>7. hidden \in Nat
  BY <1>3, ScopeFilteredIsNatural DEF StoreFits
<1>8. next \in {"vector", "recent"} /\ (~ call.vector => next = "recent")
  BY DEF next
<1> HIDE DEF best, hidden
<1>9. /\ call'.step = next /\ call'.vector = call.vector /\ call'.ask = call.ask
      /\ call'.strongest = best /\ call'.text = hits
      /\ call'.semantic = call.semantic /\ call'.recent = call.recent
      /\ call'.withheld = call.withheld
  BY <1>2, <1>3 DEF Call
<1>10. call' \in Call
  BY <1>2, <1>3, <1>5, <1>6, <1>7, <1>8 DEF Call, Steps
<1>11. Candidates' = hits \cup call.semantic \cup call.recent
  BY <1>9 DEF Candidates
<1>12. /\ call.semantic \cup call.recent \subseteq Stored
       /\ \A i \in call.semantic \cup call.recent : memories[i].part \in call.ask.sees
  BY DEF RecallInv, CandidatesFit, CallFits, Candidates
<1>13. CandidatesFit'
  BY <1>3, <1>5, <1>6, <1>9, <1>11, <1>12 DEF CandidatesFit
<1>14. CallFits'
  <2>1. call.withheld = {} /\ call.ask \in Asks /\ call.recent \subseteq Admitted
    BY <1>1 DEF RecallInv, CallFits
  <2>2. ~ call.vector => call.semantic = {}
    BY DEF RecallInv, CallFits
  <2> QED
    BY <1>3, <1>5, <1>8, <1>9, <1>11, <1>12, <2>1, <2>2 DEF CallFits
<1>15. PackingDone'
  BY <1>8, <1>9 DEF PackingDone
<1> QED
  BY <1>1, <1>10, <1>13, <1>14, <1>15, StoreUntouched DEF RecallInv

LEMMA RetrieveVectorKeepsRecall ==
  ASSUME RecallInv, RetrieveVector
  PROVE  RecallInv'
<1> DEFINE hits == VectorHits(call.ask)
<1>1. UNCHANGED <<memories, vectors, contests>> /\ call.step = "vector"
  BY DEF RetrieveVector
<1>2. call' = [call EXCEPT !.step = "recent", !.semantic = hits]
  BY DEF RetrieveVector
<1>3. call \in Call /\ Admitted' = Admitted /\ Stored' = Stored /\ memories' = memories /\ StoreFits
  BY <1>1, StoreUntouched DEF RecallInv
<1>4. hits \in SUBSET Stored /\ \A i \in hits : memories[i].part \in call.ask.sees
  <2>1. \A k, sc : /\ Nearest(call.ask, k, sc) \subseteq vectors
                   /\ \A i \in Nearest(call.ask, k, sc) : memories[i].part \in call.ask.sees
    BY DEF Nearest, Top
  <2>2. hits \subseteq UNION {Nearest(call.ask, k, sc) : k \in Asked(call.ask.kinds, Kind),
                                                        sc \in Asked(call.ask.scopes, Scope)}
    BY DEF VectorHits, Top
  <2>3. vectors \subseteq Stored
    BY DEF RecallInv, TypeOK
  <2> HIDE DEF hits
  <2> QED
    BY <2>1, <2>2, <2>3
<1>5. hits \in SUBSET Id
  BY <1>4 DEF Stored
<1> HIDE DEF hits
<1>6. /\ call'.step = "recent" /\ call'.vector = call.vector /\ call'.ask = call.ask
      /\ call'.strongest = call.strongest /\ call'.text = call.text
      /\ call'.semantic = hits /\ call'.recent = call.recent
      /\ call'.withheld = call.withheld /\ call' \in Call
  BY <1>2, <1>3, <1>5 DEF Call, Steps
<1>7. Candidates' = call.text \cup hits \cup call.recent
  BY <1>6 DEF Candidates
<1>8. /\ call.text \cup call.recent \subseteq Stored
      /\ \A i \in call.text \cup call.recent : memories[i].part \in call.ask.sees
  BY DEF RecallInv, CandidatesFit, CallFits, Candidates
<1>9. call.vector
  BY <1>1 DEF RecallInv, CallFits
<1>10. CandidatesFit'
  BY <1>3, <1>4, <1>6, <1>7, <1>8 DEF RecallInv, CandidatesFit
<1>11. CallFits'
  BY <1>1, <1>3, <1>4, <1>6, <1>7, <1>8, <1>9 DEF RecallInv, CallFits
<1>12. PackingDone'
  BY <1>6 DEF PackingDone
<1> QED
  BY <1>1, <1>6, <1>10, <1>11, <1>12, StoreUntouched DEF RecallInv

LEMMA RetrieveRecentKeepsRecall ==
  ASSUME RecallInv, RetrieveRecent
  PROVE  RecallInv'
<1> DEFINE hits == RecentOfKinds(call.ask)
<1>1. UNCHANGED <<memories, vectors, contests>> /\ call.step = "recent"
  BY DEF RetrieveRecent
<1>2. call' = [call EXCEPT !.step = "notices", !.recent = hits]
  BY DEF RetrieveRecent
<1>3. call \in Call /\ Admitted' = Admitted /\ Stored' = Stored /\ memories' = memories
  BY <1>1, StoreUntouched
<1>4. hits \subseteq Visible(call.ask)
  BY DEF RecentOfKinds, Top
<1>5. /\ hits \subseteq Admitted /\ hits \subseteq Stored
      /\ \A i \in hits : memories[i].part \in call.ask.sees
  BY <1>4, VisibleIsAdmitted
<1>6. hits \in SUBSET Id
  BY <1>5 DEF Stored
<1> HIDE DEF hits
<1>7. /\ call'.step = "notices" /\ call'.vector = call.vector /\ call'.ask = call.ask
      /\ call'.strongest = call.strongest /\ call'.text = call.text
      /\ call'.semantic = call.semantic /\ call'.recent = hits
      /\ call'.withheld = call.withheld /\ call' \in Call
  BY <1>2, <1>3, <1>6 DEF Call, Steps
<1>8. Candidates' = call.text \cup call.semantic \cup hits
  BY <1>7 DEF Candidates
<1>9. /\ call.text \cup call.semantic \subseteq Stored
      /\ \A i \in call.text \cup call.semantic : memories[i].part \in call.ask.sees
  BY DEF RecallInv, CandidatesFit, CallFits, Candidates
<1>10. CandidatesFit'
  BY <1>3, <1>5, <1>7, <1>8, <1>9 DEF RecallInv, CandidatesFit
<1>11. CallFits'
  <2>1. call.withheld = {} /\ call.ask \in Asks /\ call.text \subseteq Admitted
    BY <1>1 DEF RecallInv, CallFits
  <2>2. ~ call.vector => call.semantic = {}
    BY DEF RecallInv, CallFits
  <2> QED
    BY <1>3, <1>5, <1>7, <1>8, <1>9, <2>1, <2>2 DEF CallFits
<1>12. PackingDone'
  BY <1>7 DEF PackingDone
<1> QED
  BY <1>1, <1>7, <1>10, <1>11, <1>12, StoreUntouched DEF RecallInv

LEMMA ReadNoticesKeepsRecall ==
  ASSUME RecallInv, ReadNotices
  PROVE  RecallInv'
<1> DEFINE noticed == {i \in Packable(Candidates, links) : Noticed(i)}
<1>1. UNCHANGED <<memories, vectors, contests>> /\ call.step = "notices"
  BY DEF ReadNotices
<1>2. call' = [call EXCEPT !.step = "withheld", !.noticed = noticed]
  BY DEF ReadNotices
<1>3. call \in Call /\ Admitted' = Admitted /\ Stored' = Stored /\ memories' = memories
  BY <1>1, StoreUntouched
<1>4. noticed \in SUBSET Id
  BY DEF Packable, RecallInv, CandidatesFit, Stored
<1> HIDE DEF noticed
<1>5. /\ call'.step = "withheld" /\ call'.vector = call.vector /\ call'.ask = call.ask
      /\ call'.strongest = call.strongest /\ call'.text = call.text
      /\ call'.semantic = call.semantic /\ call'.recent = call.recent
      /\ call'.withheld = call.withheld /\ call' \in Call
  BY <1>2, <1>3, <1>4 DEF Call, Steps
<1>6. Candidates' = Candidates
  BY <1>5 DEF Candidates
<1>7. CandidatesFit' /\ CallFits' /\ PackingDone'
  BY <1>1, <1>3, <1>5, <1>6 DEF RecallInv, CandidatesFit, CallFits, PackingDone
<1> QED
  BY <1>1, <1>5, <1>7, StoreUntouched DEF RecallInv

LEMMA ReadWithheldKeepsRecall ==
  ASSUME RecallInv, ReadWithheld
  PROVE  RecallInv'
<1> DEFINE withheld == HeldAside(call.ask)
<1>1. UNCHANGED <<memories, vectors, contests>> /\ call.step = "withheld"
  BY DEF ReadWithheld
<1>2. call' = [call EXCEPT !.step = "pack", !.withheld = withheld]
  BY DEF ReadWithheld
<1>3. call \in Call /\ Admitted' = Admitted /\ Stored' = Stored /\ memories' = memories
  BY <1>1, StoreUntouched
<1>4. withheld \subseteq Stored \ Admitted
  BY VisibleIsAdmitted
<1>5. withheld \in SUBSET Id
  BY <1>4 DEF Stored
<1> HIDE DEF withheld
<1>6. /\ call'.step = "pack" /\ call'.vector = call.vector /\ call'.ask = call.ask
      /\ call'.strongest = call.strongest /\ call'.text = call.text
      /\ call'.semantic = call.semantic /\ call'.recent = call.recent
      /\ call'.withheld = withheld /\ call' \in Call
  BY <1>2, <1>3, <1>5 DEF Call, Steps
<1>7. Candidates' = Candidates
  BY <1>6 DEF Candidates
<1>8. CandidatesFit' /\ CallFits' /\ PackingDone'
  BY <1>1, <1>3, <1>4, <1>6, <1>7 DEF RecallInv, CandidatesFit, CallFits, PackingDone
<1> QED
  BY <1>1, <1>6, <1>8, StoreUntouched DEF RecallInv

LEMMA ReturnKeepsRecall ==
  ASSUME RecallInv, Return
  PROVE  RecallInv'
<1>1. UNCHANGED <<memories, vectors, contests>> /\ call' = NoCall
  BY DEF Return
<1>2. call' \in Call
  <2>1. <<>> \in Seq(Packed)
    OBVIOUS
  <2> QED
    BY <1>1, <2>1 DEF NoCall, Call, Steps
<1>3. Candidates' = {}
  BY <1>1 DEF Candidates, NoCall
<1>4. CandidatesFit' /\ CallFits' /\ PackingDone'
  BY <1>1, <1>3 DEF CandidatesFit, CallFits, PackingDone, NoCall
<1> QED
  BY <1>1, <1>2, <1>4, StoreUntouched DEF RecallInv

LEMMA PackKeepsRecall ==
  ASSUME RecallInv, Pack
  PROVE  RecallInv'
<1> DEFINE S == Packable(Candidates, links)
           p == PackAll
<1>1. UNCHANGED <<memories, vectors, contests>> /\ call.step = "pack"
  BY DEF Pack
<1>2. call' = [call EXCEPT !.step = "done", !.packed = p.packed, !.rejected = p.rejected]
  BY DEF Pack
<1>3. /\ call \in Call /\ Admitted' = Admitted /\ Stored' = Stored /\ memories' = memories
      /\ StoreFits /\ CandidatesFit /\ CallFits
  BY <1>1, StoreUntouched DEF RecallInv
<1>4. S \in SUBSET Candidates /\ S \in SUBSET Stored /\ S \in SUBSET Id /\ \A i \in S : memories[i] \in Record
  <2>1. S \in SUBSET Candidates /\ S \in SUBSET Stored
    BY <1>3 DEF Packable, CandidatesFit
  <2> HIDE DEF S
  <2> QED
    BY <1>3, <2>1, StoredRecords
<1>5. call.ask.budget \in Nat
  BY <1>1, <1>3, RecallAssumption DEF CallFits, Ask
<1>6. PackFits(p, S, call.ask.budget)
  <2> DEFINE q == Ranked(S, RanksBefore)
  <2>1. IsFiniteSet(S) /\ Lists(q, S)
    BY <1>3, <1>4, RankingLists
  <2>2. p = FoldLeft(LAMBDA acc, i : PackNext(acc, i, call.ask.budget), NothingPacked, q)
    BY DEF PackAll
  <2> HIDE DEF S, q, p
  <2>3. PackFits(FoldLeft(LAMBDA acc, i : PackNext(acc, i, call.ask.budget), NothingPacked, q),
                 S, call.ask.budget)
    BY <1>4, <1>5, <2>1, PackingFits
  <2> QED
    BY <2>2, <2>3
<1> HIDE DEF S, p
<1>7. p \in Packs /\ p.packed \in Seq(Packed) /\ p.rejected \in SUBSET Id /\ p.tokens = CostOf(p.packed)
  BY <1>6 DEF PackFits, Packs
<1>8. /\ call'.step = "done" /\ call'.vector = call.vector /\ call'.ask = call.ask
      /\ call'.strongest = call.strongest /\ call'.text = call.text
      /\ call'.semantic = call.semantic /\ call'.recent = call.recent
      /\ call'.withheld = call.withheld /\ call'.packed = p.packed
      /\ call'.rejected = p.rejected /\ call' \in Call
  BY <1>2, <1>3, <1>7 DEF Call, Steps
<1>9. Candidates' = Candidates
  BY <1>8 DEF Candidates
<1>10. links' = links
  BY <1>3, <1>9 DEF links
<1>11. CandidatesFit' /\ CallFits'
  BY <1>1, <1>3, <1>8, <1>9 DEF CandidatesFit, CallFits
<1>12. PackingDone'
  <2> DEFINE acc == [packed |-> call'.packed, tokens |-> CostOf(call'.packed),
                     rejected |-> call'.rejected]
  <2>1. acc = p
    BY <1>7, <1>8 DEF Packs
  <2>2. S = Packable(Candidates', links')
    BY <1>9, <1>10 DEF S
  <2>3. PackFits(acc, Packable(Candidates', links'), call'.ask.budget)
    BY <1>6, <1>8, <2>1, <2>2
  <2> QED
    BY <2>3 DEF PackingDone
<1> QED
  BY <1>1, <1>8, <1>11, <1>12, StoreUntouched DEF RecallInv

LEMMA RecallInvIsInductive == RecallInv /\ [Next]_vars => RecallInv'
<1> SUFFICES ASSUME RecallInv, [Next]_vars PROVE RecallInv'
  OBVIOUS
<1>1. CASE \E w \in Writes : Store(w)
  BY <1>1, StoreKeepsRecall
<1>2. CASE \E i \in Id : Embed(i)
  BY <1>2, EmbedKeepsRecall
<1>3. CASE \E i \in Id, admits \in BOOLEAN : Resolve(i, admits)
  BY <1>3, ResolveKeepsRecall
<1>4. CASE RecallStep
  <2>1. CASE \E ask \in Asks : Begin(ask)
    BY <2>1, BeginKeepsRecall
  <2>2. CASE \E answers \in BOOLEAN : EmbedQuery(answers)
    BY <2>2, EmbedQueryKeepsRecall
  <2>3. CASE RetrieveText
    BY <2>3, RetrieveTextKeepsRecall
  <2>4. CASE RetrieveVector
    BY <2>4, RetrieveVectorKeepsRecall
  <2>5. CASE RetrieveRecent
    BY <2>5, RetrieveRecentKeepsRecall
  <2>6. CASE ReadNotices
    BY <2>6, ReadNoticesKeepsRecall
  <2>7. CASE ReadWithheld
    BY <2>7, ReadWithheldKeepsRecall
  <2>8. CASE Pack
    BY <2>8, PackKeepsRecall
  <2>9. CASE Return
    BY <2>9, ReturnKeepsRecall
  <2> QED
    BY <1>4, <2>1, <2>2, <2>3, <2>4, <2>5, <2>6, <2>7, <2>8, <2>9 DEF RecallStep
<1>5. CASE UNCHANGED vars
  <2>1. /\ memories' = memories /\ vectors' = vectors /\ contests' = contests /\ call' = call
    BY <1>5 DEF vars
  <2>2. Stored' = Stored /\ Admitted' = Admitted
    BY <2>1 DEF Stored, Admitted
  <2>3. TypeOK' /\ StoreFits'
    BY <2>1, <2>2 DEF RecallInv, TypeOK, StoreFits
  <2>4. \A i \in Stored : Kept(i)
    BY <2>1, <2>2 DEF Kept
  <2> QED
    BY <2>1, <2>3, <2>4, CallsOutliveWrites DEF RecallInv
<1> QED
  BY <1>1, <1>2, <1>3, <1>4, <1>5 DEF Next

(* RecallInv is an invariant.                                              *)
LEMMA RecallInvariant == Spec => []RecallInv
  BY InitRecall, RecallInvIsInductive, PTL DEF Spec

(* The four variables keep their types.                                    *)
THEOREM RecallTypeCorrect == Spec => []TypeOK
<1>1. RecallInv => TypeOK
  BY DEF RecallInv
<1> QED
  BY <1>1, RecallInvariant, PTL

LEMMA CandidatesAreFinite ==
  ASSUME RecallInv
  PROVE  IsFiniteSet(Candidates)
  BY FS_Subset DEF RecallInv, StoreFits, CandidatesFit

(* Whatever is retrieved, and whichever way its links run, each suppressed *)
(* candidate has a packable one above it.                                  *)
THEOREM ChainsAlwaysSpeak == Spec => []ChainsSpeakByTheirHeads
<1>1. ASSUME RecallInv PROVE ChainsSpeakByTheirHeads
  <2> DEFINE pack == Packable(Candidates, links)
  <2>1. IsFiniteSet(Candidates)
    BY <1>1, CandidatesAreFinite
  <2>2. /\ \A j \in Candidates \ pack : \E i \in pack : Overrides(Candidates, links, i, j)
        /\ \A i, j \in pack : Overrides(Candidates, links, i, j)
             => \E c \in Component(Candidates, links, i) : Overrides(Candidates, links, c, c)
    BY <2>1, ChainsHaveHeads
  <2> QED
    BY <2>2 DEF ChainsSpeakByTheirHeads
<1> QED
  BY <1>1, RecallInvariant, PTL

(* Diagnosis and resolution agree on every store.                          *)
THEOREM HealthyLineageAlwaysSpeaksOnce == Spec => []HealthyLineageSpeaksOnce
<1>1. ASSUME RecallInv PROVE HealthyLineageSpeaksOnce
  <2> SUFFICES ASSUME NEW ask \in Asks,
                      NEW C \in Components(InScope(ask) \cap Admitted,
                                           [i \in InScope(ask) \cap Admitted |-> memories[i].supersedes])
               PROVE  LET R == InScope(ask) \cap Admitted
                          s == [i \in R |-> memories[i].supersedes]
                          findings == Diagnosis(R, s, [i \in R |-> memories[i].part], R, Overlap)
                      IN  \/ Cardinality(C \cap Packable(R, s)) = 1
                          \/ \E f \in findings : f[1] \in {"cycle", "heads"} /\ f[2] \subseteq C
    BY DEF HealthyLineageSpeaksOnce
  <2> DEFINE R == InScope(ask) \cap Admitted
             s == [i \in R |-> memories[i].supersedes]
             part == [i \in R |-> memories[i].part]
  <2>1. R \in SUBSET Stored
    BY DEF Admitted
  <2>2. IsFiniteSet(R)
    BY <1>1, <2>1, FS_Subset DEF RecallInv, StoreFits
  <2>3. C \in Components(R, s)
    OBVIOUS
  <2> HIDE DEF R, s, part
  <2>4. \/ Cardinality(C \cap Packable(R, s)) = 1
        \/ \E f \in Diagnosis(R, s, part, R, Overlap) :
             f[1] \in {"cycle", "heads"} /\ f[2] \subseteq C
    BY <2>2, <2>3, HealthyComponentsSpeakOnce
  <2> QED
    BY <2>4 DEF R, s, part
<1> QED
  BY <1>1, RecallInvariant, PTL

LEMMA DistinctIdsCount ==
  ASSUME NEW packed \in Seq(Packed),
         \A j, k \in 1..Len(packed) : packed[j].id = packed[k].id => j = k
  PROVE  Cardinality(IdsOf(packed)) = Len(packed)
<1> DEFINE N == Len(packed)
           f == [k \in 1..N |-> packed[k].id]
           S == IdsOf(packed)
<1>1. N \in Nat /\ IsFiniteSet(1..N) /\ Cardinality(1..N) = N
  <2>1. N \in Nat
    OBVIOUS
  <2>2. 1 \in Int /\ N \in Int
    BY <2>1
  <2> HIDE DEF N
  <2> QED
    BY <2>1, <2>2, FS_Interval
<1>2. f \in [1..N -> S] /\ \A x \in S : \E k \in 1..N : f[k] = x
  BY DEF IdsOf
<1>3. \A j, k \in 1..N : f[j] = f[k] => j = k
  OBVIOUS
<1> HIDE DEF f, S, N
<1>4. f \in Surjection(1..N, S)
  BY <1>2, Fun_IsSurj
<1>5. f \in Injection(1..N, S)
  BY <1>2, <1>3, Fun_IsInj
<1>6. Cardinality(S) = Cardinality(1..N)
  BY <1>1, <1>4, <1>5, FS_Surjection
<1> QED
  BY <1>1, <1>6 DEF S, N

(* The receipt accounts for the whole recall, whatever is written while it *)
(* runs.                                                                   *)
THEOREM ReceiptsExplainTheirRecalls == Spec => []ReceiptExplainsTheRecall
<1>1. ASSUME RecallInv PROVE ReceiptExplainsTheRecall
  <2> SUFFICES ASSUME call.step = "done" PROVE ReceiptExplainsTheRecall
    BY DEF ReceiptExplainsTheRecall
  <2> DEFINE acc == [packed |-> call.packed, tokens |-> CostOf(call.packed),
                     rejected |-> call.rejected]
             S == Packable(Candidates, links)
  <2>1. PackFits(acc, S, call.ask.budget)
    BY <1>1 DEF RecallInv, PackingDone
  <2>2. acc.packed = call.packed /\ acc.tokens = CostOf(call.packed) /\ acc.rejected = call.rejected
    OBVIOUS
  <2> HIDE DEF acc, S
  <2>3. /\ call.packed \in Seq(Packed)
        /\ IdsOf(call.packed) \cup call.rejected = S
        /\ IdsOf(call.packed) \cap call.rejected = {}
        /\ \A j, k \in 1..Len(call.packed) : call.packed[j].id = call.packed[k].id => j = k
        /\ CostOf(call.packed) <= call.ask.budget
        /\ \A k \in 1..Len(call.packed) : call.packed[k].truncated => Len(call.packed) = 1
    BY <2>1, <2>2 DEF PackFits, Packs
  <2>4. ToSet(call.packed) = {call.packed[k] : k \in 1..Len(call.packed)}
    BY <2>3 DEF ToSet
  <2>5. PackedIds = IdsOf(call.packed)
    BY <2>4 DEF PackedIds, IdsOf
  <2>6. Tokens = CostOf(call.packed)
    BY DEF Tokens, CostOf
  <2>7. S = Candidates \ Suppressed(Candidates, links) /\ Suppressed(Candidates, links) \subseteq Candidates
    BY DEF S, Packable, Suppressed
  <2>8. PackedIds \cup call.rejected \subseteq Candidates
    BY <2>3, <2>5, <2>7
  <2>9. ASSUME NEW i \in Candidates
        PROVE  Cardinality({r \in DOMAIN CandidateReceipt : i \in CandidateReceipt[r]}) = 1
    <3> DEFINE in == {r \in DOMAIN CandidateReceipt : i \in CandidateReceipt[r]}
               became == CandidateReceipt
    <3>1. /\ DOMAIN became = {"selected", "superseded", "token_budget"}
          /\ became["selected"] = PackedIds
          /\ became["superseded"] = Suppressed(Candidates, links)
          /\ became["token_budget"] = call.rejected
      BY DEF CandidateReceipt
    <3> HIDE DEF became
    <3>2. \E r : {x \in DOMAIN became : i \in became[x]} = {r}
      <4>1. CASE i \in PackedIds
        <5>1. {x \in DOMAIN became : i \in became[x]} = {"selected"}
          BY <2>3, <2>5, <2>7, <3>1, <4>1
        <5> QED
          BY <5>1
      <4>2. CASE i \in call.rejected
        <5>1. {x \in DOMAIN became : i \in became[x]} = {"token_budget"}
          BY <2>3, <2>5, <2>7, <3>1, <4>2
        <5> QED
          BY <5>1
      <4>3. CASE i \in Suppressed(Candidates, links)
        <5>1. {x \in DOMAIN became : i \in became[x]} = {"superseded"}
          BY <2>3, <2>5, <2>7, <3>1, <4>3
        <5> QED
          BY <5>1
      <4> QED
        BY <2>3, <2>5, <2>7, <4>1, <4>2, <4>3
    <3>3. PICK r : in = {r}
      BY <3>2 DEF became
    <3> HIDE DEF in
    <3>4. Cardinality(in) = 1
      BY <3>3, FS_Singleton
    <3> QED
      BY <3>4 DEF in
  <2>10. Cardinality(PackedIds) = Len(call.packed)
    BY <2>3, <2>5, DistinctIdsCount
  <2>11. \A p \in ToSet(call.packed) : p.truncated => Len(call.packed) = 1
    BY <2>3, <2>4
  <2>12. ~ call.vector => PackedIds \cap call.withheld = {}
    <3>1. ~ call.vector => Candidates = call.text \cup call.recent
      BY <1>1 DEF RecallInv, CallFits, Candidates
    <3> QED
      BY <1>1, <2>8, <3>1 DEF RecallInv, CallFits
  <2>13. \A i \in PackedIds : /\ memories[i].part \in call.ask.sees
                              /\ i \notin Admitted => i \notin call.text \cup call.recent
    BY <1>1, <2>8 DEF RecallInv, CallFits
  <2> QED
    BY <2>3, <2>6, <2>8, <2>9, <2>10, <2>11, <2>12, <2>13 DEF ReceiptExplainsTheRecall
<1> QED
  BY <1>1, RecallInvariant, PTL

-----------------------------------------------------------------------------
(* The versions of a chain.                                                *)

Closed(V, s, K) == K \subseteq V /\ Neighbours(V, s, K) \subseteq K

(* What is joined by links is the least set that no link leaves, as long   *)
(* as there are not more records than a query follows links.               *)
LEMMA JoinedIsLeast ==
  ASSUME NEW V, IsFiniteSet(V), Cardinality(V) <= MaxDepth + 1, NEW s, NEW C
  PROVE  /\ C \cap V \subseteq Joined(V, s, C) /\ Closed(V, s, Joined(V, s, C))
         /\ \A D : Closed(V, s, D) /\ C \cap V \subseteq D => Joined(V, s, C) \subseteq D
<1> DEFINE more(D) == D \cup Neighbours(V, s, D)
           F == [p \in Nat \X SUBSET V |-> more(p[2])]
           Eq(f) == f = [n \in 0..MaxDepth |->
                           IF n = 0 THEN C \cap V
                           ELSE LET D == f[n - 1] IN D \cup Neighbours(V, s, D)]
           near == CHOOSE f : Eq(f)
<1>0. MaxDepth \in Nat
  BY LineageAssumption
<1>1. \A D \in SUBSET V : more(D) \in SUBSET V
  BY DEF Neighbours
<1>2. F \in [Nat \X SUBSET V -> SUBSET V] /\ C \cap V \in SUBSET V
  BY <1>1
<1>3. PICK g : Iterates(g, SUBSET V, C \cap V, F)
  <2> HIDE DEF F
  <2> QED
    BY <1>2, RecursionOnNumbers
<1>4. Eq([n \in 0..MaxDepth |-> g[n]])
  <2>1. \A n \in Nat : g[n] \in SUBSET V /\ g[n + 1] = more(g[n])
    <3> SUFFICES ASSUME NEW n \in Nat PROVE g[n] \in SUBSET V /\ g[n + 1] = more(g[n])
      OBVIOUS
    <3>1. g[n] \in SUBSET V /\ g[n + 1] = F[<<n + 1, g[n]>>]
      BY <1>3 DEF Iterates
    <3> HIDE DEF more
    <3> QED
      BY <3>1
  <2>2. \A n \in 0..MaxDepth : n # 0 => n - 1 \in 0..MaxDepth /\ (n - 1) + 1 = n /\ n - 1 \in Nat
    BY <1>0
  <2>3. \A n \in 0..MaxDepth : n # 0 => g[n] = more(g[n - 1])
    <3> HIDE DEF more
    <3> QED
      BY <2>1, <2>2
  <2>4. g[0] = C \cap V
    BY <1>3 DEF Iterates
  <2> QED
    BY <2>2, <2>3, <2>4
<1>5. Eq(near)
  <2>1. \E f : Eq(f)
    BY <1>4
  <2> HIDE DEF Eq
  <2> QED
    BY <2>1
<1>6. Joined(V, s, C) = near[MaxDepth]
  BY DEF Joined
<1>7. /\ near[0] = C \cap V
      /\ \A n \in Nat : n + 1 <= MaxDepth => near[n + 1] = near[n] \cup Neighbours(V, s, near[n])
  <2>1. near[0] = C \cap V
    <3>1. 0 \in 0..MaxDepth
      BY <1>0
    <3> HIDE DEF near
    <3> QED
      BY <1>5, <3>1
  <2>2. ASSUME NEW n \in Nat, n + 1 <= MaxDepth
        PROVE  near[n + 1] = near[n] \cup Neighbours(V, s, near[n])
    <3>1. n + 1 \in 0..MaxDepth /\ n + 1 # 0 /\ (n + 1) - 1 = n
      BY <2>2
    <3> QED
      BY <1>5, <3>1
  <2> QED
    BY <2>1, <2>2
<1> HIDE DEF near, Eq, F
<1> DEFINE Fits(n) ==
             /\ C \cap V \subseteq near[n] /\ near[n] \subseteq V
             /\ \A D : Closed(V, s, D) /\ C \cap V \subseteq D => near[n] \subseteq D
             /\ Closed(V, s, near[n]) \/ Cardinality(near[n]) >= n + 1
           T == {n \in Nat : n <= MaxDepth => Fits(n)}
<1>8. \A K \in SUBSET V : IsFiniteSet(K) /\ Cardinality(K) \in Nat
  BY FS_Subset, FS_CardinalityType
<1>9. 0 \in T
  <2>1. near[0] = {} => Closed(V, s, near[0])
    BY DEF Closed, Neighbours
  <2>2. near[0] # {} => Cardinality(near[0]) >= 1
    <3>1. near[0] \in SUBSET V
      BY <1>7
    <3> QED
      BY <1>8, <3>1, FS_EmptySet
  <2> QED
    BY <1>7, <2>1, <2>2
<1>10. ASSUME NEW n \in T PROVE n + 1 \in T
  <2> SUFFICES ASSUME n + 1 <= MaxDepth PROVE Fits(n + 1)
    OBVIOUS
  <2>1. n \in Nat /\ Fits(n)
    BY <1>0
  <2> DEFINE K == near[n]
             L == near[n + 1]
  <2>2. L = K \cup Neighbours(V, s, K)
    BY <1>7, <2>1
  <2>3. C \cap V \subseteq L /\ L \subseteq V
    BY <2>1, <2>2 DEF Neighbours
  <2>4. ASSUME NEW D, Closed(V, s, D), C \cap V \subseteq D PROVE L \subseteq D
    <3>1. K \subseteq D
      BY <2>1, <2>4
    <3> QED
      BY <2>2, <2>4, <3>1 DEF Closed, Neighbours
  <2>5. Closed(V, s, L) \/ Cardinality(L) >= n + 1 + 1
    <3>1. CASE Closed(V, s, K)
      <4>1. L = K
        BY <2>2, <3>1 DEF Closed
      <4> QED
        BY <3>1, <4>1
    <3>2. CASE ~ Closed(V, s, K)
      <4>1. PICK x \in L : x \notin K
        BY <2>1, <2>2, <3>2 DEF Closed
      <4>2. K \in SUBSET (L \ {x}) /\ Cardinality(K) >= n + 1
        BY <2>1, <2>2, <3>2, <4>1
      <4>3. L \in SUBSET V /\ K \in SUBSET V
        BY <2>1, <2>3
      <4> HIDE DEF K, L, Fits, T
      <4>4. /\ IsFiniteSet(L \ {x}) /\ Cardinality(L \ {x}) = Cardinality(L) - 1
            /\ Cardinality(L) \in Nat /\ Cardinality(K) \in Nat
        BY <1>8, <4>1, <4>3, FS_RemoveElement
      <4>5. Cardinality(K) <= Cardinality(L) - 1
        BY <4>2, <4>4, FS_Subset
      <4> QED
        BY <2>1, <4>2, <4>4, <4>5
    <3> QED
      BY <3>1, <3>2
  <2> QED
    BY <2>3, <2>4, <2>5
<1>11. T = Nat
  <2>1. T \in SUBSET Nat
    OBVIOUS
  <2> HIDE DEF T
  <2> QED
    BY <1>9, <1>10, <2>1, NumbersByInduction
<1>12. Fits(MaxDepth)
  <2>1. MaxDepth \in T
    BY <1>0, <1>11
  <2> QED
    BY <1>0, <2>1
<1>13. Closed(V, s, near[MaxDepth])
  <2> SUFFICES ASSUME Cardinality(near[MaxDepth]) >= MaxDepth + 1
               PROVE  Closed(V, s, near[MaxDepth])
    BY <1>12
  <2>1. near[MaxDepth] \in SUBSET V
    BY <1>12
  <2>2. /\ Cardinality(near[MaxDepth]) <= Cardinality(V)
        /\ Cardinality(near[MaxDepth]) = Cardinality(V) => near[MaxDepth] = V
    BY <2>1, FS_Subset
  <2>3. Cardinality(near[MaxDepth]) \in Nat /\ Cardinality(V) \in Nat
    BY <1>8, <2>1
  <2>4. near[MaxDepth] = V
    BY <1>0, <2>2, <2>3
  <2> QED
    BY <2>4 DEF Closed, Neighbours
<1> QED
  BY <1>6, <1>12, <1>13

(* Joining many is joining each.                                           *)
LEMMA JoinedOneByOne ==
  ASSUME NEW V, IsFiniteSet(V), Cardinality(V) <= MaxDepth + 1, NEW s, NEW C \in SUBSET V
  PROVE  Joined(V, s, C) = UNION {Joined(V, s, {i}) : i \in C}
<1> DEFINE one(i) == Joined(V, s, {i})
           all == UNION {one(i) : i \in C}
           K == Joined(V, s, C)
<1>1. \A i \in C : /\ i \in one(i) /\ Closed(V, s, one(i))
                   /\ \A D : Closed(V, s, D) /\ i \in D => one(i) \subseteq D
  <2> SUFFICES ASSUME NEW i \in C
               PROVE  /\ i \in one(i) /\ Closed(V, s, one(i))
                      /\ \A D : Closed(V, s, D) /\ i \in D => one(i) \subseteq D
    OBVIOUS
  <2>1. {i} \cap V = {i}
    OBVIOUS
  <2> QED
    BY <2>1, JoinedIsLeast
<1>2. /\ C \subseteq K /\ Closed(V, s, K)
      /\ \A D : Closed(V, s, D) /\ C \subseteq D => K \subseteq D
  <2>1. C \cap V = C
    OBVIOUS
  <2> QED
    BY <2>1, JoinedIsLeast
<1> HIDE DEF one, K
<1>3. C \subseteq all
  BY <1>1
<1>4. Closed(V, s, all)
  <2>1. ASSUME NEW i \in V, NEW j \in all, s[i] = j \/ s[j] = i PROVE i \in all
    <3>1. PICK k \in C : j \in one(k)
      OBVIOUS
    <3>2. i \in one(k)
      BY <1>1, <2>1, <3>1 DEF Closed, Neighbours
    <3> QED
      BY <3>2
  <2>2. all \subseteq V
    BY <1>1 DEF Closed
  <2> HIDE DEF all
  <2> QED
    BY <2>1, <2>2 DEF Closed, Neighbours
<1>5. K \subseteq all
  BY <1>2, <1>3, <1>4
<1>6. all \subseteq K
  BY <1>1, <1>2
<1> QED
  BY <1>5, <1>6 DEF one, K

(* Whatever a record overrides, it overrides through what it names.        *)
LEMMA OverridesByName ==
  ASSUME NEW R, NEW s, NEW i, NEW j, Overrides(R, s, i, j)
  PROVE  s[i] \in R /\ (j = s[i] \/ Overrides(R, s, s[i], j))
<1>1. s[i] \in R
  <2> SUFFICES ASSUME s[i] \notin R PROVE FALSE
    OBVIOUS
  <2>1. {} \in SUBSET R /\ \A k \in {} \cup {i} : s[k] \in R => s[k] \in {}
    OBVIOUS
  <2>2. j \in {}
    BY <2>1 DEF Overrides
  <2> QED
    BY <2>2
<1> DEFINE C == {l \in R : l = s[i] \/ Overrides(R, s, s[i], l)}
<1>2. \A k \in C \cup {i} : s[k] \in R => s[k] \in C
  <2> SUFFICES ASSUME NEW k \in C, s[k] \in R PROVE s[k] \in C
    BY <1>1
  <2>1. Overrides(R, s, s[i], s[k])
    BY <1>1, OverridesSteps
  <2> QED
    BY <2>1
<1>3. j \in C
  <2>1. C \in SUBSET R
    OBVIOUS
  <2> HIDE DEF C
  <2> QED
    BY <1>2, <2>1 DEF Overrides
<1> QED
  BY <1>1, <1>3

(* Where links name older records only, what a boundary leaves of a chain  *)
(* is still connected.                                                     *)
LEMMA BoundariesCutChainsOnce ==
  ASSUME NEW V \in SUBSET Nat, NEW s, \A i \in V : s[i] \in V => s[i] < i,
         NEW at \in Nat, NEW W, W = {j \in V : j <= at},
         NEW i \in W, NEW D, i \in D, Closed(W, s, D),
         NEW K, \A E : Closed(V, s, E) /\ i \in E => K \subseteq E,
         NEW k \in K, k <= at
  PROVE  k \in D
<1> DEFINE E == {l \in V : l \in D \/ \E d \in D : Overrides(V, s, l, d)}
<1>1. D \subseteq W /\ W \subseteq V /\ D \subseteq E
  BY DEF Closed
<1>2. ASSUME NEW l \in V, l \in W, NEW d \in D, s[l] = d \/ s[d] = l PROVE l \in D
  BY <1>2 DEF Closed, Neighbours
<1>3. ASSUME NEW l \in E, NEW n \in V, s[n] = l PROVE n \in E
  <2>1. \A d : Overrides(V, s, l, d) => Overrides(V, s, n, d)
    BY <1>3, OverridesIsTransitive
  <2>2. Overrides(V, s, n, l)
    BY <1>3, OverridesSteps
  <2> QED
    BY <2>1, <2>2
<1>4. ASSUME NEW l \in E, s[l] \in V PROVE s[l] \in E
  <2>1. CASE l \in D
    <3>1. l \in W /\ l \in V
      BY <1>1, <2>1
    <3>2. s[l] \in W
      <4>1. l <= at /\ l \in Nat /\ s[l] \in Nat /\ s[l] < l
        BY <1>4, <3>1
      <4> QED
        BY <1>4, <4>1
    <3>3. s[l] \in D
      BY <1>2, <1>4, <2>1, <3>1, <3>2
    <3> QED
      BY <1>1, <3>3
  <2>2. CASE l \notin D
    <3>1. PICK d \in D : Overrides(V, s, l, d)
      BY <2>2
    <3>2. d = s[l] \/ Overrides(V, s, s[l], d)
      BY <3>1, OverridesByName
    <3> QED
      BY <1>1, <1>4, <3>2
  <2> QED
    BY <2>1, <2>2
<1>5. Closed(V, s, E)
  <2>1. E \subseteq V
    OBVIOUS
  <2> HIDE DEF E
  <2> QED
    BY <1>3, <1>4, <2>1 DEF Closed, Neighbours
<1>6. k \in E
  <2> HIDE DEF E
  <2> QED
    BY <1>1, <1>5
<1> DEFINE Left == {l \in E : l <= at /\ l \notin D}
<1> SUFFICES ASSUME k \notin D PROVE FALSE
  OBVIOUS
<1>7. Left \in SUBSET Nat /\ Left # {}
  BY <1>6
<1>8. PICK l \in Left : \A m \in Left : l <= m
  <2> HIDE DEF Left
  <2> QED
    BY <1>7, LeastNumber
<1>9. l \in V /\ l \in Nat /\ l <= at /\ l \notin D /\ l \in E
  BY <1>8
<1>10. s[l] \in V
  BY <1>9, OverridesByName
<1>11. s[l] \in E /\ s[l] < l /\ s[l] \in Nat
  BY <1>4, <1>9, <1>10
<1>12. s[l] \in D
  <2> SUFFICES ASSUME s[l] \notin D PROVE FALSE
    OBVIOUS
  <2>1. s[l] \in Left
    BY <1>9, <1>11
  <2> HIDE DEF Left
  <2> QED
    BY <1>8, <1>9, <1>11, <2>1
<1>13. l \in D
  <2>1. l \in W
    BY <1>9
  <2> QED
    BY <1>2, <1>9, <1>12, <2>1
<1> QED
  BY <1>9, <1>13

LEMMA MinOfNumbers ==
  ASSUME NEW T \in SUBSET Nat, T # {}
  PROVE  Min(T) \in T /\ \A x \in T : Min(T) <= x
<1>1. \E x \in T : \A y \in T : x <= y
  BY LeastNumber
<1> QED
  BY <1>1 DEF Min

(* The two reconstructions of a chain at a boundary are one.               *)
LEMMA AsOfIsTimeline ==
  ASSUME NEW V \in SUBSET Id, IsFiniteSet(V), Cardinality(V) <= MaxDepth + 1,
         NEW A, V \subseteq A, NEW s, \A i \in V : s[i] \in 0..(i - 1) \cup {None},
         NEW i \in V, NEW at \in Nat, i <= at
  PROVE  AsOf(V, A, s, {i}, at) = TimelineAt(V, A, s, i, at)
<1> DEFINE W == {j \in V : j <= at}
           K == Joined(V, s, {i})
           D == Joined(W, s, {i})
<1>0. V \in SUBSET Nat /\ None \notin Id /\ MaxDepth \in Nat
  BY LineageAssumption
<1>1. \A j \in V : s[j] \in V => s[j] < j
  <2> SUFFICES ASSUME NEW j \in V, s[j] \in V PROVE s[j] < j
    OBVIOUS
  <2>1. s[j] \in Id /\ s[j] # None /\ j \in Nat
    BY <1>0
  <2>2. s[j] \in 0..(j - 1)
    BY <2>1
  <2> QED
    BY <2>1, <2>2
<1>2. i \in K /\ Closed(V, s, K) /\ \A E : Closed(V, s, E) /\ i \in E => K \subseteq E
  <2>1. {i} \cap V = {i}
    OBVIOUS
  <2> QED
    BY <2>1, JoinedIsLeast
<1>3. i \in D /\ Closed(W, s, D) /\ \A E : Closed(W, s, E) /\ i \in E => D \subseteq E
  <2>1. {i} \cap W = {i} /\ W \in SUBSET V
    OBVIOUS
  <2> HIDE DEF W
  <2>2. IsFiniteSet(W) /\ Cardinality(W) <= Cardinality(V)
    BY <2>1, FS_Subset
  <2>3. Cardinality(W) <= MaxDepth + 1
    BY <1>0, <2>2, FS_CardinalityType
  <2> QED
    BY <2>1, <2>2, <2>3, JoinedIsLeast
<1>4. AsOf(V, A, s, {i}, at) = {k \in K : k <= at /\ ~ \E j \in V : s[j] = k /\ j <= at}
  <2>1. {i} \cap A = {i} /\ K \subseteq A
    BY <1>2 DEF Closed
  <2>2. AsOf(V, A, s, {i}, at) = {k \in K : /\ k <= at /\ k \in A
                                             /\ ~ \E j \in V : s[j] = k /\ j > k /\ j <= at}
    BY <2>1 DEF AsOf
  <2>3. ASSUME NEW k \in K, NEW j \in V, s[j] = k PROVE j > k
    <3>1. k \in V
      BY <1>2 DEF Closed
    <3> QED
      BY <1>0, <1>1, <2>3, <3>1
  <2> HIDE DEF K
  <2> QED
    BY <2>1, <2>2, <2>3
<1>5. TimelineAt(V, A, s, i, at) = {k \in D : ~ \E j \in D : s[j] = k}
  <2>1. {j \in V \cap A : j <= at} = W
    OBVIOUS
  <2>2. TimelineAt(V, A, s, i, at) = ActiveVersions(D, s, at)
    BY <2>1 DEF TimelineAt, LineageAt
  <2>3. D \subseteq W /\ W \subseteq V
    BY <1>3 DEF Closed
  <2>4. ASSUME NEW k \in D
        PROVE  k <= at /\ ((ValidUntil(D, s, k) = None \/ at < ValidUntil(D, s, k))
                             <=> ~ \E j \in D : s[j] = k)
    <3>1. k <= at
      BY <2>3
    <3>2. CASE Successors(D, s, k) = {}
      BY <3>1, <3>2 DEF ValidUntil, Successors
    <3>3. CASE Successors(D, s, k) # {}
      <4>1. Successors(D, s, k) \in SUBSET Nat /\ Successors(D, s, k) \subseteq D
        BY <1>0, <2>3 DEF Successors
      <4>2. Min(Successors(D, s, k)) \in D
        BY <3>3, <4>1, MinOfNumbers
      <4>3. ValidUntil(D, s, k) \in D
        BY <3>3, <4>2 DEF ValidUntil
      <4>4. ValidUntil(D, s, k) # None /\ ~ (at < ValidUntil(D, s, k))
        <5> DEFINE v == ValidUntil(D, s, k)
        <5>1. v \in W /\ v \in Id /\ v \in Nat
          BY <1>0, <2>3, <4>3
        <5> HIDE DEF v
        <5>2. v <= at
          BY <5>1
        <5> QED
          BY <1>0, <5>1, <5>2 DEF v
      <4>5. \E j \in D : s[j] = k
        BY <3>3 DEF Successors
      <4> QED
        BY <3>1, <4>4, <4>5
    <3> QED
      BY <3>2, <3>3
  <2> HIDE DEF D
  <2> QED
    BY <2>2, <2>4 DEF ActiveVersions
<1>6. D \subseteq K
  <2>1. Closed(W, s, K \cap W)
    BY <1>2 DEF Closed, Neighbours
  <2> HIDE DEF K, D
  <2> QED
    BY <1>2, <1>3, <2>1
<1>7. ASSUME NEW k \in K, k <= at PROVE k \in D
  <2>1. i \in W
    OBVIOUS
  <2> HIDE DEF K, D
  <2>2. W = {j \in V : j <= at}
    OBVIOUS
  <2> HIDE DEF W
  <2>3. \A E : Closed(V, s, E) /\ i \in E => K \subseteq E
    BY <1>2
  <2>4. i \in D /\ Closed(W, s, D)
    BY <1>3
  <2> QED
    BY ONLY <1>0, <1>1, <1>7, <2>1, <2>2, <2>3, <2>4, BoundariesCutChainsOnce, at \in Nat
<1>8. \A j \in V, k \in D : j <= at /\ s[j] = k => j \in D
  BY <1>3 DEF Closed, Neighbours
<1>9. D \subseteq V /\ \A k \in D : k <= at
  BY <1>3 DEF Closed
<1> HIDE DEF K, D
<1> QED
  BY <1>4, <1>5, <1>6, <1>7, <1>8, <1>9

LEMMA MatchesAreListed ==
  ASSUME StoreFits, NEW S \in SUBSET Stored
  PROVE  IsFiniteSet(S) /\ Lists(Ranked(S, Stronger), S)
<1>1. S \in SUBSET Nat /\ IsFiniteSet(S) /\ \A i \in S : memories[i].strength \in Nat
  <2>1. IsFiniteSet(S)
    BY FS_Subset DEF StoreFits
  <2>2. \A i \in S : memories[i] \in Record /\ i \in Nat
    BY StoredRecords
  <2> QED
    BY <2>1, <2>2 DEF Record
<1> DEFINE v == [i \in S |-> memories[i].strength]
           t == [i \in S |-> 0]
           below == [i \in S |-> {j \in S : \/ v[j] > v[i]
                                            \/ v[j] = v[i] /\ t[j] > t[i]
                                            \/ v[j] = v[i] /\ t[j] = t[i] /\ j > i}]
<1>2. v \in [S -> Int] /\ t \in [S -> Int]
  BY <1>1
<1>3. TotallyOrdered(S, below)
  <2> HIDE DEF v, t
  <2> QED
    BY <1>1, <1>2, OrderIsTotal
<1>4. \A i, j \in S : Stronger(j, i) <=> j \in below[i]
  BY <1>1 DEF Stronger
<1>5. \A i \in S : below[i] = {j \in S : Stronger(j, i)}
  <2>1. \A i \in S : below[i] \subseteq S
    BY <1>3 DEF TotallyOrdered
  <2> HIDE DEF below
  <2> QED
    BY <1>4, <2>1
<1> DEFINE q == Ranked(S, Stronger)
<1>6. q = [n \in 1..Cardinality(S) |-> q[n]]
  <2> DEFINE e(n) == CHOOSE i \in S : Cardinality({j \in S : Stronger(j, i)}) = n - 1
  <2>1. q = [n \in 1..Cardinality(S) |-> e(n)]
    BY DEF Ranked
  <2> HIDE DEF e, q
  <2> QED
    BY <2>1
<1>7. ASSUME NEW n \in 1..Cardinality(S), \E i \in S : Cardinality(below[i]) = n - 1
      PROVE  q[n] \in S /\ Cardinality(below[q[n]]) = n - 1
  <2> HIDE DEF below
  <2>1. \E i \in S : Cardinality({j \in S : Stronger(j, i)}) = n - 1
    BY <1>5, <1>7
  <2>2. q[n] = CHOOSE i \in S : Cardinality({j \in S : Stronger(j, i)}) = n - 1
    BY DEF Ranked
  <2>3. q[n] \in S /\ Cardinality({j \in S : Stronger(j, q[n])}) = n - 1
    BY <2>1, <2>2
  <2> HIDE DEF q
  <2> QED
    BY <1>5, <2>3
<1> HIDE DEF below, q
<1>8. PicksByRank(q, S, below)
  BY <1>6, <1>7 DEF PicksByRank
<1>9. Lists(q, S)
  BY <1>1, <1>3, <1>8, RanksAreUnique
<1> QED
  BY <1>1, <1>9 DEF q

(* The pages of a search, one match each, hold every match.                *)
LEMMA PagesHoldTheMatches ==
  ASSUME StoreFits, NEW ask
  PROVE  UNION {ToSet(Search(ask, n, 1).items) : n \in 0..Search(ask, 0, 1).total} = Matching(ask)
<1> DEFINE S == Matching(ask)
           q == Ranked(S, Stronger)
           N == Cardinality(S)
           last(n) == Min({n + 1, Len(q)})
           page(n) == ToSet(Search(ask, n, 1).items)
<1>1. Lists(q, S) /\ IsFiniteSet(S) /\ N \in Nat
  <2>1. S \in SUBSET Stored
    BY VisibleIsAdmitted
  <2> HIDE DEF S
  <2> QED
    BY <2>1, MatchesAreListed, FS_CardinalityType
<1>2. Search(ask, 0, 1).total = Len(q) /\ \A n : Search(ask, n, 1).items = SubSeq(q, n + 1, last(n))
  BY DEF Search
<1> HIDE DEF S, q
<1>3. q \in Seq(S) /\ Len(q) = N /\ DOMAIN q = 1..N /\ \A n \in 1..N : q[n] \in S
  BY <1>1 DEF Lists
<1>4. \A n \in 0..N : last(n) = IF n < N THEN n + 1 ELSE N
  <2> SUFFICES ASSUME NEW n \in 0..N PROVE last(n) = IF n < N THEN n + 1 ELSE N
    OBVIOUS
  <2>1. {n + 1, N} \in SUBSET Nat /\ {n + 1, N} # {}
    BY <1>1
  <2>2. Min({n + 1, N}) \in {n + 1, N} /\ \A x \in {n + 1, N} : Min({n + 1, N}) <= x
    BY <2>1, MinOfNumbers
  <2>3. last(n) = Min({n + 1, N})
    BY <1>3
  <2> QED
    BY <1>1, <2>2, <2>3
<1> HIDE DEF last
<1>5. ASSUME NEW n \in 0..N PROVE page(n) = IF n < N THEN {q[n + 1]} ELSE {}
  <2>1. CASE n < N
    <3>1. Search(ask, n, 1).items = SubSeq(q, n + 1, n + 1) /\ n + 1 \in 1..N
      <4>1. n + 1 \in 1..N /\ last(n) = n + 1
        BY <1>1, <1>4, <2>1
      <4> QED
        BY <1>2, <4>1
    <3>2. /\ DOMAIN SubSeq(q, n + 1, n + 1) = 1..1
          /\ SubSeq(q, n + 1, n + 1)[1] = q[n + 1]
      <4> DEFINE m == n + 1
      <4>1. m \in 1..Len(q) /\ m - m + 1 = 1 /\ m + 1 - 1 = m
        BY <1>3, <3>1
      <4> HIDE DEF m
      <4>2. SubSeq(q, m, m) = [k \in 1..(m - m + 1) |-> q[m + k - 1]]
        BY <4>1
      <4> QED
        BY <4>1, <4>2 DEF m
    <3>3. ToSet(SubSeq(q, n + 1, n + 1)) = {q[n + 1]}
      BY <3>2 DEF ToSet
    <3> QED
      BY <2>1, <3>1, <3>3
  <2>2. CASE ~ (n < N)
    <3>1. n = N
      BY <1>1, <2>2
    <3>2. Search(ask, n, 1).items = SubSeq(q, N + 1, N)
      <4>1. last(n) = N
        BY <1>4, <2>2, <3>1
      <4> QED
        BY <1>2, <3>1, <4>1
    <3>3. SubSeq(q, N + 1, N) = <<>>
      BY <1>1, <1>3
    <3>4. ToSet(<<>>) = {}
      BY DEF ToSet
    <3> QED
      BY <2>2, <3>2, <3>3, <3>4
  <2> QED
    BY <2>1, <2>2
<1>6. UNION {page(n) : n \in 0..N} = S
  <2>1. ASSUME NEW i \in S PROVE \E n \in 0..N : i \in page(n)
    <3>1. PICK m \in 1..N : q[m] = i
      BY <1>1 DEF Lists
    <3>2. m - 1 \in 0..N /\ m - 1 < N /\ (m - 1) + 1 = m
      BY <1>1
    <3> HIDE DEF page
    <3> QED
      BY <1>5, <3>1, <3>2
  <2>2. ASSUME NEW n \in 0..N, NEW i \in page(n) PROVE i \in S
    <3>1. n < N /\ i = q[n + 1]
      <4> HIDE DEF page
      <4> QED
        BY <1>5, <2>2
    <3>2. n + 1 \in 1..N
      BY <1>1, <3>1
    <3> QED
      BY <1>3, <3>1, <3>2
  <2> HIDE DEF page
  <2> QED
    BY <2>1, <2>2
<1> QED
  BY <1>2, <1>3, <1>6 DEF S

(* On every store of no more memories than a lineage query can follow.     *)
THEOREM AsOfAlwaysAgreesWithTimeline ==
  Spec => [](Cardinality(Stored) <= MaxDepth + 1 => AsOfAgreesWithTimeline)
<1>1. ASSUME RecallInv, Cardinality(Stored) <= MaxDepth + 1
      PROVE  AsOfAgreesWithTimeline
  <2> DEFINE s == supersedes
             now == Cardinality(Stored)
             found(ask) == UNION {ToSet(Search(ask, n, 1).items) : n \in 0..Search(ask, 0, 1).total}
             older(V) == \A i \in V : s[i] \in 0..(i - 1) \cup {None}
  <2>1. /\ StoreFits /\ IsFiniteSet(Stored) /\ now \in Nat /\ MaxDepth \in Nat
        /\ Stored \subseteq Id /\ Stored = 1..now
    BY <1>1, StoredRecords, LineageAssumption DEF RecallInv, StoreFits
  <2>2. ASSUME NEW ask \in Asks, InScope(ask) \subseteq Admitted, older(InScope(ask)),
               NEW i \in InScope(ask), NEW at \in i..now
        PROVE  AsOf(InScope(ask), Admitted, s, {i}, at) = TimelineAt(InScope(ask), Admitted, s, i, at)
    <3> DEFINE V == InScope(ask)
    <3>1. V \in SUBSET Stored /\ V \in SUBSET Id
      BY <2>1 DEF InScope
    <3>2. i \in V /\ i \in Nat /\ at \in Nat /\ i <= at
      BY <2>1, <3>1
    <3> HIDE DEF V, s
    <3>3. IsFiniteSet(V) /\ Cardinality(V) <= MaxDepth + 1
      <4>1. IsFiniteSet(V) /\ Cardinality(V) <= now
        BY <2>1, <3>1, FS_Subset
      <4> QED
        BY <1>1, <2>1, <4>1, FS_CardinalityType
    <3>4. V \subseteq Admitted /\ \A k \in V : s[k] \in 0..(k - 1) \cup {None}
      BY <2>2 DEF V
    <3>5. AsOf(V, Admitted, s, {i}, at) = TimelineAt(V, Admitted, s, i, at)
      BY <3>1, <3>2, <3>3, <3>4, AsOfIsTimeline
    <3> QED
      BY <3>5 DEF V
  <2>3. ASSUME NEW ask \in Asks, InScope(ask) \subseteq Admitted, older(InScope(ask))
        PROVE  SearchAsOf(ask, now)
                 = (UNION {TimelineAt(InScope(ask), Admitted, s, i, now) : i \in found(ask)}) \cap Visible(ask)
    <3> DEFINE V == InScope(ask)
               M == Matching(ask)
               Shown(k) == k <= now /\ ~ \E j \in V : s[j] = k /\ j > k /\ j <= now
    <3>1. found(ask) = M
      BY <2>1, PagesHoldTheMatches
    <3>2. M \subseteq Visible(ask) /\ Visible(ask) \subseteq V /\ V \in SUBSET Stored
      BY VisibleIsAdmitted DEF Visible, InScope
    <3>3. IsFiniteSet(V) /\ Cardinality(V) <= MaxDepth + 1
      <4> HIDE DEF V
      <4>1. IsFiniteSet(V) /\ Cardinality(V) <= now
        BY <2>1, <3>2, FS_Subset
      <4> QED
        BY <1>1, <2>1, <4>1, FS_CardinalityType
    <3>4. SearchAsOf(ask, now) = {k \in Joined(V, s, M) : Shown(k) /\ k \in Visible(ask)}
      <4>1. M \cap Visible(ask) = M
        BY <3>2
      <4> HIDE DEF V, M
      <4> QED
        BY <4>1 DEF SearchAsOf, AsOf, V, M
    <3>5. ASSUME NEW i \in M
          PROVE  TimelineAt(V, Admitted, s, i, now) = {k \in Joined(V, s, {i}) : Shown(k) /\ k \in Admitted}
      <4>1. i \in V /\ i \in 1..now
        BY <2>1, <3>2
      <4>2. now \in i..now
        BY <2>1, <4>1
      <4>3. TimelineAt(V, Admitted, s, i, now) = AsOf(V, Admitted, s, {i}, now)
        BY <2>2, <2>3, <4>1, <4>2
      <4>4. {i} \cap Admitted = {i}
        BY <2>3, <4>1
      <4> HIDE DEF V, M
      <4> QED
        BY <4>3, <4>4 DEF AsOf
    <3>6. Joined(V, s, M) = UNION {Joined(V, s, {i}) : i \in M}
      <4>1. M \in SUBSET V
        BY <3>2
      <4> HIDE DEF V, M
      <4> QED
        BY <3>3, <4>1, JoinedOneByOne
    <3>7. Visible(ask) \subseteq Admitted
      BY VisibleIsAdmitted
    <3>8. (UNION {TimelineAt(V, Admitted, s, i, now) : i \in M}) \cap Visible(ask)
            = {k \in UNION {Joined(V, s, {i}) : i \in M} : Shown(k) /\ k \in Visible(ask)}
      <4> HIDE DEF V, M, Shown
      <4> QED
        BY <3>5, <3>7
    <3> HIDE DEF M, Shown
    <3> QED
      BY <3>1, <3>4, <3>6, <3>8 DEF V
  <2> HIDE DEF found
  <2> QED
    BY <2>2, <2>3 DEF AsOfAgreesWithTimeline, found
<1> QED
  BY <1>1, RecallInvariant, PTL
=============================================================================
