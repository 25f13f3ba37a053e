------------------------------ MODULE FoldProofs ------------------------------
(***************************************************************************)
(* What recursion computes.  A recursive function, and so a fold of the    *)
(* community modules, is some function that satisfies its own equation:    *)
(* there has to be one, and what holds of its values is shown by the least *)
(* counterexample.                                                         *)
(***************************************************************************)
EXTENDS Integers, Sequences, FiniteSetsExt, SequencesExt, FiniteSetTheorems,
        WellFoundedInduction, TLAPS

(***************************************************************************)
(* Numbers.                                                                *)
(***************************************************************************)
\* Some number of a set is the least.
LEMMA LeastNatural ==
    ASSUME NEW N \in SUBSET Nat, N # {}
    PROVE  \E n \in N : \A m \in N : n <= m
<1> DEFINE R == OpToRel(<, Nat)
<1>1. IsWellFoundedOn(R, Nat)
      BY NatLessThanWellFounded
<1>2. \A m, n \in Nat : m < n => <<m, n>> \in R
      BY DEF OpToRel
<1> HIDE DEF R
<1>3. PICK n \in N : \A m \in N : ~(<<m, n>> \in R)
      BY <1>1, WFMin
<1>4. ASSUME NEW m \in N PROVE n <= m
  <2>1. m \in Nat /\ n \in Nat
        OBVIOUS
  <2>2. ~(m < n)
        BY <1>2, <1>3, <2>1, Zenon
  <2>3. QED
        BY <2>1, <2>2
<1>5. QED
      BY <1>4

(***************************************************************************)
(* Recursion that descends: from x to next[x], which is smaller, until it  *)
(* is final.                                                               *)
(***************************************************************************)
Descends(X, Final, size, next) ==
    /\ Final \subseteq X /\ size \in [X -> Nat] /\ next \in [X -> X]
    /\ \A x \in X \ Final : size[next[x]] < size[x]

\* A set that holds what is final, and whatever leads to one of its own, is all.
LEMMA DescentReaches ==
    ASSUME NEW X, NEW Final, NEW size, NEW next, Descends(X, Final, size, next),
           NEW Good, \A x \in Final : x \in Good,
           \A x \in X \ Final : next[x] \in Good => x \in Good
    PROVE  \A x \in X : x \in Good
<1> DEFINE bad == {x \in X : x \notin Good}
           sizes == {size[x] : x \in bad}
<1>1. size \in [X -> Nat] /\ next \in [X -> X] /\ Final \subseteq X
      BY DEF Descends
<1>2. ASSUME bad # {} PROVE FALSE
  <2>1. sizes \in SUBSET Nat /\ sizes # {}
        BY <1>1, <1>2
  <2>2. PICK n \in sizes : \A m \in sizes : n <= m
    <3> HIDE DEF sizes
    <3>1. QED
          BY <2>1, LeastNatural
  <2>3. PICK x \in bad : size[x] = n
        BY <2>2
  <2>4. x \in X \ Final
        BY <2>3
  <2>5. next[x] \in bad
        BY <1>1, <2>3, <2>4
  <2>6. size[next[x]] < size[x] /\ size[next[x]] \in Nat /\ size[x] \in Nat
        BY <1>1, <2>4 DEF Descends
  <2>7. size[next[x]] \in sizes
        BY <2>5
  <2>8. n <= size[next[x]]
        BY <2>2, <2>7
  <2>9. QED
        BY <2>3, <2>6, <2>8
<1>3. QED
      BY <1>2

\* What the recursion computes, from base where it ends and by step elsewhere.
Follows(f, X, Final, next, base, step) ==
    \A x \in X : f[x] = IF x \in Final THEN base[x] ELSE step[<<x, f[next[x]]>>]

\* There is a function so defined, when sizes are bounded.
LEMMA DescentDefines ==
    ASSUME NEW X, NEW Final, NEW size, NEW next, Descends(X, Final, size, next),
           NEW most \in Nat, \A x \in X : size[x] <= most,
           NEW V, NEW base \in [X -> V], NEW step \in [X \X V -> V]
    PROVE  \E f \in [X -> V] : Follows(f, X, Final, next, base, step)
<1> DEFINE Body(f, x) == IF x \in Final THEN base[x] ELSE step[<<x, f[next[x]]>>]
           Right(f, n) == \A x \in X : size[x] < n => f[x] = Body(f, x)
           Defined(n) == \E f \in [X -> V] : Right(f, n)
           missing == {n \in Nat : ~ Defined(n)}
<1>1. size \in [X -> Nat] /\ next \in [X -> X] /\ \A x \in X \ Final : size[next[x]] < size[x]
      BY DEF Descends
<1>2. Defined(0)
  <2>1. Right(base, 0)
        BY <1>1
  <2>2. QED
        BY <2>1
<1>3. ASSUME NEW n \in Nat, Defined(n) PROVE Defined(n + 1)
  <2>1. PICK f \in [X -> V] : Right(f, n)
        BY <1>3
  <2> DEFINE g == [x \in X |-> IF size[x] < n THEN f[x] ELSE Body(f, x)]
  <2>2. g \in [X -> V]
        BY <1>1
  <2>3. ASSUME NEW x \in X, size[x] < n + 1 PROVE g[x] = Body(g, x)
    <3>1. g[x] = Body(f, x)
          BY <2>1
    <3>2. CASE x \in Final
          BY <3>1, <3>2
    <3>3. CASE x \notin Final
      <4>1. next[x] \in X /\ size[next[x]] < n
            BY <1>1, <2>3, <3>3
      <4>2. g[next[x]] = f[next[x]]
            BY <4>1
      <4>3. QED
            BY <3>1, <3>3, <4>2
    <3>4. QED
          BY <3>2, <3>3
  <2>4. Right(g, n + 1)
        BY <2>3
  <2> HIDE DEF Right, g
  <2>5. QED
        BY <2>2, <2>4
<1> HIDE DEF Defined
<1>4. ASSUME missing # {} PROVE FALSE
  <2>1. PICK n \in missing : \A m \in missing : n <= m
        BY <1>4, LeastNatural
  <2>2. n # 0 /\ n \in Nat
        BY <1>2
  <2>3. n - 1 \in Nat /\ n - 1 \notin missing
        BY <2>1, <2>2
  <2>4. Defined(n - 1)
        BY <2>3
  <2>5. Defined((n - 1) + 1)
        BY <1>3, <2>3, <2>4
  <2>6. QED
        BY <2>1, <2>2, <2>5
<1>5. Defined(most + 1)
      BY <1>4
<1>6. PICK f \in [X -> V] : Right(f, most + 1)
      BY <1>5 DEF Defined
<1>7. \A x \in X : f[x] = Body(f, x)
      BY <1>1, <1>6
<1>8. QED
      BY <1>7 DEF Follows

\* Taking elements out of a finite set one by one descends to the empty set.
LEMMA PeelingDescends ==
    ASSUME NEW D, IsFiniteSet(D), NEW pick, \A s \in SUBSET D : s # {} => pick[s] \in s
    PROVE  /\ Descends(SUBSET D, {{}}, [s \in SUBSET D |-> Cardinality(s)],
                       [s \in SUBSET D |-> s \ {pick[s]}])
           /\ Cardinality(D) \in Nat /\ \A s \in SUBSET D : Cardinality(s) <= Cardinality(D)
<1>1. ASSUME NEW s \in SUBSET D
      PROVE  IsFiniteSet(s) /\ Cardinality(s) \in Nat /\ Cardinality(s) <= Cardinality(D)
      BY FS_Subset, FS_CardinalityType
<1>2. ASSUME NEW s \in SUBSET D, s # {}
      PROVE  Cardinality(s \ {pick[s]}) = Cardinality(s) - 1 /\ Cardinality(s) \in Nat
      BY <1>1, <1>2, FS_RemoveElement
<1>3. Cardinality(D) \in Nat
      BY FS_CardinalityType
<1>4. ASSUME NEW s \in (SUBSET D) \ {{}} PROVE Cardinality(s \ {pick[s]}) < Cardinality(s)
  <2>1. s \in SUBSET D /\ s # {}
        OBVIOUS
  <2>2. Cardinality(s \ {pick[s]}) = Cardinality(s) - 1 /\ Cardinality(s) \in Nat
        BY <1>2, <2>1
  <2>3. QED
        BY <2>2
<1> DEFINE size == [s \in SUBSET D |-> Cardinality(s)]
           next == [s \in SUBSET D |-> s \ {pick[s]}]
<1>5. size \in [SUBSET D -> Nat] /\ next \in [SUBSET D -> SUBSET D]
      BY <1>1
<1>6. ASSUME NEW s \in (SUBSET D) \ {{}} PROVE size[next[s]] < size[s]
  <2>1. next[s] = s \ {pick[s]} /\ next[s] \in SUBSET D
        OBVIOUS
  <2>2. size[next[s]] = Cardinality(s \ {pick[s]}) /\ size[s] = Cardinality(s)
        BY <2>1
  <2> HIDE DEF size, next
  <2>3. QED
        BY <1>4, <2>2
<1> HIDE DEF size, next
<1>7. Descends(SUBSET D, {{}}, size, next)
      BY <1>5, <1>6 DEF Descends
<1>8. QED
      BY <1>1, <1>3, <1>7 DEF size, next

\* The greatest of some numbers up to n.
LEMMA GreatestIsThere ==
    ASSUME NEW n \in Nat, NEW S \in SUBSET (0..n), S # {}
    PROVE  Max(S) \in S /\ \A y \in S : Max(S) >= y
<1> DEFINE below == {n - x : x \in S}
<1>1. below \in SUBSET Nat /\ below # {}
  <2>1. \A x \in S : n - x \in Nat
        OBVIOUS
  <2>2. QED
        BY <2>1
<1>2. PICK m \in below : \A y \in below : m <= y
  <2> HIDE DEF below
  <2>1. QED
        BY <1>1, LeastNatural
<1>3. PICK x \in S : m = n - x
      BY <1>2
<1>4. \A y \in S : x >= y
  <2>1. TAKE y \in S
  <2>2. n - y \in below
        OBVIOUS
  <2>3. n - x <= n - y
        BY <1>2, <1>3, <2>2
  <2>4. QED
        BY <2>3
<1>5. QED
      BY <1>3, <1>4 DEF Max

\* Folding op over a finite set, in the order in which pick takes its elements.
Folds(f, D, pick, base, op) ==
    f = [s \in SUBSET D |-> IF s = {} THEN base ELSE op[<<pick[s], f[s \ {pick[s]}]>>]]

\* There is such a fold.
LEMMA FoldExists ==
    ASSUME NEW D, IsFiniteSet(D), NEW pick, \A s \in SUBSET D : s # {} => pick[s] \in s,
           NEW V, NEW base \in V, NEW op \in [D \X V -> V]
    PROVE  \E f \in [SUBSET D -> V] : Folds(f, D, pick, base, op)
<1> DEFINE X == SUBSET D
           size == [s \in X |-> Cardinality(s)]
           next == [s \in X |-> s \ {pick[s]}]
           bases == [s \in X |-> base]
           step == [sv \in X \X V |-> IF sv[1] = {} THEN base ELSE op[<<pick[sv[1]], sv[2]>>]]
           Final == {{}}
           most == Cardinality(D)
<1>1. Descends(X, Final, size, next) /\ most \in Nat /\ \A s \in X : size[s] <= most
      BY PeelingDescends
<1>2. \A s \in X : s # {} => pick[s] \in D /\ next[s] = s \ {pick[s]} /\ next[s] \in X
      OBVIOUS
<1>3. bases \in [X -> V] /\ step \in [X \X V -> V]
      BY <1>2
<1>4. ASSUME NEW f, NEW s \in X, s # {}, f[next[s]] \in V
      PROVE  step[<<s, f[next[s]]>>] = op[<<pick[s], f[s \ {pick[s]}]>>]
      BY <1>2, <1>4
<1>5. \E f \in [X -> V] : Folds(f, D, pick, base, op)
  <2>1. PICK f \in [X -> V] : Follows(f, X, Final, next, bases, step)
    <3> HIDE DEF X, size, next, bases, step, Final, most
    <3>1. QED
          BY <1>1, <1>3, DescentDefines
  <2>2. ASSUME NEW s \in X
        PROVE  f[s] = IF s = {} THEN base ELSE op[<<pick[s], f[s \ {pick[s]}]>>]
    <3>1. f[s] = IF s \in Final THEN bases[s] ELSE step[<<s, f[next[s]]>>]
          BY <2>1 DEF Follows
    <3>2. CASE s = {}
          BY <3>1, <3>2
    <3>3. CASE s # {}
      <4>1. f[s] = step[<<s, f[next[s]]>>]
            BY <3>1, <3>3
      <4>2. f[next[s]] \in V
            BY <1>2, <2>1, <3>3
      <4>3. step[<<s, f[next[s]]>>] = op[<<pick[s], f[s \ {pick[s]}]>>]
            BY <1>4, <3>3, <4>2
      <4>4. QED
            BY <3>3, <4>1, <4>3
    <3>4. QED
          BY <3>2, <3>3
  <2> DEFINE g == [s \in SUBSET D |-> IF s = {} THEN base ELSE op[<<pick[s], f[s \ {pick[s]}]>>]]
  <2>3. f = g
    <3>1. \A s \in X : f[s] = g[s]
          BY <2>2
    <3>2. f \in [X -> V] /\ DOMAIN g = X /\ g = [s \in X |-> g[s]]
          OBVIOUS
    <3> HIDE DEF g, X
    <3>3. QED
          BY <3>1, <3>2
  <2>4. QED
        BY <2>3 DEF Folds
<1>6. QED
      BY <1>5

\* What holds of the empty set, and of a set when it holds of the rest, holds
\* of every finite set.
LEMMA PeelingReaches ==
    ASSUME NEW D, IsFiniteSet(D), NEW pick, \A s \in SUBSET D : s # {} => pick[s] \in s,
           NEW Good, {} \in Good,
           \A s \in SUBSET D : s # {} /\ s \ {pick[s]} \in Good => s \in Good
    PROVE  \A s \in SUBSET D : s \in Good
<1> DEFINE X == SUBSET D
           size == [s \in X |-> Cardinality(s)]
           next == [s \in X |-> s \ {pick[s]}]
           Final == {{}}
<1>1. Descends(X, Final, size, next)
      BY PeelingDescends
<1>2. \A s \in X : next[s] = s \ {pick[s]}
      OBVIOUS
<1>3. (\A s \in Final : s \in Good) /\ \A s \in X \ Final : next[s] \in Good => s \in Good
  <2>1. \A s \in X \ Final : s # {}
        OBVIOUS
  <2>2. \A s \in Final : s = {}
        OBVIOUS
  <2> HIDE DEF next, Final
  <2>3. QED
        BY <1>2, <2>1, <2>2
<1>4. QED
  <2> HIDE DEF X, size, next, Final
  <2>1. \A s \in X : s \in Good
        BY <1>1, <1>3, DescentReaches
  <2>2. QED
        BY <2>1 DEF X

-----------------------------------------------------------------------------
(***************************************************************************)
(* Sequences, one element after the other.                                 *)
(***************************************************************************)
\* The prefixes of 1..n, as a fold from the left takes them.
LEMMA InitialSegments ==
    ASSUME NEW n \in Nat, NEW i \in 1..n
    PROVE  /\ 1..i \in SUBSET (1..n) /\ 1..i # {}
           /\ Max(1..i) = i /\ (1..i) \ {i} = 1..(i - 1)
<1> DEFINE S == 1..i
<1>1. S \in SUBSET (0..n) /\ S # {} /\ S \in SUBSET (1..n) /\ i \in S
      OBVIOUS
<1>2. Max(S) \in S /\ \A y \in S : Max(S) >= y
  <2> HIDE DEF S
  <2>1. QED
        BY <1>1, GreatestIsThere
<1>3. S \ {i} = 1..(i - 1)
  <2>1. \A x : x \in S \ {i} <=> x \in 1..(i - 1)
        OBVIOUS
  <2>2. QED
        BY <2>1, Zenon
<1>4. Max(S) = i
  <2> DEFINE m == Max(S)
  <2>1. m \in S /\ m >= i
        BY <1>1, <1>2
  <2> HIDE DEF m
  <2>2. m \in 1..i
        BY <2>1
  <2>3. m = i
        BY <2>1, <2>2
  <2>4. QED
        BY <2>3 DEF m
<1>5. QED
      BY <1>1, <1>3, <1>4

\* What holds of 0, and of each number up to n when it holds of the one before.
LEMMA Counting ==
    ASSUME NEW n \in Nat, NEW Good, 0 \in Good,
           \A i \in 1..n : i - 1 \in Good => i \in Good
    PROVE  \A i \in 0..n : i \in Good
<1> DEFINE bad == {i \in 0..n : i \notin Good}
<1>1. ASSUME bad # {} PROVE FALSE
  <2>1. bad \in SUBSET Nat
        OBVIOUS
  <2>2. PICK i \in bad : \A m \in bad : i <= m
    <3> HIDE DEF bad
    <3>1. QED
          BY <1>1, <2>1, LeastNatural
  <2>3. i \in 1..n
        BY <2>2
  <2>4. i - 1 \in 0..n /\ i - 1 \notin bad
        BY <2>2, <2>3
  <2>5. QED
        BY <2>2, <2>3, <2>4
<1>2. QED
      BY <1>1
=============================================================================
